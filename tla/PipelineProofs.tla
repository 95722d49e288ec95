--------------------------- MODULE PipelineProofs ---------------------------
(***************************************************************************)
(* What holds of Pipeline for every number of items, every clock, every    *)
(* batch size and every set of retry configurations.                       *)
(***************************************************************************)
EXTENDS Pipeline, FiniteSetTheorems, WellFoundedInduction, TLAPS
-----------------------------------------------------------------------------
(* The operators of SQLiteQueue, for every table. *)

(* A set of natural numbers that is not empty has a least element. *)
LEMMA LeastNatural ==
  ASSUME NEW S \in SUBSET Nat, S # {}
  PROVE  \E m \in S : \A k \in S : m <= k
<1>1. PICK m \in S : \A k \in S : <<k, m>> \notin OpToRel(<, Nat)
  BY WFMin, NatLessThanWellFounded, Zenon
<1>2. \A k \in S : ~(k < m)
  BY <1>1, Zenon DEF OpToRel
<1> QED
  BY <1>2

(* Division with remainder. *)
LEMMA DivMod ==
  ASSUME NEW n \in Int, NEW k \in Nat \ {0}
  PROVE  /\ n \div k \in Int
         /\ n % k \in 0 .. k - 1
         /\ n = k * (n \div k) + (n % k)
  OBVIOUS

(* The keys of one second form an interval: no text sorts out of its second. *)
LEMMA TextKeyRange ==
  ASSUME NEW t \in Int
  PROVE  /\ t \div TicksPerSecond \in Int
         /\ TextKey(t) \in Int
         /\ TextKey(t) >  (t \div TicksPerSecond) * (TicksPerSecond + 1)
         /\ TextKey(t) <= (t \div TicksPerSecond) * (TicksPerSecond + 1) + TicksPerSecond
<1> DEFINE K == TicksPerSecond
           q == t \div K
           r == t % K
           d == IF r = 0 THEN K ELSE r
<1>1. K \in Nat /\ K > 0 /\ q \in Int /\ r \in 0 .. K - 1
  BY TicksAssumption, DivMod
<1>2. d \in 1 .. K
  BY <1>1
<1>3. TextKey(t) = q * (K + 1) + d
  BY DEF TextKey
<1>4. q * (K + 1) \in Int
  BY <1>1
<1> HIDE DEF q, d, K
<1> QED
  BY <1>1, <1>2, <1>3, <1>4 DEF q, K

(* Multiplication by a natural number is monotone. *)
LEMMA Mult ==
  ASSUME NEW a \in Int, NEW b \in Int, NEW k \in Nat, a <= b
  PROVE  a * k <= b * k
  OBVIOUS

(* Texts in order are seconds in order. *)
LEMMA TextLeqSecond ==
  ASSUME NEW s \in Int, NEW t \in Int, TextLeq(s, t)
  PROVE  s \div TicksPerSecond <= t \div TicksPerSecond
<1> DEFINE K == TicksPerSecond
           p == s \div K
           q == t \div K
<1>1. p \in Int /\ q \in Int /\ K \in Nat /\ K > 0
  BY TextKeyRange, TicksAssumption
<1>2. SUFFICES ASSUME q + 1 <= p PROVE FALSE
  BY <1>1
<1>3. (q + 1) * (K + 1) <= p * (K + 1)
  BY <1>1, <1>2, Mult
<1>4. (q + 1) * (K + 1) = q * (K + 1) + K + 1
  BY <1>1
<1>5. p * (K + 1) < q * (K + 1) + K
  BY TextKeyRange, <1>1 DEF TextLeq
<1> QED
  BY <1>1, <1>3, <1>4, <1>5

(* The comparison of RFC 3339 texts errs by less than a second: a time whose
   text is not after another's is less than one second after it. *)
THEOREM TextOrderWithinASecond ==
  ASSUME NEW s \in Int, NEW t \in Int, TextLeq(s, t)
  PROVE  s < t + TicksPerSecond
<1> DEFINE K == TicksPerSecond
           p == s \div K
           q == t \div K
<1>1. p \in Int /\ q \in Int /\ K \in Nat /\ K > 0
  BY TextKeyRange, TicksAssumption
<1>2. p <= q
  BY TextLeqSecond
<1>3. p * K <= q * K
  BY <1>1, <1>2, Mult
<1>4. s < K * p + K /\ K * q <= t
  BY DivMod, TicksAssumption
<1> HIDE DEF p, q, K
<1>5. K * p = p * K /\ K * q = q * K
  BY <1>1
<1> QED
  BY <1>1, <1>3, <1>4, <1>5 DEF K

(* PendingBatch returns due table, so pending table, of the table. *)
LEMMA PendingBatchIsDue ==
  ASSUME NEW table, NEW cfg, NEW limit, NEW time
  PROVE  /\ PendingBatch(table, cfg, limit, time) \subseteq Due(table, cfg, time)
         /\ Due(table, cfg, time) \subseteq Pending(table)
         /\ Pending(table) \subseteq DOMAIN table
  BY DEF PendingBatch, Due, Pending

(* No row PendingBatch leaves behind is a second or more older than one it
   takes: the only disorder is that of the texts within one second. *)
LEMMA PendingBatchOldest ==
  ASSUME NEW table, NEW cfg, NEW limit \in Nat, NEW time,
         IsFiniteSet(DOMAIN table), \A i \in DOMAIN table : table[i].created \in Nat,
         NEW id \in PendingBatch(table, cfg, limit, time),
         NEW other \in Due(table, cfg, time) \ PendingBatch(table, cfg, limit, time)
  PROVE  table[id].created < table[other].created + TicksPerSecond
<1> DEFINE due == Due(table, cfg, time)
           ahead(i) == {j \in due : Before(table, j, i)}
<1>1. due \subseteq DOMAIN table /\ id \in due /\ other \in due
  BY PendingBatchIsDue
<1>2. Cardinality(ahead(id)) < limit /\ ~(Cardinality(ahead(other)) < limit)
  BY DEF PendingBatch
<1>3. IsFiniteSet(ahead(id)) /\ IsFiniteSet(ahead(other))
  <2>1. ahead(id) \subseteq DOMAIN table /\ ahead(other) \subseteq DOMAIN table
    BY <1>1
  <2> QED
    BY <2>1, FS_Subset
<1>4. \A i \in due : table[i].created \in Int /\ TextKey(table[i].created) \in Int
  BY <1>1, TextKeyRange
<1>5. ~(ahead(other) \subseteq ahead(id))
  <2>1. SUFFICES ASSUME ahead(other) \subseteq ahead(id) PROVE FALSE
    OBVIOUS
  <2>2. Cardinality(ahead(other)) <= Cardinality(ahead(id))
    BY <1>3, <2>1, FS_Subset
  <2>3. Cardinality(ahead(other)) \in Nat /\ Cardinality(ahead(id)) \in Nat
    BY <1>3, FS_CardinalityType
  <2> HIDE DEF ahead
  <2> QED
    BY <1>2, <2>2, <2>3
<1>6. PICK j \in due : Before(table, j, other) /\ ~Before(table, j, id)
  BY <1>5
<1>7. TextKey(table[j].created) <= TextKey(table[other].created)
  BY <1>1, <1>4, <1>6 DEF Before
<1>8. ~(TextKey(table[j].created) < TextKey(table[id].created))
  BY <1>6 DEF Before
<1>9. TextLeq(table[id].created, table[other].created)
  BY <1>1, <1>4, <1>7, <1>8 DEF TextLeq
<1> QED
  BY <1>1, <1>4, <1>9, TextOrderWithinASecond

(* A batch that leaves a due row behind is full. *)
LEMMA PendingBatchFull ==
  ASSUME NEW table, NEW cfg, NEW limit \in Nat, NEW time,
         IsFiniteSet(DOMAIN table), DOMAIN table \subseteq Nat,
         \A i \in DOMAIN table : table[i].created \in Nat,
         Due(table, cfg, time) \ PendingBatch(table, cfg, limit, time) # {}
  PROVE  Cardinality(PendingBatch(table, cfg, limit, time)) >= limit
<1> DEFINE due == Due(table, cfg, time)
           taken == PendingBatch(table, cfg, limit, time)
           ahead(i) == {j \in due : Before(table, j, i)}
           rank(i) == Cardinality(ahead(i))
<1>1. due \subseteq DOMAIN table /\ taken \subseteq due
  BY PendingBatchIsDue
<1>2. \A i \in due : IsFiniteSet(ahead(i)) /\ rank(i) \in Nat
  <2> TAKE i \in due
  <2>1. ahead(i) \subseteq DOMAIN table
    BY <1>1
  <2> QED
    BY <2>1, FS_Subset, FS_CardinalityType
<1>3. \A i \in due : i \notin taken <=> rank(i) >= limit
  <2> TAKE i \in due
  <2>1. i \in taken <=> rank(i) < limit
    BY DEF PendingBatch
  <2>2. rank(i) \in Nat
    BY <1>2
  <2> HIDE DEF rank, ahead, taken, due
  <2> QED
    BY <2>1, <2>2
<1> DEFINE ranks == {rank(i) : i \in due \ taken}
<1>4. PICK m \in ranks : \A k \in ranks : m <= k
  <2>1. ranks \in SUBSET Nat /\ ranks # {}
    BY <1>2
  <2> HIDE DEF ranks
  <2> QED
    BY <2>1, LeastNatural
<1>5. PICK first \in due \ taken : \A i \in due \ taken : rank(first) <= rank(i)
  BY <1>4
(* What comes before the first row left behind is in the batch. *)
<1>6. ASSUME NEW i \in ahead(first), i \notin taken PROVE FALSE
  <2>1. i \in due /\ Before(table, i, first)
    BY <1>6
  <2>2. \A j \in due : table[j].created \in Int /\ TextKey(table[j].created) \in Int
    BY <1>1, TextKeyRange
  <2>3. ahead(i) \subseteq ahead(first) /\ i \notin ahead(i)
    BY <1>1, <1>5, <2>1, <2>2 DEF Before
  <2>4. rank(i) <= rank(first) /\ (rank(i) = rank(first) => ahead(i) = ahead(first))
    BY <1>2, <1>5, <2>3, FS_Subset
  <2>5. rank(first) <= rank(i) /\ rank(i) \in Nat /\ rank(first) \in Nat
    BY <1>2, <1>5, <1>6, <2>1
  <2> QED
    BY <1>6, <2>3, <2>4, <2>5
<1>7. ahead(first) \subseteq taken /\ IsFiniteSet(taken)
  <2>1. taken \subseteq DOMAIN table
    BY <1>1
  <2> QED
    BY <1>6, <2>1, FS_Subset
<1>8. rank(first) <= Cardinality(taken) /\ Cardinality(taken) \in Nat
  BY <1>7, FS_Subset, FS_CardinalityType
<1>9. rank(first) >= limit /\ rank(first) \in Nat
  BY <1>2, <1>3, <1>5
<1> HIDE DEF rank, taken
<1> QED
  BY <1>8, <1>9 DEF taken

(* The row a failure leaves is a row of the table: its wait is a time. *)
LEMMA FailedRowType ==
  ASSUME NEW row \in Row, NEW cfg \in RetryConfig, NEW time \in Nat
  PROVE  /\ FailedRow(row, cfg, time) \in Row
         /\ Counted(row) \in Nat
         /\ FailedRow(row, cfg, time).retries = Counted(row)
<1>1. Counted(row) \in Nat
  BY RetryCapAssumption DEF Counted, Row
<1>2. Backoff(cfg, row.retries + 1) \in Nat
  BY DEF Backoff, RetryConfig
<1>3. time + Backoff(cfg, row.retries + 1) \in Nat
  BY <1>2
<1> HIDE DEF Counted, Backoff
<1> QED
  BY <1>1, <1>3 DEF FailedRow, Row, Status, Time

(* The first failure at the limit buries a row; what is buried stays so. *)
LEMMA FailedRowStatus ==
  ASSUME NEW row \in Row, NEW cfg \in RetryConfig, NEW time \in Nat
  PROVE  /\ row.status = "dead_letter" => FailedRow(row, cfg, time).status = "dead_letter"
         /\ row.status = "pending" =>
              (FailedRow(row, cfg, time).status = "dead_letter" <=>
                 cfg.enabled /\ row.retries + 1 >= cfg.limit)
  BY DEF FailedRow, Row, Status, RetryConfig, Counted

(* CleanupDeleted removes dead letters only, and none whose retention ends a
   second or more after now. *)
LEMMA ExpiredWithinASecond ==
  ASSUME NEW table, NEW retention \in Nat, NEW time \in Nat,
         \A i \in DOMAIN table : table[i] \in Row,
         NEW id \in Expired(table, retention, time)
  PROVE  /\ table[id].status = "dead_letter"
         /\ table[id].updated + retention < time + TicksPerSecond
<1>1. table[id].status = "dead_letter" /\ table[id].updated \in Nat
  BY DEF Expired, Row, Status, Time
<1>2. TextLeq(table[id].updated, time - retention)
  BY <1>1, TextKeyRange DEF Expired, TextLeq
<1>3. table[id].updated < (time - retention) + TicksPerSecond
  BY <1>1, <1>2, TextOrderWithinASecond
<1> QED
  BY <1>1, <1>3, TicksAssumption
-----------------------------------------------------------------------------
(* The steps of Pipeline *)

(* An edit of a table keeps it one of rows. *)
LEMMA EditsType ==
  ASSUME NEW table, table \in [DOMAIN table -> Row],
         NEW t \in Nat, NEW cfg \in RetryConfig, NEW ids, NEW r
  PROVE  /\ EnqueueBatch(table, ids, t) \in [DOMAIN table \union ids -> Row]
         /\ MarkDelivered(table, ids) \in [DOMAIN table \ ids -> Row]
         /\ MarkFailed(table, ids, cfg, t) \in [DOMAIN table -> Row]
         /\ CleanupDeleted(table, r, t) \in [DOMAIN table \ Expired(table, r, t) -> Row]
<1>1. \A id \in DOMAIN table : table[id] \in Row
  OBVIOUS
<1>2. [status |-> "pending", retries |-> 0, created |-> t,
       updated |-> t, next |-> Never] \in Row
  BY DEF Row, Status, Time
<1>3. EnqueueBatch(table, ids, t) \in [DOMAIN table \union ids -> Row]
  BY <1>1, <1>2 DEF EnqueueBatch
<1>4. MarkDelivered(table, ids) \in [DOMAIN table \ ids -> Row]
  BY <1>1 DEF MarkDelivered
<1>5. \A id \in DOMAIN table : FailedRow(table[id], cfg, t) \in Row
  BY <1>1, FailedRowType
<1>6. MarkFailed(table, ids, cfg, t) \in [DOMAIN table -> Row]
  BY <1>1, <1>5 DEF MarkFailed
<1>7. CleanupDeleted(table, r, t) \in [DOMAIN table \ Expired(table, r, t) -> Row]
  BY <1>1 DEF CleanupDeleted
<1> QED
  BY <1>3, <1>4, <1>6, <1>7

(* The type invariant is inductive. *)
LEMMA TypeInit == Init => TypeOK
<1> SUFFICES ASSUME Init PROVE TypeOK
  OBVIOUS
<1>1. rows \in [DOMAIN rows -> Row] /\ DOMAIN rows \subseteq 1 .. lastId
  BY DEF Init
<1>2. cancelled \in BOOLEAN /\ tuiOpen \in BOOLEAN
  BY DEF Init
<1>3. /\ lastId = 0 /\ now = 0 /\ phase = "down" /\ config \in Adapters
      /\ retry \in RetryConfigs /\ adapter = config /\ cleanup = 0
      /\ inbox = 0 /\ batch = {} /\ batches = 0 /\ cliBatch = {} /\ published = {}
  BY DEF Init
<1> QED
  BY <1>1, <1>2, <1>3, PipelineAssumption DEF TypeOK, Phases

LEMMA TypeNext == TypeOK /\ [Next]_vars => TypeOK'
<1> SUFFICES ASSUME TypeOK, [Next]_vars PROVE TypeOK'
  OBVIOUS
<1> USE PipelineAssumption DEF TypeOK
<1>0. CASE UNCHANGED vars
  BY <1>0 DEF vars, durable, process, cycle, outside
<1> USE DEF durable, process, cycle, outside, Goto, Phases
<1>1. CASE Start
  <2>1. cancelled' \in BOOLEAN /\ tuiOpen' \in BOOLEAN
    BY <1>1 DEF Start, BuildPipeline
  <2>2. /\ phase' = "collect" /\ retry' \in RetryConfigs /\ adapter' = config
        /\ cleanup' = 0 /\ UNCHANGED <<durable, cycle, outside>>
    BY <1>1 DEF Start, BuildPipeline
  <2> QED
    BY <2>1, <2>2
<1>2. CASE Cancel
  BY <1>2 DEF Cancel
<1>3. CASE Stop \/ Crash
  <2>1. Terminate
    BY <1>3 DEF Stop, Crash
  <2>2. cancelled' \in BOOLEAN /\ tuiOpen' \in BOOLEAN
    BY <2>1 DEF Terminate
  <2>3. /\ phase' = "down" /\ inbox' = 0 /\ batch' = {} /\ batches' = 0
        /\ UNCHANGED <<durable, retry, adapter, cleanup, outside>>
    BY <2>1 DEF Terminate, EndCycle
  <2> QED
    BY <2>2, <2>3
<1>4. ASSUME NEW n \in 0 .. MaxItems, Collect(n) PROVE TypeOK'
  BY <1>4 DEF Collect
<1>5. CASE CollectFailed \/ EnqueueFailed \/ FetchFailed \/ MarkError
  <2>1. Return /\ UNCHANGED <<durable, outside>>
    BY <1>5 DEF CollectFailed, EnqueueFailed, FetchFailed, MarkError
  <2> QED
    BY <2>1 DEF Return, EndCycle
<1>6. CASE Enqueue
  <2>1. retry \in RetryConfig /\ now \in Nat
    OBVIOUS
  <2>2. rows' \in [DOMAIN rows \union (lastId + 1 .. lastId + inbox) -> Row]
    BY <1>6, <2>1, EditsType DEF Enqueue
  <2>3. /\ lastId' = lastId + inbox /\ inbox' = 0 /\ phase' = "fetch"
        /\ UNCHANGED <<process, batch, batches, outside>>
    BY <1>6 DEF Enqueue
  <2>4. 1 .. lastId \subseteq 1 .. lastId' /\ lastId' \in 0 .. MaxItems
    BY <2>3
  <2> QED
    BY <2>2, <2>3, <2>4
<1>7. CASE Fetch
  <2>1. PendingBatch(rows, retry, MaxBatch, now) \subseteq 1 .. lastId
    BY PendingBatchIsDue
  <2> QED
    BY <1>7, <2>1 DEF Fetch, Return, EndCycle
<1>8. CASE SendOk
  BY <1>8 DEF SendOk
<1>9. ASSUME NEW part \in SUBSET batch, SendError(part) PROVE TypeOK'
  BY <1>9 DEF SendError
<1>10. ASSUME NextBatch
       PROVE /\ inbox' \in {inbox, 0} /\ batch' \subseteq batch
             /\ batches' \in 0 .. MaxBatchesPerCycle - 1
             /\ phase' \in Phases /\ UNCHANGED process
  BY <1>10 DEF NextBatch, Return, EndCycle
<1>11. CASE Ack
  <2>1. rows' \in [DOMAIN rows \ batch -> Row]
    BY <1>11, EditsType DEF Ack
  <2>2. NextBatch /\ UNCHANGED <<lastId, outside>>
    BY <1>11 DEF Ack
  <2> QED
    BY <1>10, <2>1, <2>2
<1>12. CASE Nack
  <2>1. retry \in RetryConfig /\ now \in Nat
    OBVIOUS
  <2>2. rows' \in [DOMAIN rows -> Row]
    BY <1>12, <2>1, EditsType DEF Nack
  <2>3. Return \/ NextBatch
    BY <1>12 DEF Nack
  <2>4. UNCHANGED <<lastId, outside>>
    BY <1>12 DEF Nack
  <2>5. CASE Return
    BY <2>2, <2>4, <2>5 DEF Return, EndCycle
  <2>6. CASE NextBatch
    BY <1>10, <2>2, <2>4, <2>6
  <2> QED
    BY <2>3, <2>5, <2>6
<1>13. CASE CycleEnd
  <2>1. CleanupDeleted(rows, Retention, now)
          \in [DOMAIN rows \ Expired(rows, Retention, now) -> Row]
    <3>1. retry \in RetryConfig /\ now \in Nat
      OBVIOUS
    <3> QED
      BY <3>1, EditsType
  <2>2. rows' \in [DOMAIN rows' -> Row] /\ DOMAIN rows' \subseteq 1 .. lastId
    BY <1>13, <2>1 DEF CycleEnd
  <2>3. cleanup' \in 0 .. CleanupEvery
    BY <1>13 DEF CycleEnd
  <2>4. phase' = "wait" /\ UNCHANGED <<lastId, cancelled, retry, adapter, tuiOpen, cycle, outside>>
    BY <1>13 DEF CycleEnd
  <2> QED
    BY <2>2, <2>3, <2>4
<1>14. CASE NextCycle
  BY <1>14 DEF NextCycle
<1>15. CASE Reload
  BY <1>15 DEF Reload, BuildPipeline
<1>16. CASE Tick
  BY <1>16 DEF Tick
<1>17. CASE Configure
  BY <1>17 DEF Configure
<1>18. CASE QuitTUI
  BY <1>18 DEF QuitTUI
<1>19. CASE CLIFetch
  <2>1. PendingBatch(rows, Legacy, MaxBatch, now) \subseteq 1 .. lastId
    BY PendingBatchIsDue
  <2> QED
    BY <1>19, <2>1 DEF CLIFetch
<1>20. CASE CLIAck
  <2>1. rows' \in [DOMAIN rows \ cliBatch -> Row]
    BY <1>20, EditsType DEF CLIAck
  <2> QED
    BY <1>20, <2>1 DEF CLIAck
<1>21. CASE CLIAbort
  BY <1>21 DEF CLIAbort
<1> QED
  BY <1>0, <1>1, <1>2, <1>3, <1>4, <1>5, <1>6, <1>7, <1>8, <1>9, <1>11, <1>12, <1>13,
     <1>14, <1>15, <1>16, <1>17, <1>18, <1>19, <1>20, <1>21
  DEF Next, Agent, Environment

(* TypeOK holds in every reachable state: the rows of the queue, the batches,
   and the counters of the cycle stay in their ranges. *)
THEOREM TypeCorrect == Spec => []TypeOK
  BY TypeInit, TypeNext, PTL DEF Spec
-----------------------------------------------------------------------------
Delivering == phase \in {"send", "ack", "nack"}

(* The five steps that change the table. *)
LEMMA TableSteps ==
  ASSUME [Next]_vars
  PROVE  Enqueue \/ Ack \/ Nack \/ CycleEnd \/ CLIAck \/ UNCHANGED <<rows, lastId>>
  BY DEF Next, Agent, Environment, vars, durable, Start, Stop, Crash, Terminate, Cancel,
     Collect, CollectFailed, EnqueueFailed, Fetch, FetchFailed, SendOk, SendError,
     MarkError, NextCycle, Reload, Tick, Configure, QuitTUI, CLIFetch, CLIAbort

(* The end of a batch: nothing is held any more. *)
LEMMA BatchEnds ==
  ASSUME Return \/ NextBatch
  PROVE  batch' = {} /\ phase' \in {"fetch", "cycle_end"}
  BY DEF Return, NextBatch, EndCycle, Goto

(* A batch is taken by Fetch, kept while it is delivered, then let go. *)
LEMMA BatchSteps ==
  ASSUME TypeOK, [Next]_vars
  PROVE  \/ /\ phase = "fetch" /\ phase' = "send" /\ UNCHANGED <<rows, lastId, published>>
            /\ batch' = PendingBatch(rows, retry, MaxBatch, now)
         \/ /\ ~Delivering' /\ (batch' = {} \/ (batch' = batch /\ ~Delivering))
         \/ /\ Delivering /\ Delivering' /\ batch' = batch
            /\ CLIAck \/ UNCHANGED rows
            /\ phase' = "ack" /\ phase # "ack" /\ adapter = "network" => batch \subseteq published'
<1> USE DEF Delivering, durable, process, cycle, outside, Goto
<1>0. CASE UNCHANGED vars
  BY <1>0 DEF vars
<1>1. CASE Start
  BY <1>1 DEF Start
<1>2. CASE Cancel
  BY <1>2 DEF Cancel
<1>3. ASSUME Stop \/ Crash PROVE batch' = {} /\ ~Delivering'
  <2>1. Terminate
    BY <1>3 DEF Stop, Crash
  <2> QED
    BY <2>1 DEF Terminate, EndCycle
<1>4. ASSUME NEW n \in 0 .. MaxItems, Collect(n) PROVE batch' = batch /\ ~Delivering /\ ~Delivering'
  BY <1>4 DEF Collect
<1>5. ASSUME CollectFailed \/ EnqueueFailed \/ FetchFailed \/ MarkError
      PROVE  batch' = {} /\ ~Delivering'
  <2>1. Return
    BY <1>5 DEF CollectFailed, EnqueueFailed, FetchFailed, MarkError
  <2> QED
    BY <2>1, BatchEnds
<1>6. CASE Enqueue
  BY <1>6 DEF Enqueue
<1>7. CASE Fetch
  BY <1>7, BatchEnds DEF Fetch
<1>8. CASE SendOk
  BY <1>8 DEF SendOk
<1>9. ASSUME NEW part \in SUBSET batch, SendError(part)
      PROVE  Delivering /\ phase' = "nack" /\ batch' = batch /\ UNCHANGED rows
  BY <1>9 DEF SendError
<1>10. ASSUME Ack \/ Nack PROVE batch' = {} /\ ~Delivering'
  <2>1. Return \/ NextBatch
    BY <1>10 DEF Ack, Nack
  <2> QED
    BY <2>1, BatchEnds
<1>11. CASE CycleEnd
  BY <1>11 DEF CycleEnd
<1>12. CASE NextCycle \/ Reload
  BY <1>12 DEF NextCycle, Reload
<1>13. CASE Tick \/ Configure \/ QuitTUI \/ CLIFetch \/ CLIAbort
  BY <1>13 DEF Tick, Configure, QuitTUI, CLIFetch, CLIAbort
<1>14. CASE CLIAck
  BY <1>14 DEF CLIAck
<1> QED
  BY <1>0, <1>1, <1>2, <1>3, <1>4, <1>5, <1>6, <1>7, <1>8, <1>9, <1>10, <1>11, <1>12,
     <1>13, <1>14
  DEF Next, Agent, Environment

(* What the backend has received stays received; only SendOk and SendError
   add to it, and only from the batch. *)
LEMMA PublishedSteps ==
  ASSUME TypeOK, [Next]_vars
  PROVE  \/ UNCHANGED published
         \/ /\ phase = "send" /\ UNCHANGED <<rows, lastId>>
            /\ published' \in {published \union part : part \in SUBSET batch}
<1>1. CASE SendOk
  <2>1. published' = published \union batch \/ published' = published
    BY <1>1 DEF SendOk
  <2> QED
    BY <1>1, <2>1 DEF SendOk, durable
<1>2. ASSUME NEW part \in SUBSET batch, SendError(part)
      PROVE  /\ phase = "send" /\ UNCHANGED <<rows, lastId>>
             /\ published' = published \union part
  BY <1>2 DEF SendError, durable
<1>3. CASE Terminate
  BY <1>3 DEF Terminate, outside
<1>4. CASE CollectFailed \/ EnqueueFailed \/ FetchFailed \/ MarkError
  BY <1>4 DEF CollectFailed, EnqueueFailed, FetchFailed, MarkError, outside
<1>5. CASE Start \/ Cancel \/ Enqueue \/ Fetch \/ Ack \/ Nack \/ CycleEnd
  BY <1>5 DEF Start, Cancel, Enqueue, Fetch, Ack, Nack, CycleEnd, outside
<1>6. ASSUME NEW n \in 0 .. MaxItems, Collect(n) PROVE UNCHANGED published
  BY <1>6 DEF Collect, outside
<1>7. CASE NextCycle \/ Reload \/ Tick \/ Configure \/ QuitTUI
  BY <1>7 DEF NextCycle, Reload, Tick, Configure, QuitTUI, outside
<1>8. CASE CLIFetch \/ CLIAck \/ CLIAbort \/ UNCHANGED vars
  BY <1>8 DEF CLIFetch, CLIAck, CLIAbort, vars, outside
<1> QED
  BY <1>1, <1>2, <1>3, <1>4, <1>5, <1>6, <1>7, <1>8
  DEF Next, Agent, Environment, Stop, Crash

LEMMA PublishedGrows ==
  ASSUME TypeOK, [Next]_vars PROVE published \subseteq published'
<1>1. CASE UNCHANGED published
  BY <1>1
<1>2. CASE published' \in {published \union part : part \in SUBSET batch}
  BY <1>2
<1> QED
  BY <1>1, <1>2, PublishedSteps
-----------------------------------------------------------------------------
(* Dead letters *)

(* The agent never delivers a dead letter: it is the only process that buries
   rows, and it holds no batch at that moment that survives the step. *)
BatchAlive ==
  /\ batch \intersect DeadLetter(rows) = {}
  /\ ~Delivering => batch = {}

LEMMA BatchAliveInit == Init => BatchAlive
  BY DEF Init, BatchAlive, Delivering

LEMMA BatchAliveNext == TypeOK /\ BatchAlive /\ [Next]_vars => BatchAlive'
<1> SUFFICES ASSUME TypeOK, BatchAlive, [Next]_vars PROVE BatchAlive'
  OBVIOUS
<1>1. CASE /\ phase' = "send" /\ UNCHANGED <<rows, lastId, published>>
           /\ batch' = PendingBatch(rows, retry, MaxBatch, now)
  <2>1. batch' \subseteq Pending(rows)
    BY <1>1, PendingBatchIsDue
  <2> QED
    BY <1>1, <2>1 DEF BatchAlive, Delivering, Pending, DeadLetter
<1>2. CASE ~Delivering' /\ (batch' = {} \/ (batch' = batch /\ ~Delivering))
  BY <1>2 DEF BatchAlive
<1>3. CASE Delivering' /\ batch' = batch /\ (CLIAck \/ UNCHANGED rows)
  <2>1. DeadLetter(rows') \subseteq DeadLetter(rows)
    BY <1>3 DEF DeadLetter, CLIAck, MarkDelivered
  <2>2. DeadLetter(rows)' = DeadLetter(rows')
    BY DEF DeadLetter
  <2> QED
    BY <1>3, <2>1, <2>2 DEF BatchAlive
<1> QED
  BY <1>1, <1>2, <1>3, BatchSteps

LEMMA BatchAliveAlways == Spec => [](TypeOK /\ BatchAlive)
<1>1. TypeOK /\ BatchAlive /\ [Next]_vars => (TypeOK /\ BatchAlive)'
  BY TypeNext, BatchAliveNext
<1> QED
  BY <1>1, TypeInit, BatchAliveInit, PTL DEF Spec

(* Whatever configuration each start finds, and with `queue retry` beside the
   agent: a dead letter stays one, is not counted again and is never resent. *)
THEOREM DeadLettersAreFinal == Spec => DeadLetterIsFinal
<1>1. ASSUME TypeOK, BatchAlive, [Next]_vars, NEW id \in DeadLetter(rows)
      PROVE  /\ id \in DOMAIN rows' => /\ rows'[id].status = "dead_letter"
                                       /\ rows'[id].retries = rows[id].retries
             /\ id \notin batch'
  <2> USE <1>1
  <2>1. id \in DOMAIN rows /\ rows[id].status = "dead_letter" /\ id \in 1 .. lastId
    BY DEF DeadLetter, TypeOK
  <2>2. SUFFICES id \in DOMAIN rows' => rows'[id] = rows[id]
    <3>1. id \notin batch
      BY DEF BatchAlive
    <3>2. ASSUME batch' = PendingBatch(rows, retry, MaxBatch, now) PROVE id \notin batch'
      BY <2>1, <3>2, PendingBatchIsDue DEF Pending
    <3>3. id \notin batch'
      BY <3>1, <3>2, BatchSteps
    <3> QED
      BY <2>1, <2>2, <3>3
  <2>3. CASE UNCHANGED <<rows, lastId>>
    BY <2>3
  <2>4. CASE Enqueue
    <3>1. id \notin lastId + 1 .. lastId + inbox
      BY <2>1 DEF TypeOK
    <3> QED
      BY <2>1, <2>4, <3>1 DEF Enqueue, EnqueueBatch
  <2>5. CASE Ack
    BY <2>1, <2>5 DEF Ack, MarkDelivered
  <2>6. CASE Nack
    BY <2>1, <2>6 DEF Nack, MarkFailed, BatchAlive
  <2>7. CASE CycleEnd
    BY <2>1, <2>7 DEF CycleEnd, CleanupDeleted
  <2>8. CASE CLIAck
    BY <2>1, <2>8 DEF CLIAck, MarkDelivered
  <2> QED
    BY <2>3, <2>4, <2>5, <2>6, <2>7, <2>8, TableSteps
<1>2. TypeOK /\ BatchAlive /\ [Next]_vars =>
        [\A id \in DeadLetter(rows) :
           /\ id \in DOMAIN rows' => /\ rows'[id].status = "dead_letter"
                                     /\ rows'[id].retries = rows[id].retries
           /\ id \notin batch']_vars
  BY <1>1
<1> QED
  BY <1>2, BatchAliveAlways, PTL DEF Spec, DeadLetterIsFinal

(* What one row may say of its attempts. *)
Budgeted(row) ==
  IF row.status = "dead_letter"
  THEN \E cfg \in RetryConfigs : cfg.enabled /\ row.retries >= cfg.limit
  ELSE (\A cfg \in RetryConfigs : cfg.enabled) =>
         \E cfg \in RetryConfigs : row.retries < cfg.limit

(* A failure keeps a row within the budget, whichever configuration counts it. *)
LEMMA FailedRowBudgeted ==
  ASSUME NEW row \in Row, NEW cfg \in RetryConfigs, NEW t \in Nat, Budgeted(row)
  PROVE  Budgeted(FailedRow(row, cfg, t))
<1> DEFINE new == FailedRow(row, cfg, t)
<1>1. cfg \in RetryConfig /\ cfg.limit \in 1 .. RetryCap
  BY PipelineAssumption DEF RetryConfig
<1>2. new.retries = Counted(row) /\ row.retries \in Nat /\ row.status \in Status
  BY <1>1, FailedRowType DEF Row
<1>3. Counted(row) <= row.retries + 1 /\ Counted(row) \in Nat
  BY <1>2, RetryCapAssumption DEF Counted
<1>4. \A c \in RetryConfigs : c.limit \in 1 .. RetryCap
  BY PipelineAssumption DEF RetryConfig
<1>5. \A c \in RetryConfigs : row.retries >= c.limit => Counted(row) >= c.limit
  BY <1>2, <1>4, RetryCapAssumption DEF Counted
<1>6. row.retries + 1 >= cfg.limit => Counted(row) >= cfg.limit
  BY <1>1, <1>2, RetryCapAssumption DEF Counted
<1>7. new.status \in Status
  BY <1>1, FailedRowType DEF Row
<1>8. CASE row.status = "dead_letter"
  <2>1. new.status = "dead_letter"
    BY <1>1, <1>8, FailedRowStatus
  <2> QED
    BY <1>2, <1>5, <1>8, <2>1 DEF Budgeted
<1>9. CASE row.status = "pending"
  <2>1. new.status = "dead_letter" <=> cfg.enabled /\ row.retries + 1 >= cfg.limit
    BY <1>1, <1>9, FailedRowStatus
  <2>2. CASE cfg.enabled /\ row.retries + 1 >= cfg.limit
    BY <1>2, <1>6, <2>1, <2>2 DEF Budgeted
  <2>3. CASE ~cfg.enabled
    BY <1>7, <2>1, <2>3 DEF Budgeted, Status
  <2>4. CASE ~(row.retries + 1 >= cfg.limit)
    <3>1. new.retries < cfg.limit
      BY <1>1, <1>2, <1>3, <2>4
    <3> QED
      BY <2>1, <2>4, <3>1 DEF Budgeted
  <2> QED
    BY <2>2, <2>3, <2>4
<1> QED
  BY <1>2, <1>8, <1>9 DEF Status

(* A row is buried at the limit of some configuration, neither before nor after,
   as long as every start has the retries enabled; and never before without. *)
THEOREM BudgetIsKept == Spec => []RetryBudget
<1> DEFINE Inv == \A id \in DOMAIN rows : Budgeted(rows[id])
<1>1. Init => Inv
  BY DEF Init
<1>2. TypeOK /\ Inv /\ [Next]_vars => Inv'
  <2> SUFFICES ASSUME TypeOK, Inv, [Next]_vars, NEW id \in DOMAIN rows'
               PROVE  Budgeted(rows'[id])
    BY DEF Budgeted
  <2>1. CASE Enqueue
    <3>1. CASE id \in lastId + 1 .. lastId + inbox
      <4>1. rows'[id].status = "pending" /\ rows'[id].retries = 0
        BY <2>1, <3>1 DEF Enqueue, EnqueueBatch
      <4>2. retry \in RetryConfigs /\ 0 < retry.limit
        BY PipelineAssumption DEF TypeOK, RetryConfig
      <4> QED
        BY <4>1, <4>2 DEF Budgeted
    <3>2. CASE id \notin lastId + 1 .. lastId + inbox
      BY <2>1, <3>2 DEF Enqueue, EnqueueBatch
    <3> QED
      BY <3>1, <3>2
  <2>2. CASE Ack \/ CLIAck
    BY <2>2 DEF Ack, CLIAck, MarkDelivered
  <2>3. CASE Nack
    <3>1. rows[id] \in Row /\ retry \in RetryConfigs /\ now \in Nat /\ id \in DOMAIN rows
      BY <2>3, PipelineAssumption DEF TypeOK, Nack, MarkFailed
    <3>2. rows'[id] \in {rows[id], FailedRow(rows[id], retry, now)}
      BY <2>3, <3>1 DEF Nack, MarkFailed
    <3> QED
      BY <3>1, <3>2, FailedRowBudgeted
  <2>4. CASE CycleEnd
    BY <2>4 DEF CycleEnd, CleanupDeleted
  <2> QED
    BY <2>1, <2>2, <2>3, <2>4, TableSteps
<1>3. Inv => RetryBudget
  BY DEF Budgeted, RetryBudget
<1> QED
  BY <1>1, <1>2, <1>3, TypeCorrect, PTL DEF Spec
-----------------------------------------------------------------------------
(* The order of the queue *)

(* No batch leaves behind a due row that is a second or more older than one of
   its own, whatever the resolution of the clock. *)
THEOREM OldestGoFirst == Spec => OldestWithinASecond
<1>1. ASSUME TypeOK, BatchAlive, [Next]_vars, Fetching,
             NEW id \in batch', NEW other \in Due(rows, retry, now) \ batch'
      PROVE  rows[id].created < rows[other].created + TicksPerSecond
  <2> USE <1>1
  <2>1. batch' = PendingBatch(rows, retry, MaxBatch, now)
    BY BatchSteps DEF Fetching, Delivering, BatchAlive
  <2>2. IsFiniteSet(DOMAIN rows)
    <3>1. lastId \in Int /\ DOMAIN rows \subseteq 1 .. lastId
      BY DEF TypeOK
    <3>2. IsFiniteSet(1 .. lastId)
      BY <3>1, FS_Interval
    <3> QED
      BY <3>1, <3>2, FS_Subset
  <2>3. \A i \in DOMAIN rows : rows[i].created \in Nat
    <3>1. \A i \in DOMAIN rows : rows[i] \in Row
      BY DEF TypeOK
    <3> QED
      BY <3>1 DEF Row, Time
  <2>4. MaxBatch \in Nat
    BY PipelineAssumption
  <2> QED
    BY <2>1, <2>2, <2>3, <2>4, PendingBatchOldest
<1>2. TypeOK /\ BatchAlive /\ [Next]_vars =>
        [Fetching => \A id \in batch', other \in Due(rows, retry, now) \ batch' :
           rows[id].created < rows[other].created + TicksPerSecond]_vars
  BY <1>1
<1> QED
  BY <1>2, BatchAliveAlways, PTL DEF Spec, OldestWithinASecond

(* The text comparison of next_attempt_at errs by less than a second both ways:
   no batch takes a row a second before its next attempt, and one with room to
   spare leaves behind no row a second overdue. *)
THEOREM BackoffIsKept == Spec => BackoffWithinASecond
<1>1. ASSUME TypeOK, BatchAlive, [Next]_vars, Fetching, phase' = "send", retry.enabled
      PROVE  /\ \A id \in batch' : rows[id].next < now + TicksPerSecond
             /\ Cardinality(batch') < MaxBatch =>
                  \A id \in Pending(rows) \ batch' : rows[id].next > now - TicksPerSecond
  <2> USE <1>1
  <2>1. batch' = PendingBatch(rows, retry, MaxBatch, now)
    BY BatchSteps DEF Fetching, Delivering, BatchAlive
  <2>2. \A i \in DOMAIN rows : rows[i].created \in Nat /\ rows[i].next \in Nat \union {Never}
    <3>1. \A i \in DOMAIN rows : rows[i] \in Row
      BY DEF TypeOK
    <3> QED
      BY <3>1 DEF Row, Time
  <2>3. now \in Nat /\ MaxBatch \in Nat /\ TicksPerSecond \in Nat \ {0}
    BY PipelineAssumption, TicksAssumption DEF TypeOK
  <2>4. ASSUME NEW id \in batch' PROVE rows[id].next < now + TicksPerSecond
    <3>1. id \in Due(rows, retry, now) /\ id \in DOMAIN rows
      BY <2>1, <2>4, PendingBatchIsDue
    <3>2. CASE rows[id].next = Never
      BY <2>3, <3>2 DEF Never
    <3>3. CASE rows[id].next # Never
      <4>1. TextLeq(rows[id].next, now) /\ rows[id].next \in Int
        BY <2>2, <3>1, <3>3 DEF Due
      <4> QED
        BY <2>3, <4>1, TextOrderWithinASecond
    <3> QED
      BY <3>2, <3>3
  <2>5. ASSUME Cardinality(batch') < MaxBatch, NEW id \in Pending(rows) \ batch'
        PROVE  rows[id].next > now - TicksPerSecond
    <3>1. IsFiniteSet(DOMAIN rows) /\ DOMAIN rows \subseteq Nat
      <4>1. lastId \in Int /\ DOMAIN rows \subseteq 1 .. lastId
        BY DEF TypeOK
      <4>2. IsFiniteSet(1 .. lastId)
        BY <4>1, FS_Interval
      <4> QED
        BY <4>1, <4>2, FS_Subset
    <3>2. Cardinality(batch') \in Nat
      <4>1. batch' \subseteq DOMAIN rows
        BY <2>1, PendingBatchIsDue
      <4> QED
        BY <3>1, <4>1, FS_Subset, FS_CardinalityType
    <3>3. id \notin Due(rows, retry, now)
      <4>1. ASSUME Due(rows, retry, now) \ PendingBatch(rows, retry, MaxBatch, now) # {}
            PROVE  Cardinality(batch') >= MaxBatch
        BY <2>1, <2>2, <2>3, <3>1, <4>1, PendingBatchFull
      <4> QED
        BY <2>1, <2>3, <2>5, <3>2, <4>1
    <3>4. id \in DOMAIN rows /\ rows[id].next # Never /\ ~TextLeq(rows[id].next, now)
      BY <2>5, <3>3 DEF Due, Pending
    <3>5. rows[id].next \in Nat
      BY <2>2, <3>4
    <3>6. TextLeq(now, rows[id].next)
      BY <2>3, <3>4, <3>5, TextKeyRange DEF TextLeq
    <3>7. now < rows[id].next + TicksPerSecond
      BY <2>3, <3>5, <3>6, TextOrderWithinASecond
    <3> QED
      BY <2>3, <3>5, <3>7
  <2> QED
    BY <2>4, <2>5
<1>2. TypeOK /\ BatchAlive /\ [Next]_vars =>
        [Fetching /\ phase' = "send" /\ retry.enabled =>
           /\ \A id \in batch' : rows[id].next < now + TicksPerSecond
           /\ Cardinality(batch') < MaxBatch =>
                \A id \in Pending(rows) \ batch' : rows[id].next > now - TicksPerSecond]_vars
  BY <1>1
<1> QED
  BY <1>2, BatchAliveAlways, PTL DEF Spec, BackoffWithinASecond

(* A row number is used once: what was acknowledged is not resurrected by the
   late acknowledgement or failure of another process. *)
THEOREM NothingComesBack == Spec => GoneForGood
<1>1. ASSUME TypeOK, [Next]_vars, NEW id \in 1 .. lastId, id \notin DOMAIN rows
      PROVE  id \notin DOMAIN rows'
  <2> USE <1>1
  <2>1. CASE Enqueue
    BY <2>1 DEF Enqueue, EnqueueBatch, TypeOK
  <2>2. CASE Ack \/ CLIAck
    BY <2>2 DEF Ack, CLIAck, MarkDelivered
  <2>3. CASE Nack
    BY <2>3 DEF Nack, MarkFailed
  <2>4. CASE CycleEnd
    BY <2>4 DEF CycleEnd, CleanupDeleted
  <2> QED
    BY <2>1, <2>2, <2>3, <2>4, TableSteps
<1>2. TypeOK /\ [Next]_vars =>
        [\A id \in 1 .. lastId : id \notin DOMAIN rows => id \notin DOMAIN rows']_vars
  BY <1>1
<1> QED
  BY <1>2, TypeCorrect, PTL DEF Spec, GoneForGood
-----------------------------------------------------------------------------
(* Store and forward, for an agent that is alone on its database and sends to
   a network adapter *)

Alone == RetryCLI = FALSE /\ Adapters = {"network"}

(* What the agent holds is its own: nobody else has read the queue. *)
StoreInv == BatchOnDisk /\ cliBatch = {}

LEMMA StoreInit == Init => StoreInv
  BY DEF Init, StoreInv, BatchOnDisk

LEMMA StoreNext == Alone /\ TypeOK /\ StoreInv /\ [Next]_vars => StoreInv'
<1> SUFFICES ASSUME Alone, TypeOK, StoreInv, [Next]_vars PROVE StoreInv'
  OBVIOUS
<1>1. cliBatch' = {} /\ ~CLIAck
  <2>1. ~CLIFetch /\ ~CLIAck /\ ~CLIAbort
    BY DEF Alone, StoreInv, CLIFetch, CLIAck, CLIAbort
  <2>2. UNCHANGED cliBatch
    BY <2>1 DEF Next, Agent, Environment, vars, outside, Start, Stop, Crash, Terminate,
       Cancel, Collect, CollectFailed, Enqueue, EnqueueFailed, Fetch, FetchFailed, SendOk,
       SendError, Ack, Nack, MarkError, CycleEnd, NextCycle, Reload, Tick, Configure, QuitTUI
  <2> QED
    BY <2>1, <2>2 DEF StoreInv
<1>2. adapter = "network"
  BY DEF Alone, TypeOK
<1>3. CASE /\ phase' = "send" /\ UNCHANGED <<rows, lastId, published>>
           /\ batch' = PendingBatch(rows, retry, MaxBatch, now)
  <2>1. batch' \subseteq Pending(rows')
    BY <1>3, PendingBatchIsDue
  <2> QED
    BY <1>1, <1>3, <2>1 DEF StoreInv, BatchOnDisk, Pending
<1>4. CASE ~Delivering' /\ (batch' = {} \/ (batch' = batch /\ ~Delivering))
  <2>1. batch' = {}
    BY <1>4 DEF StoreInv, BatchOnDisk, Delivering
  <2> QED
    BY <1>1, <1>4, <2>1 DEF StoreInv, BatchOnDisk, Delivering
<1>5. CASE /\ Delivering /\ Delivering' /\ batch' = batch /\ UNCHANGED rows
           /\ phase' = "ack" /\ phase # "ack" => batch \subseteq published'
  <2>1. batch' \subseteq Pending(rows')
    BY <1>5 DEF StoreInv, BatchOnDisk, Delivering
  <2>2. phase' = "ack" => batch' \subseteq published'
    BY <1>5, PublishedGrows DEF StoreInv, BatchOnDisk
  <2> QED
    BY <1>1, <1>5, <2>1, <2>2 DEF StoreInv, BatchOnDisk, Delivering, Pending
<1> QED
  BY <1>1, <1>2, <1>3, <1>4, <1>5, BatchSteps

LEMMA StoreAlways == ASSUME Alone PROVE Spec => [](TypeOK /\ StoreInv)
<1>1. TypeOK /\ StoreInv /\ [Next]_vars => (TypeOK /\ StoreInv)'
  BY Alone, TypeNext, StoreNext
<1> QED
  BY <1>1, TypeInit, StoreInit, PTL DEF Spec

(* Every item of the batch being delivered is stored and pending, and the batch
   being acknowledged has been published whole. *)
THEOREM BatchStaysOnDisk == ASSUME Alone PROVE Spec => []BatchOnDisk
<1>1. TypeOK /\ StoreInv => BatchOnDisk
  BY DEF StoreInv
<1> QED
  BY <1>1, StoreAlways, Alone, PTL

(* Nothing is lost: an item leaves the database only once the backend has it,
   or as a dead letter whose retention is over to within a second. *)
THEOREM NothingIsLost == ASSUME Alone PROVE Spec => RemovedOnlyWhenDelivered
<1>1. ASSUME TypeOK, StoreInv, [Next]_vars, NEW id \in DOMAIN rows \ DOMAIN rows'
      PROVE  \/ id \in published
             \/ /\ rows[id].status = "dead_letter"
                /\ rows[id].updated + Retention < now + TicksPerSecond
  <2> USE <1>1
  <2>1. CASE Enqueue
    BY <2>1 DEF Enqueue, EnqueueBatch
  <2>2. CASE Ack
    BY <2>2 DEF Ack, MarkDelivered, StoreInv, BatchOnDisk
  <2>3. CASE Nack
    BY <2>3 DEF Nack, MarkFailed
  <2>4. CASE CycleEnd
    <3>1. id \in Expired(rows, Retention, now)
      BY <2>4 DEF CycleEnd, CleanupDeleted
    <3>2. Retention \in Nat /\ now \in Nat /\ \A i \in DOMAIN rows : rows[i] \in Row
      BY PipelineAssumption DEF TypeOK
    <3> QED
      BY <3>1, <3>2, ExpiredWithinASecond
  <2>5. CASE CLIAck
    BY <2>5 DEF CLIAck, StoreInv
  <2> QED
    BY <2>1, <2>2, <2>3, <2>4, <2>5, TableSteps
<1>2. TypeOK /\ StoreInv /\ [Next]_vars =>
        [\A id \in DOMAIN rows \ DOMAIN rows' :
           \/ id \in published
           \/ /\ rows[id].status = "dead_letter"
              /\ rows[id].updated + Retention < now + TicksPerSecond]_vars
  BY <1>1
<1> QED
  BY <1>2, Alone, StoreAlways, PTL DEF Spec, RemovedOnlyWhenDelivered
-----------------------------------------------------------------------------
(* The pipeline implements StoreAndForward *)

LEMMA PromiseInit == Init => Promise!Init
  BY DEF Init, Promise!Init, Pending, DeadLetter

(* What the steps that change the table mean for the abstract store. *)
LEMMA PromiseNext == Alone /\ TypeOK /\ StoreInv /\ [Next]_vars => [Promise!Next]_(Promise!vars)
<1> SUFFICES ASSUME Alone, TypeOK, StoreInv, [Next]_vars
             PROVE  Promise!Next \/ UNCHANGED Promise!vars
  OBVIOUS
<1>a. (1 .. lastId)' = 1 .. lastId' /\ Pending(rows)' = Pending(rows') /\ DeadLetter(rows)' = DeadLetter(rows')
  BY DEF Pending, DeadLetter
<1>b. /\ Pending(rows) \subseteq Ids /\ DeadLetter(rows) \subseteq Ids
      /\ Pending(rows) \intersect DeadLetter(rows) = {}
      /\ DOMAIN rows = Pending(rows) \union DeadLetter(rows)
  <2>1. \A i \in DOMAIN rows : rows[i].status \in {"pending", "dead_letter"}
    BY DEF TypeOK, Row, Status
  <2>2. DOMAIN rows \subseteq Ids
    BY PipelineAssumption DEF TypeOK, Ids
  <2> QED
    BY <2>1, <2>2 DEF Pending, DeadLetter
<1>1. CASE Enqueue
  <2> DEFINE S == lastId + 1 .. lastId + inbox
  <2>1. /\ S \subseteq Ids /\ S \intersect (1 .. lastId) = {} /\ S \intersect DOMAIN rows = {}
        /\ 1 .. lastId + inbox = (1 .. lastId) \union S
    BY PipelineAssumption DEF TypeOK, Ids
  <2>2. rows' = EnqueueBatch(rows, S, now) /\ lastId' = lastId + inbox /\ published' = published
    BY <1>1 DEF Enqueue, outside
  <2> HIDE DEF S
  <2>3. Pending(rows') = Pending(rows) \union S /\ DeadLetter(rows') = DeadLetter(rows)
    BY <2>1, <2>2 DEF Pending, DeadLetter, EnqueueBatch
  <2>4. Promise!Accept(S)
    BY <1>a, <2>1, <2>2, <2>3 DEF Promise!Accept
  <2> QED
    BY <2>1, <2>4 DEF Promise!Next
<1>2. CASE Ack
  <2>1. /\ rows' = MarkDelivered(rows, batch) /\ lastId' = lastId /\ published' = published
        /\ batch \subseteq Pending(rows) /\ batch \subseteq published
    BY <1>2 DEF Ack, outside, StoreInv, BatchOnDisk
  <2>2. Pending(rows') = Pending(rows) \ batch /\ DeadLetter(rows') = DeadLetter(rows)
    BY <2>1 DEF Pending, DeadLetter, MarkDelivered
  <2>3. Promise!Acknowledge(batch)
    BY <1>a, <2>1, <2>2 DEF Promise!Acknowledge
  <2> QED
    BY <1>b, <2>1, <2>3 DEF Promise!Next
<1>3. CASE Nack
  <2> DEFINE S == Pending(rows) \ Pending(rows')
  <2>1. rows' = MarkFailed(rows, batch, retry, now) /\ lastId' = lastId /\ published' = published
    BY <1>3 DEF Nack, outside
  <2>2. TypeOK'
    BY TypeNext
  <2>3. \A i \in DOMAIN rows' : rows'[i].status \in {"pending", "dead_letter"}
    BY <2>2 DEF TypeOK, Row, Status
  <2>4. DOMAIN rows' = DOMAIN rows
    BY <2>1 DEF MarkFailed
  <2>5. DeadLetter(rows) \subseteq DeadLetter(rows')
    <3>1. batch \subseteq Pending(rows)
      BY <1>3 DEF StoreInv, BatchOnDisk, Nack
    <3> QED
      BY <2>1, <3>1 DEF DeadLetter, Pending, MarkFailed
  <2>6. Pending(rows') = Pending(rows) \ S /\ DeadLetter(rows') = DeadLetter(rows) \union S
    BY <1>b, <2>3, <2>4, <2>5 DEF Pending, DeadLetter
  <2> HIDE DEF S
  <2>7. Promise!GiveUp(S)
    BY <1>a, <2>1, <2>6 DEF Promise!GiveUp, S
  <2> QED
    BY <1>b, <2>7 DEF Promise!Next, S
<1>4. CASE CycleEnd
  <2> DEFINE S == DeadLetter(rows) \ DeadLetter(rows')
  <2>1. lastId' = lastId /\ published' = published
    BY <1>4 DEF CycleEnd, outside
  <2>2. rows' = CleanupDeleted(rows, Retention, now) \/ rows' = rows
    BY <1>4 DEF CycleEnd
  <2>3. Pending(rows') = Pending(rows) /\ DeadLetter(rows') = DeadLetter(rows) \ S
    BY <2>2 DEF Pending, DeadLetter, CleanupDeleted, Expired
  <2>4. Promise!Purge(S)
    BY <1>a, <2>1, <2>3 DEF Promise!Purge
  <2> QED
    BY <1>b, <2>4 DEF Promise!Next
<1>5. CASE CLIAck
  BY <1>5 DEF CLIAck, StoreInv
<1>6. CASE UNCHANGED <<rows, lastId>>
  <2>1. CASE UNCHANGED published
    BY <1>6, <2>1 DEF Promise!vars, Pending, DeadLetter
  <2>2. ASSUME phase = "send", NEW part \in SUBSET batch, published' = published \union part
        PROVE  Promise!Next
    <3>1. part \subseteq Pending(rows)
      BY <2>2 DEF StoreInv, BatchOnDisk
    <3>2. Promise!Deliver(part)
      BY <1>6, <1>a, <2>2, <3>1 DEF Promise!Deliver
    <3> QED
      BY <1>b, <3>1, <3>2 DEF Promise!Next
  <2> QED
    BY <2>1, <2>2, PublishedSteps
<1> QED
  BY <1>1, <1>2, <1>3, <1>4, <1>5, <1>6, TableSteps

(* Every behaviour of the agent is a behaviour of the abstract store: an item is
   accepted before it is delivered, delivered before it is acknowledged, and
   purged only after it was given up. *)
THEOREM StoreAndForwardImplemented == ASSUME Alone PROVE Spec => KeepsPromise
<1>1. TypeOK /\ StoreInv /\ [Next]_vars => [Promise!Next]_(Promise!vars)
  BY Alone, PromiseNext
<1> QED
  BY <1>1, Alone, PromiseInit, StoreAlways, PTL DEF Spec, KeepsPromise, Promise!Spec
=============================================================================

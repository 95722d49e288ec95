------------------------------ MODULE Pipeline ------------------------------
(***************************************************************************)
(* One delivery cycle of nms-agent, Pipeline.RunOnce of                    *)
(* internal/core/pipeline.go, on the durable queue, in the loop of         *)
(* cmd/nms-agent/main.go that runs it again and again:                     *)
(*                                                                         *)
(*   collect, normalize -> EnqueueBatch -> { PendingBatch -> SendBatch     *)
(*       -> MarkDelivered or MarkFailed }* -> clean up -> wait             *)
(*                                                                         *)
(* Around it: the process may crash between any two steps and be started   *)
(* again with another retry configuration, its context may be cancelled    *)
(* (SIGTERM) while a step runs, any database call may fail, a SendBatch    *)
(* that fails may have published any part of its batch, and the operator's *)
(* `nms-agentctl queue retry`, a second process on the same database file, *)
(* takes its own batch and acknowledges it.                                *)
(*                                                                         *)
(* An item of telemetry is the row number the queue gives it.  The items   *)
(* in Poison are those no adapter of the configured kind accepts.          *)
(***************************************************************************)
EXTENDS SQLiteQueue

CONSTANTS
  MaxItems,            \* bound: items ever enqueued
  MaxTime,             \* bound: last tick of the clock
  Poison,              \* items whose batch the adapter always rejects
  Adapters,            \* adapters the configuration may name: a network
                       \* adapter (MQTT, HTTP) and the local terminal "tui"
  PartialSend,         \* may a failed SendBatch have published a part?
  MaxBatch,            \* delivery.max_batch
  DrainEnabled,        \* delivery.drain_enabled
  MaxBatchesPerCycle,  \* delivery.max_batches_per_cycle
  StopOnError,         \* delivery.stop_on_error
  RetryConfigs,        \* the retry configurations a start may find
  Retention,           \* delivery.retry.retention_days in ticks; 0 is off
  CleanupEvery,        \* cycles between two CleanupDeleted
  RetryCLI             \* does an operator run `nms-agentctl queue retry`?

ASSUME PipelineAssumption ==
  /\ MaxItems \in Nat
  /\ MaxTime \in Nat
  /\ Adapters \subseteq {"network", "tui"} /\ Adapters # {}
  /\ PartialSend \in BOOLEAN
  /\ MaxBatch \in Nat \ {0}
  /\ DrainEnabled \in BOOLEAN
  /\ MaxBatchesPerCycle \in Nat \ {0}
  /\ StopOnError \in BOOLEAN
  /\ RetryConfigs \subseteq RetryConfig
  /\ Retention \in Nat
  /\ CleanupEvery \in Nat \ {0}
  /\ RetryCLI \in BOOLEAN

VARIABLES
  rows,       \* table queue_items of the database file
  lastId,     \* row number of the last item enqueued
  config,     \* adapters.active in the configuration files
  now,        \* the clock
  phase,      \* where the agent process is
  cancelled,  \* has the context of the agent been cancelled?
  retry,      \* the queue's retryCfg, set when the agent starts
  adapter,    \* the adapter of the agent's pipeline
  inbox,      \* number of collected items that are only in memory
  batch,      \* rows of the batch being delivered
  batches,    \* batchesDone
  cleanup,    \* cleanupCounter
  tuiOpen,    \* is the terminal program of the tui adapter running?
  cliBatch,   \* rows `queue retry` has read and not yet acknowledged
  published   \* history: items the backend has received

durable == <<rows, lastId>>
process == <<cancelled, retry, adapter, tuiOpen, cleanup>>
cycle   == <<inbox, batch, batches>>
outside == <<config, now, cliBatch, published>>
vars    == <<durable, phase, process, cycle, outside>>

Ids    == 1 .. MaxItems
Phases == {"down", "collect", "enqueue", "fetch", "send", "ack", "nack",
           "cycle_end", "wait"}

(* An SQL call of the agent can succeed only while its context is live. *)
Goto(p)  == phase' = p
DbCall   == ~cancelled

Init ==
  /\ rows = [id \in {} |-> id]
  /\ lastId = 0
  /\ now = 0
  /\ phase = "down"
  /\ cancelled = FALSE
  /\ config \in Adapters
  /\ retry \in RetryConfigs
  /\ adapter = config
  /\ tuiOpen = FALSE
  /\ cleanup = 0
  /\ inbox = 0
  /\ batch = {}
  /\ batches = 0
  /\ cliBatch = {}
  /\ published = {}
-----------------------------------------------------------------------------
(* The process: start, cancel, stop, crash *)

(* buildPipeline: a new adapter of the configured kind. *)
BuildPipeline ==
  /\ adapter' = config
  /\ tuiOpen' = (config = "tui")

(* main: open the database, set its retry configuration, build the pipeline. *)
Start ==
  /\ phase = "down"
  /\ Goto("collect")
  /\ retry' \in RetryConfigs
  /\ cancelled' = FALSE
  /\ BuildPipeline
  /\ cleanup' = 0
  /\ UNCHANGED <<durable, cycle, outside>>

(* SIGTERM cancels the context at any moment. *)
Cancel ==
  /\ phase # "down"
  /\ ~cancelled
  /\ cancelled' = TRUE
  /\ UNCHANGED <<durable, phase, retry, adapter, tuiOpen, cleanup, cycle, outside>>

EndCycle == inbox' = 0 /\ batch' = {} /\ batches' = 0

(* What dies with the process. *)
Terminate ==
  /\ Goto("down")
  /\ EndCycle
  /\ tuiOpen' = FALSE
  /\ UNCHANGED <<durable, cancelled, retry, adapter, cleanup, outside>>

Stop  == phase = "wait" /\ cancelled /\ Terminate
Crash == phase # "down" /\ Terminate
-----------------------------------------------------------------------------
(* RunOnce *)

(* Collect, then Normalize: n items, or none because the collectors or the
   processor failed.  A partial collection proceeds like a complete one. *)
Collect(n) ==
  /\ phase = "collect"
  /\ lastId + n <= MaxItems
  /\ inbox' = n
  /\ Goto("enqueue")
  /\ UNCHANGED <<durable, process, batch, batches, outside>>

(* Every return statement of RunOnce, successful or not. *)
Return ==
  /\ Goto("cycle_end")
  /\ EndCycle
  /\ UNCHANGED process

CollectFailed ==
  /\ phase = "collect"
  /\ Return
  /\ UNCHANGED <<durable, outside>>

Enqueue ==
  /\ phase = "enqueue"
  /\ inbox > 0 => DbCall
  /\ rows' = EnqueueBatch(rows, lastId + 1 .. lastId + inbox, now)
  /\ lastId' = lastId + inbox
  /\ inbox' = 0
  /\ Goto("fetch")
  /\ UNCHANGED <<process, batch, batches, outside>>

EnqueueFailed ==
  /\ phase = "enqueue"
  /\ inbox > 0
  /\ Return
  /\ UNCHANGED <<durable, outside>>

Fetch ==
  LET due == PendingBatch(rows, retry, MaxBatch, now)
  IN  /\ phase = "fetch"
      /\ DbCall
      /\ \/ /\ due # {}
            /\ batch' = due
            /\ Goto("send")
            /\ UNCHANGED <<process, inbox, batches>>
         \/ /\ due = {}
            /\ Return
      /\ UNCHANGED <<durable, outside>>

FetchFailed ==
  /\ phase = "fetch"
  /\ Return
  /\ UNCHANGED <<durable, outside>>

(* Mutant of SendOk: success is reported before anything is published. *)
SendOk_Unsent ==
  /\ phase = "send"
  /\ Goto("ack")
  /\ UNCHANGED <<durable, process, cycle, outside>>

(* The adapter publishes the whole batch and returns nil.  The tui adapter
   returns nil without doing anything once its program has quit. *)
SendOk ==
  /\ phase = "send"
  /\ adapter = "network" => batch \intersect Poison = {}
  /\ Goto("ack")
  /\ published' = IF adapter = "tui" /\ ~tuiOpen THEN published ELSE published \union batch
  /\ UNCHANGED <<durable, process, cycle, config, now, cliBatch>>

(* The adapter returns an error: a rejected item, no connection, a timeout.
   The items before the failure have been published, and with a timeout the
   backend may have received the last one too. *)
SendError(part) ==
  /\ phase = "send"
  /\ adapter = "network"
  /\ part # {} => PartialSend
  /\ part \intersect Poison = {}
  /\ Goto("nack")
  /\ published' = published \union part
  /\ UNCHANGED <<durable, process, cycle, config, now, cliBatch>>

(* The end of the loop body: another batch, or the end of the cycle. *)
NextBatch ==
  \/ /\ DrainEnabled
     /\ batches + 1 < MaxBatchesPerCycle
     /\ Goto("fetch")
     /\ batches' = batches + 1
     /\ batch' = {}
     /\ UNCHANGED <<process, inbox>>
  \/ /\ ~DrainEnabled \/ batches + 1 >= MaxBatchesPerCycle
     /\ Return

Ack ==
  /\ phase = "ack"
  /\ DbCall
  /\ rows' = MarkDelivered(rows, batch)
  /\ NextBatch
  /\ UNCHANGED <<lastId, outside>>

(* Mutant of Nack: the failed batch is acknowledged. *)
Nack_Acknowledges ==
  /\ phase = "nack"
  /\ DbCall
  /\ rows' = MarkDelivered(rows, batch)
  /\ IF StopOnError THEN Return ELSE NextBatch
  /\ UNCHANGED <<lastId, outside>>

Nack ==
  /\ phase = "nack"
  /\ DbCall
  /\ rows' = MarkFailed(rows, batch, retry, now)
  /\ IF StopOnError THEN Return ELSE NextBatch
  /\ UNCHANGED <<lastId, outside>>

(* MarkDelivered or MarkFailed fails: the transaction is rolled back. *)
MarkError ==
  /\ phase \in {"ack", "nack"}
  /\ Return
  /\ UNCHANGED <<durable, outside>>
-----------------------------------------------------------------------------
(* The loop around RunOnce *)

(* Every CleanupEvery-th cycle deletes the dead letters past retention. *)
CycleEnd ==
  LET turn == Retention > 0 /\ cleanup + 1 >= CleanupEvery
  IN  /\ phase = "cycle_end"
      /\ Goto("wait")
      /\ \/ /\ turn /\ DbCall
            /\ rows' = CleanupDeleted(rows, Retention, now)
         \/ UNCHANGED rows   \* not the turn, or the DELETE failed
      /\ cleanup' = IF turn THEN 0
                    ELSE IF cleanup < CleanupEvery THEN cleanup + 1
                    ELSE cleanup
      /\ UNCHANGED <<lastId, cancelled, retry, adapter, tuiOpen, cycle, outside>>

(* The ticker starts the next cycle; so does a reload that fails.  After a
   cancellation the select statement may still choose it. *)
NextCycle ==
  /\ phase = "wait"
  /\ Goto("collect")
  /\ UNCHANGED <<durable, process, cycle, outside>>

(* reloadPipeline closes the adapter and builds another.  The queue stays, with
   the retry configuration of the start. *)
Reload ==
  /\ phase = "wait"
  /\ Goto("collect")
  /\ BuildPipeline
  /\ UNCHANGED <<durable, cancelled, retry, cleanup, cycle, outside>>
-----------------------------------------------------------------------------
(* The environment *)

Tick ==
  /\ now < MaxTime
  /\ now' = now + 1
  /\ UNCHANGED <<durable, phase, process, cycle, config, cliBatch, published>>

(* The operator edits adapters.yml. *)
Configure ==
  /\ config' \in Adapters \ {config}
  /\ UNCHANGED <<durable, phase, process, cycle, now, cliBatch, published>>

(* The user quits the terminal program; the agent keeps running. *)
QuitTUI ==
  /\ tuiOpen
  /\ tuiOpen' = FALSE
  /\ UNCHANGED <<durable, phase, cancelled, retry, adapter, cleanup, cycle, outside>>

Legacy == [enabled |-> FALSE, base |-> 1, max |-> 1, limit |-> 1]

(* `queue retry` reads a batch in the legacy mode: it never sets a retry
   configuration.  It refuses every adapter but the tui. *)
CLIFetch ==
  /\ RetryCLI
  /\ config = "tui"
  /\ cliBatch = {}
  /\ cliBatch' = PendingBatch(rows, Legacy, MaxBatch, now)
  /\ UNCHANGED <<durable, phase, process, cycle, config, now, published>>

(* Its no-op adapter succeeds without sending, and the rows are deleted;
   or MarkDelivered fails, or the command is interrupted. *)
CLIAck ==
  /\ cliBatch # {}
  /\ rows' = MarkDelivered(rows, cliBatch)
  /\ cliBatch' = {}
  /\ UNCHANGED <<lastId, phase, process, cycle, config, now, published>>

CLIAbort ==
  /\ cliBatch # {}
  /\ cliBatch' = {}
  /\ UNCHANGED <<durable, phase, process, cycle, config, now, published>>
-----------------------------------------------------------------------------
Agent ==
  \/ Start \/ Stop
  \/ \E n \in 0 .. MaxItems : Collect(n)
  \/ CollectFailed
  \/ Enqueue \/ EnqueueFailed
  \/ Fetch \/ FetchFailed
  \/ SendOk
  \/ \E part \in SUBSET batch : SendError(part)
  \/ Ack \/ Nack \/ MarkError
  \/ CycleEnd \/ NextCycle \/ Reload

Environment == Cancel \/ Crash \/ Tick \/ Configure \/ QuitTUI \/ CLIFetch \/ CLIAck \/ CLIAbort

Next == Agent \/ Environment

Spec == Init /\ [][Next]_vars

(* The scheduler runs the agent; neither the collectors nor the database fail
   every one of infinitely many attempts; a select statement offered ctx.Done
   for ever takes it.  Nothing is assumed of the backend, which may fail every
   send, of the user and of the operator. *)
Fairness ==
  /\ WF_vars(Agent)
  /\ SF_vars(Stop)
  /\ SF_vars(\E n \in 0 .. MaxItems : Collect(n)) /\ SF_vars(Enqueue)
  /\ SF_vars(Fetch) /\ SF_vars(Ack) /\ SF_vars(Nack)

FairSpec == Spec /\ Fairness
-----------------------------------------------------------------------------
(* Properties *)

TypeOK ==
  /\ lastId \in 0 .. MaxItems
  /\ rows \in [DOMAIN rows -> Row] /\ DOMAIN rows \subseteq 1 .. lastId
  /\ now \in 0 .. MaxTime
  /\ phase \in Phases
  /\ cancelled \in BOOLEAN /\ tuiOpen \in BOOLEAN
  /\ config \in Adapters /\ adapter \in Adapters
  /\ retry \in RetryConfigs
  /\ inbox \in 0 .. MaxItems - lastId
  /\ batch \subseteq 1 .. lastId /\ cliBatch \subseteq 1 .. lastId
  /\ batches \in 0 .. MaxBatchesPerCycle - 1
  /\ cleanup \in 0 .. CleanupEvery
  /\ published \subseteq 1 .. lastId

(* While the agent delivers a batch, every item of it is in the database and
   pending (nobody else removes or buries it), the batch it acknowledges has
   been published whole, and no other step of the cycle holds a batch.  This
   is what makes the deletion in MarkDelivered safe: pipeline.go:125-156. *)
BatchOnDisk ==
  /\ phase \in {"send", "ack", "nack"} => batch \subseteq Pending(rows)
  /\ phase = "ack" => batch \subseteq published
  /\ phase \notin {"send", "ack", "nack"} => batch = {}

(* No telemetry is lost: an item leaves the database only after the backend
   received it, or as a dead letter whose retention is over, give or take the
   second within which the text comparison of CleanupDeleted may err. *)
RemovedOnlyWhenDelivered ==
  [][\A id \in DOMAIN rows \ DOMAIN rows' :
        \/ id \in published
        \/ /\ rows[id].status = "dead_letter"
           /\ rows[id].updated + Retention < now + TicksPerSecond]_vars

(* "Items that exceed max_retries move to dead_letter and are never retried"
   (docs/SECURITY.md): whatever the configuration a later start finds, a dead
   letter stays one, is not counted again, and is in no batch being sent. *)
DeadLetterIsFinal ==
  [][\A id \in DeadLetter(rows) :
        /\ id \in DOMAIN rows' => /\ rows'[id].status = "dead_letter"
                                  /\ rows'[id].retries = rows[id].retries
        /\ id \notin batch']_vars

(* MarkFailed buries a row exactly at the limit: no dead letter has used up
   fewer attempts than some configuration allows, and while every start has
   retry enabled no pending row has used up as many as all allow. *)
RetryBudget ==
  \A id \in DOMAIN rows :
    IF rows[id].status = "dead_letter"
    THEN \E cfg \in RetryConfigs : cfg.enabled /\ rows[id].retries >= cfg.limit
    ELSE (\A cfg \in RetryConfigs : cfg.enabled) =>
           \E cfg \in RetryConfigs : rows[id].retries < cfg.limit

(* A row that has left the table never comes back: an acknowledgement by one
   process is not undone by the late MarkFailed or MarkDelivered of another. *)
GoneForGood ==
  [][\A id \in 1 .. lastId : id \notin DOMAIN rows => id \notin DOMAIN rows']_vars

Fetching == phase = "fetch" /\ phase' # "fetch"

(* The TEXT comparison of next_attempt_at keeps the backoff to within one
   second: no row is sent a second or more before its next attempt, and a
   batch that is not full leaves behind no row that is a second overdue. *)
BackoffWithinASecond ==
  [][Fetching /\ phase' = "send" /\ retry.enabled =>
       /\ \A id \in batch' : rows[id].next < now + TicksPerSecond
       /\ Cardinality(batch') < MaxBatch =>
            \A id \in Pending(rows) \ batch' : rows[id].next > now - TicksPerSecond]_vars

(* "PendingBatch: returns the oldest pending items" (docs/QUEUE_DESIGN.md) up
   to the resolution at which the TEXT order of created_at is the order of
   time: no row left behind is a second or more older than a row taken. *)
OldestWithinASecond ==
  [][Fetching =>
       \A id \in batch', other \in Due(rows, retry, now) \ batch' :
          rows[id].created < rows[other].created + TicksPerSecond]_vars

(* From some time on the process is neither killed nor cancelled. *)
Undisturbed == <>[][~Crash /\ ~Cancel]_vars

(* Once the process is left running, every item stored is in the end delivered
   or given up: no row is pending for ever, whatever its batch mates. *)
EventuallyLeavesPending ==
  Undisturbed => \A id \in Ids : id \in Pending(rows) ~> id \notin Pending(rows)

(* The pipeline keeps the promise of store and forward. *)
Promise == INSTANCE StoreAndForward WITH
  Items <- Ids, accepted <- 1 .. lastId, pending <- Pending(rows),
  dead <- DeadLetter(rows), delivered <- published

KeepsPromise == Promise!Spec
=============================================================================

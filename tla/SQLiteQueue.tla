---------------------------- MODULE SQLiteQueue ----------------------------
(***************************************************************************)
(* The durable store-and-forward queue of internal/queue/sqlite_queue.go,  *)
(* as operators on the contents of the table queue_items: every operation  *)
(* of the Go type SQLiteQueue is one SQL transaction, so one operator that *)
(* maps a table to a table (or to what a query returns).                   *)
(*                                                                         *)
(* A table is a function from row numbers to rows.  The uuid of a row is   *)
(* its row number: both are fresh at every insertion, and SQLite numbers   *)
(* rows in insertion order, which is also how it breaks ties when it reads *)
(* the index idx_queue_items_status_created.                               *)
(*                                                                         *)
(* Time is counted in ticks, TicksPerSecond of them to a second.  The code *)
(* never compares times, only their RFC 3339 texts: see TextKey.           *)
(***************************************************************************)
EXTENDS Integers, FiniteSets

CONSTANTS
  TicksPerSecond,  \* resolution of the clock that stamps the rows
  RetryCap         \* bound: retry_count saturates here (at least every limit)

ASSUME TicksAssumption == TicksPerSecond \in Nat \ {0}
ASSUME RetryCapAssumption == RetryCap \in Nat \ {0}

(* next_attempt_at IS NULL *)
Never == -1

Time   == Nat
Status == {"pending", "dead_letter"}
Row    == [status : Status, retries : Nat, created : Time, updated : Time,
           next : Time \union {Never}]

(* RetryConfig, after the defaults MarkFailed applies to zero values.  The
   legacy mode (Enabled false) keeps the other fields but never reads them. *)
RetryConfig == [enabled : BOOLEAN, base : Nat \ {0}, max : Nat \ {0},
                limit : 1 .. RetryCap]
-----------------------------------------------------------------------------
(* time.RFC3339Nano drops trailing zeros of the fraction and the point of an
   empty fraction, and the columns are compared as TEXT.  In one second the
   texts sort "00.1Z" < "00.2Z" < ... < "00Z": the whole second, the first
   instant of its second, comes last, because "." < "Z".  TextKey numbers the
   texts in that order; a tick stands for one unit of the last digit. *)
TextKey(t) ==
  LET tick == t % TicksPerSecond
  IN  (t \div TicksPerSecond) * (TicksPerSecond + 1)
        + (IF tick = 0 THEN TicksPerSecond ELSE tick)

TextLeq(s, t) == TextKey(s) <= TextKey(t)

Pending(rows)    == {id \in DOMAIN rows : rows[id].status = "pending"}
DeadLetter(rows) == {id \in DOMAIN rows : rows[id].status = "dead_letter"}

(* Mutants of Due: the status, or the backoff, is not looked at. *)
Due_AnyStatus(rows, cfg, now) ==
  {id \in DOMAIN rows :
     cfg.enabled => rows[id].next = Never \/ TextLeq(rows[id].next, now)}

Due_NoBackoff(rows, cfg, now) == Pending(rows)

(* WHERE status='pending' [AND (next_attempt_at IS NULL OR next_attempt_at <= now)] *)
Due(rows, cfg, now) ==
  {id \in Pending(rows) :
     cfg.enabled => \/ rows[id].next = Never
                    \/ TextLeq(rows[id].next, now)}

(* Mutant of Before: ORDER BY created_at DESC *)
Before_Descending(rows, i, j) ==
  \/ TextKey(rows[i].created) > TextKey(rows[j].created)
  \/ rows[i].created = rows[j].created /\ i < j

(* ORDER BY created_at ASC, ties in row order *)
Before(rows, i, j) ==
  \/ TextKey(rows[i].created) < TextKey(rows[j].created)
  \/ rows[i].created = rows[j].created /\ i < j

(* PendingBatch: the first `limit` due rows. *)
PendingBatch(rows, cfg, limit, now) ==
  LET due == Due(rows, cfg, now)
  IN  {id \in due : Cardinality({j \in due : Before(rows, j, id)}) < limit}

(* EnqueueBatch: one transaction, one timestamp for the whole batch. *)
EnqueueBatch(rows, ids, now) ==
  [id \in DOMAIN rows \union ids |->
     IF id \in ids
     THEN [status |-> "pending", retries |-> 0, created |-> now,
           updated |-> now, next |-> Never]
     ELSE rows[id]]

(* MarkDelivered: DELETE ... WHERE id IN (...); unknown ids are ignored. *)
MarkDelivered(rows, ids) == [id \in DOMAIN rows \ ids |-> rows[id]]

(* min(base * 2^n, max), computed in floating point: it cannot overflow. *)
Backoff(cfg, n) ==
  LET doubled == cfg.base * 2^n
  IN  IF doubled \in 1 .. cfg.max THEN doubled ELSE cfg.max

Counted(row) == IF row.retries < RetryCap THEN row.retries + 1 ELSE RetryCap

(* Mutants of FailedRow: one failure too many, and a failure that is not counted
   nor scheduled. *)
FailedRow_OneMore(row, cfg, now) ==
  IF cfg.enabled /\ row.retries >= cfg.limit
  THEN [row EXCEPT !.retries = Counted(row), !.updated = now, !.status = "dead_letter"]
  ELSE [row EXCEPT !.retries = Counted(row), !.updated = now,
                   !.next = IF cfg.enabled THEN now + Backoff(cfg, row.retries + 1) ELSE @]

FailedRow_Uncounted(row, cfg, now) ==
  IF cfg.enabled /\ row.retries + 1 >= cfg.limit
  THEN [row EXCEPT !.retries = Counted(row), !.updated = now, !.status = "dead_letter"]
  ELSE [row EXCEPT !.updated = now]

(* What MarkFailed does to one row.  In the legacy mode it only counts. *)
FailedRow(row, cfg, now) ==
  CASE ~cfg.enabled ->
         [row EXCEPT !.retries = Counted(row), !.updated = now]
    [] cfg.enabled /\ row.retries + 1 >= cfg.limit ->
         [row EXCEPT !.retries = Counted(row), !.updated = now,
                     !.status = "dead_letter"]
    [] OTHER ->
         [row EXCEPT !.retries = Counted(row), !.updated = now,
                     !.next = now + Backoff(cfg, row.retries + 1)]

(* Mutant of MarkFailed: INSERT OR REPLACE brings a deleted row back. *)
MarkFailed_Upserts(rows, ids, cfg, now) ==
  [id \in DOMAIN rows \union ids |->
     IF id \notin DOMAIN rows
     THEN [status |-> "pending", retries |-> 1, created |-> now, updated |-> now, next |-> Never]
     ELSE IF id \in ids THEN FailedRow(rows[id], cfg, now) ELSE rows[id]]

(* MarkFailed: an id that is no longer in the table is not brought back. *)
MarkFailed(rows, ids, cfg, now) ==
  [id \in DOMAIN rows |->
     IF id \in ids THEN FailedRow(rows[id], cfg, now) ELSE rows[id]]

(* Mutant of Expired: the status is not looked at. *)
Expired_AnyStatus(rows, retention, now) ==
  {id \in DOMAIN rows : TextKey(rows[id].updated) < TextKey(now - retention)}

(* CleanupDeleted: DELETE ... WHERE status != 'pending' AND updated_at < cutoff *)
Expired(rows, retention, now) ==
  {id \in DOMAIN rows :
     /\ rows[id].status # "pending"
     /\ TextKey(rows[id].updated) < TextKey(now - retention)}

CleanupDeleted(rows, retention, now) ==
  [id \in DOMAIN rows \ Expired(rows, retention, now) |-> rows[id]]
=============================================================================

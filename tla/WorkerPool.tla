----------------------------- MODULE WorkerPool -----------------------------
(***************************************************************************)
(* Collect of ICMPCollector and SNMPCollector (internal/collectors): a pool*)
(* of goroutines between two channels.                                     *)
(*                                                                         *)
(*    feeder --targetCh--> workers --resultCh--> Collect                   *)
(*                                                                         *)
(* targetCh has no buffer: a target is handed over when a worker is ready. *)
(* resultCh has room for every target.  The feeder closes targetCh after   *)
(* the last target, waits for the workers and closes resultCh, and Collect *)
(* returns what it received once resultCh is closed and empty.             *)
(*                                                                         *)
(* A target whose configuration is incomplete, or that answers nothing,    *)
(* sends no result.  A ping or a walk ends, at the latest with a timeout.  *)
(***************************************************************************)
EXTENDS Naturals, Sequences, FiniteSets, SequencesExt

CONSTANTS
  Targets,   \* the targets, in order
  Workers,
  NoResult   \* of a target that was skipped or did not answer

VARIABLES
  collecting,  \* is Collect running?
  fed,         \* how many targets have been handed over
  worker,      \* each worker: what it is doing, and with what
  fedAll,      \* has targetCh been closed?
  results,     \* resultCh
  resultsDone, \* has it been closed?
  out          \* what Collect has received

pool == <<collecting, fed, worker, fedAll, results, resultsDone, out>>

Idle       == [does |-> "idle"]
Gone       == [does |-> "gone"]
Working(t) == [does |-> "work", target |-> t]
Sending(r) == [does |-> "send", result |-> r]

Does(w, what) == worker[w].does = what
Become(w, s)  == worker' = [worker EXCEPT ![w] = s]

InitPool ==
  /\ collecting = FALSE
  /\ fed = 0 /\ fedAll = FALSE
  /\ worker = [w \in Workers |-> Gone]
  /\ results = <<>> /\ resultsDone = FALSE /\ out = <<>>

Collect ==
  /\ ~collecting
  /\ collecting' = TRUE
  /\ fed' = 0 /\ fedAll' = FALSE
  /\ worker' = [w \in Workers |-> Idle]
  /\ results' = <<>> /\ resultsDone' = FALSE /\ out' = <<>>

(* The rendezvous on targetCh. *)
CanHandOver(w) == collecting /\ fed < Len(Targets) /\ Does(w, "idle")

HandOver(w) ==
  /\ CanHandOver(w)
  /\ Become(w, Working(Targets[fed + 1]))
  /\ fed' = fed + 1
  /\ UNCHANGED <<collecting, fedAll, results, resultsDone, out>>

(* Mutant of Work: a target that does not answer is handed over again. *)
Work_TriesAgain(w, r) ==
  /\ Does(w, "work")
  /\ Become(w, IF r = NoResult THEN Idle ELSE Sending(r))
  /\ fed' = IF r = NoResult THEN fed - 1 ELSE fed
  /\ UNCHANGED <<collecting, fedAll, results, resultsDone, out>>

(* The ping, or the gets and walks of the profile, give result r. *)
Work(w, r) ==
  /\ Does(w, "work")
  /\ Become(w, IF r = NoResult THEN Idle ELSE Sending(r))
  /\ UNCHANGED <<collecting, fed, fedAll, results, resultsDone, out>>

(* A send to a channel that has been closed would end the process. *)
CanSend(w) == Does(w, "send") /\ ~resultsDone /\ Len(results) < Len(Targets)

Send(w) ==
  /\ CanSend(w)
  /\ results' = Append(results, worker[w].result)
  /\ Become(w, Idle)
  /\ UNCHANGED <<collecting, fed, fedAll, resultsDone, out>>

(* Mutant of CanCloseTargets: the feeder waits for the workers first. *)
CanCloseTargets_Waits ==
  /\ collecting /\ fed = Len(Targets) /\ ~fedAll
  /\ \A w \in Workers : Does(w, "gone")

CanCloseTargets == collecting /\ fed = Len(Targets) /\ ~fedAll

CloseTargets ==
  /\ CanCloseTargets
  /\ fedAll' = TRUE
  /\ UNCHANGED <<collecting, fed, worker, results, resultsDone, out>>

CanLeave(w) == collecting /\ fedAll /\ Does(w, "idle")

Leave(w) ==
  /\ CanLeave(w)
  /\ Become(w, Gone)
  /\ UNCHANGED <<collecting, fed, fedAll, results, resultsDone, out>>

(* Mutant of CanCloseResults: the feeder waits only until the workers have no
   target. *)
CanCloseResults_Early ==
  /\ collecting /\ fedAll /\ ~resultsDone
  /\ \A w \in Workers : ~Does(w, "work")

(* The feeder waits for all the workers. *)
CanCloseResults ==
  /\ collecting /\ fedAll /\ ~resultsDone
  /\ \A w \in Workers : Does(w, "gone")

CloseResults ==
  /\ CanCloseResults
  /\ resultsDone' = TRUE
  /\ UNCHANGED <<collecting, fed, worker, fedAll, results, out>>

CanReceive == collecting /\ results # <<>>

Receive ==
  /\ CanReceive
  /\ out' = Append(out, Head(results))
  /\ results' = Tail(results)
  /\ UNCHANGED <<collecting, fed, worker, fedAll, resultsDone>>

(* Mutant of CanReturn: Collect does not wait for the results in the buffer. *)
CanReturn_Early == collecting /\ resultsDone

CanReturn == collecting /\ resultsDone /\ results = <<>>

CollectReturns ==
  /\ CanReturn
  /\ collecting' = FALSE
  /\ UNCHANGED <<fed, worker, fedAll, results, resultsDone, out>>

PoolStep ==
  \/ \E w \in Workers : HandOver(w) \/ Send(w) \/ Leave(w)
  \/ CloseTargets \/ CloseResults \/ Receive

(* What has been taken off targetCh and not yet received. *)
InHand == {w \in Workers : Does(w, "work") \/ Does(w, "send")}

(* There is a goroutine that need not wait for another. *)
Unblocked ==
  \/ \E w \in Workers : CanHandOver(w) \/ Does(w, "work") \/ CanSend(w) \/ CanLeave(w)
  \/ CanCloseTargets \/ CanCloseResults \/ CanReceive \/ CanReturn

(* How many steps the pool can take until Collect returns. *)
WorkLeft ==
  LET doing(what) == Cardinality({w \in Workers : Does(w, what)})
  IN  4 * (Len(Targets) - fed) + 4 * doing("work") + 3 * doing("send") + doing("idle")
        + (Len(results) + (IF fedAll THEN 0 ELSE 1) + (IF resultsDone THEN 0 ELSE 1))
=============================================================================

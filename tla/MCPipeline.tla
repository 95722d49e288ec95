----------------------------- MODULE MCPipeline -----------------------------
(* Model values of the runs of Pipeline. *)
EXTENDS Pipeline

Enabled(base, max, limit) ==
  [enabled |-> TRUE, base |-> base, max |-> max, limit |-> limit]

Disabled == {Legacy}
TwoTries == {Enabled(1, 2, 2)}
Changing == {Legacy, Enabled(1, 2, 2)}

Network  == {"network"}
Terminal == {"tui"}
Either   == {"network", "tui"}

NoItem     == {}
SecondItem == {2}

(* For liveness with backoff on a bounded clock: time passes only while the
   agent waits and a row is backing off, the only moments it is needed.  The run
   `shared` lets time pass at any moment. *)
TickWhenNeeded ==
  /\ phase = "wait"
  /\ \E id \in Pending(rows) : id \notin Due(rows, retry, now)

LazyNext == Next /\ (now' # now => TickWhenNeeded)

LazyFairSpec == Init /\ [][LazyNext]_vars /\ Fairness /\ SF_vars(Tick /\ TickWhenNeeded)
=============================================================================

--------------------------- MODULE StoreAndForward --------------------------
(***************************************************************************)
(* What nms-agent promises of telemetry (docs/ARCHITECTURE.md: it is       *)
(* persisted before delivery, and a failure leaves it pending): an item    *)
(* the agent accepts is stored; it is delivered at least once, from the    *)
(* store; it leaves the store only after a delivery, or after it was given *)
(* up and kept as a dead letter for a while.                               *)
(***************************************************************************)
CONSTANT Items

VARIABLES
  accepted,   \* items ever stored
  pending,    \* items stored and still to be delivered
  dead,       \* items given up, kept for inspection
  delivered   \* items the backend has received

vars == <<accepted, pending, dead, delivered>>

Init ==
  /\ accepted = {}
  /\ pending = {}
  /\ dead = {}
  /\ delivered = {}

Accept(S) ==
  /\ S \intersect accepted = {}
  /\ accepted' = accepted \union S
  /\ pending' = pending \union S
  /\ UNCHANGED <<dead, delivered>>

Deliver(S) ==
  /\ S \subseteq pending
  /\ delivered' = delivered \union S
  /\ UNCHANGED <<accepted, pending, dead>>

Acknowledge(S) ==
  /\ S \subseteq pending \intersect delivered
  /\ pending' = pending \ S
  /\ UNCHANGED <<accepted, dead, delivered>>

GiveUp(S) ==
  /\ S \subseteq pending
  /\ pending' = pending \ S
  /\ dead' = dead \union S
  /\ UNCHANGED <<accepted, delivered>>

Purge(S) ==
  /\ S \subseteq dead
  /\ dead' = dead \ S
  /\ UNCHANGED <<accepted, pending, delivered>>

Next == \E S \in SUBSET Items :
          Accept(S) \/ Deliver(S) \/ Acknowledge(S) \/ GiveUp(S) \/ Purge(S)

Spec == Init /\ [][Next]_vars
=============================================================================

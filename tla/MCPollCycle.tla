---------------------------- MODULE MCPollCycle ----------------------------
(* Two devices and two workers.  The interface of d1 is physical by its
   connector only and its walks fail; that of d2 is virtual by its name,
   carries nothing and always answers in full. *)
EXTENDS PollCycle

CONSTANTS d1, d2

TwoTargets == <<d1, d2>>
Interfaces ==
  [d \in Devices |->
     IF d = d1 THEN [name |-> "eth", connector |-> 1, type |-> 117]
               ELSE [name |-> "virtual", connector |-> 0, type |-> 6]]

SomeFail == [d \in Devices |->
  IF d = d1 THEN {{}, {"hc"}, {"hc", "std", "connector"}, {"std", "type"}}
            ELSE {{}}]

Octets == [d \in Devices |-> IF d = d1 THEN 2 ELSE 0]
=============================================================================

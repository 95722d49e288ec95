------------------------ MODULE MCThingsBoardAdapter ------------------------
(* The run of ThingsBoardAdapter: the address of one device is edited between
   two starts, and its name is part of the name of the other. *)
EXTENDS ThingsBoardAdapter

CONSTANTS d1, d2, a1, a2

MCMatches == [d \in Devices |-> {d, d2}]
TwoConfigurations == {[d \in Devices |-> IF d = d1 THEN a ELSE a1] : a \in {a1, a2}}
=============================================================================

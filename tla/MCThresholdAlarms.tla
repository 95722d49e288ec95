-------------------------- MODULE MCThresholdAlarms --------------------------
(* One device with a rule for the memory in use.  It also reports the size of
   its memory, which has no rule and the same type of alarm. *)
EXTENDS ThresholdAlarms

CONSTANTS d1, HIGH_MEMORY

TheKeys   == {<<d1, HIGH_MEMORY>>}
TheMatch  == [d \in {d1} |-> {d1}]
TheIds    == [k \in TheKeys |-> {1, 2, 3}]
TheRules  == <<[metric |-> "used_pct", operator |-> ">", warning |-> 1, critical |-> 2,
                tags |-> [source |-> "*"]]>>
TypeOf    == [m \in {"size_kb", "used_pct"} |-> HIGH_MEMORY]
TheReport == [i \in 1 .. 2 |->
                [device |-> d1, metric |-> IF i = 1 THEN "size_kb" ELSE "used_pct",
                 tags |-> [source |-> "snmp"], value |-> 0]]
TheValues == 1 .. 3
=============================================================================

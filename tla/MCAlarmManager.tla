--------------------------- MODULE MCAlarmManager ---------------------------
(* Model values of the run of AlarmManager: a device whose name is part of the
   name of another, as "router-1" is part of "router-10", and telemetry of an
   alarm type of each. *)
EXTENDS AlarmManager

CONSTANTS d1, d2, t1, t2

MCMatches == [d \in Devices |-> {d, d2}]
MCKeys    == {<<d1, t1>>, <<d2, t2>>}

(* Ids that say where their alarm is keep the states fewer: only the ids of one
   device and type have an order. *)
MCIds == [s \in Slots |-> {<<s, i>> : i \in 1 .. 7}]
=============================================================================

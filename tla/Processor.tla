------------------------------ MODULE Processor ------------------------------
(***************************************************************************)
(* The state PreprocessThresholdProcessor keeps from cycle to cycle        *)
(* (internal/processors/preprocess_threshold_processor.go): the last octet *)
(* counter of an interface, from which deriveInterfaceMetrics computes a   *)
(* rate, and what is known of the interface (name, connector, type), from  *)
(* which filterPhysicalInterfaces decides whether to report it.  One       *)
(* interface of each device in one direction; the code treats each pair    *)
(* by itself.                                                              *)
(*                                                                         *)
(* A sample holds what the walks of a cycle returned; one that failed left *)
(* nothing.  The 64-bit counter (hc) goes before the 32-bit one (std).     *)
(***************************************************************************)
EXTENDS Integers

CONSTANTS
  Devices,
  Nothing   \* what a walk that failed returns

VARIABLES
  lastCounters,   \* the last counter of each device: value and time
  lastIfaceInfo,  \* the last name, connector and type seen
  derived,        \* the rates of this cycle: octets and seconds
  reported        \* is the interface of the device among the telemetry?

processor == <<lastCounters, lastIfaceInfo, derived, reported>>

Unknown == [name |-> "", connector |-> 0, type |-> 0]

InitProcessor ==
  /\ lastCounters = [d \in Devices |-> Nothing]
  /\ lastIfaceInfo = [d \in Devices |-> Unknown]
  /\ derived = [d \in Devices |-> Nothing]
  /\ reported = {}

(* The counter of the highest priority. *)
Current(s) == IF s.hc # Nothing THEN s.hc ELSE s.std

(* Mutant of Rate: a counter that went back counts as wrapped. *)
Rate_Wraps(prev, value, ts, w) ==
  IF prev = Nothing \/ value = Nothing \/ ts <= prev.ts \/ value = prev.value
    THEN Nothing
    ELSE [octets |-> (value - prev.value) % w, seconds |-> ts - prev.ts]

(* No rate from a first counter, from one that went back, from no time. *)
Rate(prev, value, ts, w) ==
  IF prev = Nothing \/ value = Nothing \/ ts <= prev.ts \/ value <= prev.value
    THEN Nothing
    ELSE [octets |-> value - prev.value, seconds |-> ts - prev.ts]

isVirtualIfaceName(name) == name = "virtual"

isPhysicalInterface(info) ==
  /\ ~isVirtualIfaceName(info.name)
  /\ \/ info.connector = 1
     \/ info.connector # 2 /\ info.type \in {0, 6, 71}

(* Mutant of cacheIfaceInfo: each cycle starts from nothing. *)
cacheIfaceInfo_Forgets(info, s) ==
  [name      |-> IF s.name = Nothing THEN "" ELSE s.name,
   connector |-> IF s.connector = Nothing THEN 0 ELSE s.connector,
   type      |-> IF s.type = Nothing THEN 0 ELSE s.type]

cacheIfaceInfo(info, s) ==
  [name      |-> IF s.name = Nothing THEN info.name ELSE s.name,
   connector |-> IF s.connector = Nothing THEN info.connector ELSE s.connector,
   type      |-> IF s.type = Nothing THEN info.type ELSE s.type]

(* Normalize on the samples of a cycle, whose time is ts.  A counter of width
   w wraps at w. *)
Normalize(samples, ts, w) ==
  LET there == DOMAIN samples
      info  == [d \in Devices |->
                  IF d \in there THEN cacheIfaceInfo(lastIfaceInfo[d], samples[d])
                                 ELSE lastIfaceInfo[d]]
      shown == {d \in there : isPhysicalInterface(info[d])}
      value(d) == Current(samples[d])
  IN  /\ lastIfaceInfo' = info
      /\ reported' = shown
      /\ derived' = [d \in Devices |->
           IF d \in shown THEN Rate(lastCounters[d], value(d), ts, w) ELSE Nothing]
      /\ lastCounters' = [d \in Devices |->
           IF d \in there /\ value(d) # Nothing THEN [value |-> value(d), ts |-> ts]
                                                ELSE lastCounters[d]]

(* What Normalize returned is gone with its cycle. *)
Discard ==
  /\ derived' = [d \in Devices |-> Nothing]
  /\ reported' = {}
  /\ UNCHANGED <<lastCounters, lastIfaceInfo>>

(* A reload makes a new processor. *)
NewProcessor ==
  /\ lastCounters' = [d \in Devices |-> Nothing]
  /\ lastIfaceInfo' = [d \in Devices |-> Unknown]
  /\ derived' = [d \in Devices |-> Nothing]
  /\ reported' = {}
=============================================================================

----------------------------- MODULE PollCycle -----------------------------
(***************************************************************************)
(* The first half of RunOnce (internal/core/pipeline.go): Collect runs the *)
(* pool of WorkerPool over the devices, Normalize of Processor computes    *)
(* rates from their octet counters.  Between two reads a device carries    *)
(* traffic, its counters wrap, it reboots, and any of its walks may fail in*)
(* any cycle; SNMPCollector ignores the error and goes on with the next    *)
(* metric.                                                                 *)
(*                                                                         *)
(* What is in an answer does not affect the pool, so a result is its device*)
(* and what the device answered is chosen in the step that looks at it,    *)
(* Normalize.  All samples of a cycle have the time Collect began.         *)
(***************************************************************************)
EXTENDS WorkerPool, Processor

CONSTANTS
  Interface,  \* what the identity walks of each device return
  Failures,   \* sets of walks that may fail together, for each device
  WrapStd,    \* the counter std counts modulo WrapStd, hc never wraps
  MaxOctets,  \* bound on the counter of each device
  MaxTime     \* bound on the clock

ASSUME PollAssumption ==
  /\ Targets \in Seq(Devices) /\ IsInjective(Targets)
  /\ NoResult \notin Devices /\ Nothing \notin {"hc", "std"}
  /\ IsFiniteSet(Workers) /\ Workers # {}
  /\ WrapStd \in Nat \ {0} /\ MaxTime \in Nat
  /\ MaxOctets \in [Devices -> Nat]

VARIABLES
  began,     \* time of the cycle
  phase,     \* "wait", "collect" or "normalize"
  octets,    \* the octet counter of the devices, when last read
  carried,   \* history: octets carried since the read of lastCounters
  between,   \* history: octets carried between the two reads of a rate
  source,    \* history: which counter lastCounters is, "hc" or "std"
  switched,  \* history: devices whose last two counters were not the same one
  answered,  \* history: devices that answered in this cycle
  seen       \* history: identity walks that have succeeded

history == <<between, source, switched, seen>>
vars    == <<pool, processor, began, phase, octets, carried, history, answered>>

Identity == {"name", "connector", "type"}
Zero     == [d \in Devices |-> 0]

Init ==
  /\ InitPool /\ InitProcessor
  /\ began = 0 /\ phase = "wait"
  /\ octets = Zero /\ carried = Zero /\ between = Zero
  /\ source = [d \in Devices |-> Nothing]
  /\ switched = {} /\ answered = {}
  /\ seen = [d \in Devices |-> {}]
-----------------------------------------------------------------------------
(* RunOnce *)

BeginCycle ==
  /\ phase = "wait"
  /\ phase' = "collect"
  /\ Collect
  /\ began' \in began .. MaxTime
  /\ Discard
  /\ between' = Zero /\ switched' = {} /\ answered' = {}
  /\ UNCHANGED <<octets, carried, source, seen>>

Pool ==
  /\ PoolStep
  /\ UNCHANGED <<processor, began, phase, octets, carried, history, answered>>

(* The metrics of the profile are got and walked, or the target is pinged. *)
Poll(w) ==
  /\ Work(w, worker[w].target)
  /\ answered' = answered \union {worker[w].target}
  /\ UNCHANGED <<processor, began, phase, octets, carried, history>>

(* Skipped, or no answer to any walk. *)
Skip(w) ==
  /\ Work(w, NoResult)
  /\ UNCHANGED <<processor, began, phase, octets, carried, history, answered>>

EndCollect ==
  /\ CollectReturns
  /\ phase' = "normalize"
  /\ UNCHANGED <<processor, began, octets, carried, history, answered>>

(* Since the last look at it device d has carried n more octets, the last m of
   them since it rebooted, if it did. *)
Lives(d) ==
  {life \in [octets : 0 .. MaxOctets[d], carried : carried[d] .. MaxOctets[d]] :
     LET n == life.carried - carried[d]
     IN  life.octets = octets[d] + n \/ life.octets <= n}

(* What the walks of device d return when those in failed fail. *)
Answer(d, count, failed) ==
  LET walk(name, value) == IF name \in failed THEN Nothing ELSE value
  IN  [hc        |-> walk("hc", count),
       std       |-> walk("std", count % WrapStd),
       name      |-> walk("name", Interface[d].name),
       connector |-> walk("connector", Interface[d].connector),
       type      |-> walk("type", Interface[d].type)]

Collected == Range(out)
Source(s) == IF s.hc # Nothing THEN "hc" ELSE "std"

(* Normalize on these samples, after the devices lived so. *)
NormalizeSamples(samples, life) ==
  LET counted == {d \in Collected : Current(samples[d]) # Nothing}
  IN  /\ Normalize(samples, began, WrapStd)
      /\ octets' = [d \in Devices |-> life[d].octets]
      /\ between' = [d \in Devices |-> IF d \in counted THEN life[d].carried ELSE 0]
      /\ carried' = [d \in Devices |-> IF d \in counted THEN 0 ELSE life[d].carried]
      /\ source' = [d \in Devices |->
           IF d \in counted THEN Source(samples[d]) ELSE source[d]]
      /\ switched' = {d \in counted : source[d] \notin {Nothing, Source(samples[d])}}
      /\ seen' = [d \in Devices |-> seen[d] \union
           IF d \in Collected THEN {walk \in Identity : samples[d][walk] # Nothing} ELSE {}]

EndCycle ==
  /\ phase = "normalize"
  /\ phase' = "wait"
  /\ \E life \in {f \in [Devices -> UNION {Lives(d) : d \in Devices}] :
                   \A d \in Devices : f[d] \in Lives(d)},
        failed \in {f \in [Collected -> UNION {Failures[d] : d \in Devices}] :
                   \A d \in Collected : f[d] \in Failures[d]} :
       NormalizeSamples([d \in Collected |-> Answer(d, life[d].octets, failed[d])], life)
  /\ out' = <<>>
  /\ UNCHANGED <<collecting, fed, worker, fedAll, results, resultsDone, began, answered>>

(* Between two cycles the configuration may be loaded again. *)
Reload ==
  /\ phase = "wait"
  /\ NewProcessor
  /\ source' = [d \in Devices |-> Nothing]
  /\ switched' = {} /\ between' = Zero /\ answered' = {}
  /\ seen' = [d \in Devices |-> {}]
  /\ UNCHANGED <<pool, began, phase, octets, carried>>
-----------------------------------------------------------------------------
Cycle == Pool \/ EndCollect \/ EndCycle \/ \E w \in Workers : Poll(w) \/ Skip(w)

Next == BeginCycle \/ Cycle \/ Reload

Spec == Init /\ [][Next]_vars

(* The goroutines run, and every ping and walk ends: each has a timeout. *)
FairSpec == Spec /\ WF_vars(Cycle)
-----------------------------------------------------------------------------
(* Properties *)

TypeOK ==
  /\ phase \in {"wait", "collect", "normalize"} /\ (collecting <=> phase = "collect")
  /\ fed \in 0 .. Len(Targets)
  /\ \A w \in Workers : worker[w] \in {Idle, Gone} \union
       {Working(d) : d \in Devices} \union {Sending(d) : d \in Devices}
  /\ Range(results) \union Range(out) \subseteq Devices
  /\ Len(results) + Len(out) + Cardinality(InHand) <= fed
  /\ began \in 0 .. MaxTime
  /\ reported \subseteq Devices
  /\ \A d \in Devices : derived[d] # Nothing => derived[d].octets > 0 /\ derived[d].seconds > 0
  /\ \A d \in Devices : {octets[d], carried[d]} \subseteq 0 .. MaxOctets[d]

(* When Collect returns, it has the answer of every device that answered, and
   each once, in whatever order the workers took, sent and left:
   icmp_collector.go:62-121, snmp_collector.go:90-173. *)
NoAnswerIsLost ==
  phase = "normalize" => Collected = answered /\ Len(out) = Cardinality(answered)

(* A rate is never above the traffic: the octets it counts were carried between
   the two reads, through wraps, reboots and failing walks.  Excepted are the
   cycles that read the other counter than the cycle before: there the one entry
   of lastCounters mixes the two, and all that holds is that a rate counts no
   octet the device does not count: preprocess_threshold_processor.go:107-159. *)
RateIsCarriedUnlessSwitched ==
  \A d \in Devices : derived[d] # Nothing =>
    derived[d].octets <= IF d \in switched THEN octets[d] ELSE between[d]

(* "Interface counter -> throughput ... Uses HC counters with fallback to 32-bit"
   (docs/DEVELOPMENT_STAGES.md:204): with the fallback, too, a rate counts octets
   that were carried between the two reads. *)
RateIsCarried ==
  \A d \in Devices : derived[d] # Nothing => derived[d].octets <= between[d]

(* Once each identity walk has succeeded, in whatever cycles, an interface is
   reported if and only if it is physical, whichever of them fail later:
   preprocess_threshold_processor.go:160-232. *)
ClassifiedByAllSignals ==
  phase = "wait" => \A d \in Devices :
    d \in answered /\ seen[d] = Identity =>
      (d \in reported <=> isPhysicalInterface(Interface[d]))

(* No worker sends its result on a channel that has been closed, which would
   end the process, and none waits for room to send it:
   icmp_collector.go:70-121, snmp_collector.go:99-173. *)
SendsGoThrough == \A w \in Workers : Does(w, "send") => CanSend(w)

(* Feeder, workers and Collect never all wait for one another, whatever each
   target answers: icmp_collector.go:70-121, snmp_collector.go:99-173. *)
CollectNeverStuck == collecting => Unblocked

(* Each step of a collection brings its end nearer: no target is taken twice
   and no goroutine turns in circles.  With CollectNeverStuck, a collection
   ends after at most 4 * Len(Targets) + Cardinality(Workers) + 2 steps and the
   return: icmp_collector.go:70-121, snmp_collector.go:99-173. *)
EachStepCounts ==
  [][collecting /\ collecting' => 0 <= WorkLeft' /\ WorkLeft' < WorkLeft]_vars

(* No device and no schedule of the workers keeps a cycle from ending. *)
CollectEnds == phase = "collect" ~> phase = "wait"
=============================================================================

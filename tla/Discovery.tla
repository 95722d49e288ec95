----------------------------- MODULE Discovery -----------------------------
(***************************************************************************)
(* `nms-agentctl discovery run` (cmd/nms-agentctl/discover.go and          *)
(* internal/discovery): a process that                                     *)
(*                                                                         *)
(*    loads and validates the configuration -> scans the subnet -> leaves  *)
(*      out the addresses it knows -> probes the rest with a pool of       *)
(*      workers -> writes a device file for each that has a profile        *)
(*                                                                         *)
(* It loads the configuration once: the ids it may not use are those of    *)
(* that load and those it has chosen since.  It does not validate what it  *)
(* has written.                                                            *)
(*                                                                         *)
(* A candidate is the revision of the device file that would be written    *)
(* for it: its address, and whatever the probe tells.  Assumed: one        *)
(* discovery at a time, and no other change of the directory meanwhile.    *)
(***************************************************************************)
EXTENDS DevicesDir, Integers, SequencesExt

CONSTANTS
  Found,       \* candidates a scan may find
  Addresses,
  AddressOf,   \* the address of a device file with this revision
  IdsTried,    \* the ids uniqueDeviceID tries for a candidate, in order
  Workers,     \* goroutines that probe, snmp.concurrency of them
  MaxNew       \* max_new_devices_per_cycle

ASSUME DiscoveryAssumption ==
  /\ IsFiniteSet(DeviceIds) /\ IsInjective(FileOf)
  /\ IsFiniteSet(Found) /\ Found \subseteq Revs \ BadRevs
  /\ AddressOf \in [Revs -> Addresses]
  /\ \A r, s \in Found : AddressOf[r] = AddressOf[s] => r = s
  /\ IdsTried \in [Found -> Seq(DeviceIds)]
  /\ \A r \in Found : ToSet(IdsTried[r]) = DeviceIds
  /\ MaxNew \in Nat \ {0}

VARIABLES
  disc,    \* the discovery: where it is, and what it holds
  worker,  \* the index each worker probes, 0 for none
  answer   \* what the probes have put into the channel "results"

pool == <<worker, answer>>
vars == <<dir, cli, disc, pool>>

(* What a probe comes to: a fingerprint a profile matches, one for which   *)
(* none does while exploration is on, or one that is not promoted (no      *)
(* answer, no sysObjectID, no profile).                                    *)
Answers == {"match", "explore", "skip"}

Discovering ==
  [pc : {"load", "read", "probe", "promote"}, apply : BOOLEAN, names : SUBSET Files,
   used : SUBSET DeviceIds,   \* usedIDs
   todo : Seq(Found),         \* candidates that are not known
   next : Nat \ {0},          \* index of the candidate that is next
   promoted : 0..MaxNew]

ASSUME DiscoveringAssumption == None \notin Discovering

Init ==
  /\ InitDir
  /\ disc = None
  /\ worker = [w \in Workers |-> 0]
  /\ answer = <<>>
-----------------------------------------------------------------------------
AtDisc(pc) == disc # None /\ disc.pc = pc
EndDisc    == disc' = None /\ worker' = [w \in Workers |-> 0] /\ answer' = <<>>

(* Of a preview, apply is false. *)
RunDiscovery(apply) ==
  /\ disc = None
  /\ disc' = [pc |-> "load", apply |-> apply, names |-> {}, used |-> {},
              todo |-> <<>>, next |-> 1, promoted |-> 0]
  /\ UNCHANGED <<dir, cli, pool>>

ListFiles ==
  /\ AtDisc("load")
  /\ disc' = [disc EXCEPT !.pc = "read", !.names = Present(dir)]
  /\ UNCHANGED <<dir, cli, pool>>

LoadedIds == {dir[f].id : f \in disc.names}

(* Mutant of Known: devices are compared by id. *)
Known_ById(r) == ToSet(IdsTried[r]) \subseteq LoadedIds

Known(r) == AddressOf[r] \in {AddressOf[dir[f].rev] : f \in disc.names}

(* The scan returns the candidates in the order of their addresses.        *)
(* Bound: there are ids enough for them.                                   *)
Scan ==
  /\ AtDisc("read") /\ Loadable(disc.names)
  /\ \E S \in SUBSET Found :
       LET new == {r \in S : ~Known(r)}
       IN  /\ Cardinality(LoadedIds) + Cardinality(new) <= Cardinality(DeviceIds)
           /\ disc' = [disc EXCEPT !.pc = "probe", !.used = LoadedIds,
                                   !.todo = SetToSeq(new)]
  /\ UNCHANGED <<dir, cli, pool>>

(* The configuration, the profiles, the interface or the scan fails. *)
Fails ==
  /\ AtDisc("read")
  /\ EndDisc
  /\ UNCHANGED <<dir, cli>>
-----------------------------------------------------------------------------
(* probeCandidates *)

(* The main goroutine hands an index over to a worker that waits. *)
Feed(w) ==
  /\ AtDisc("probe") /\ disc.next <= Len(disc.todo) /\ worker[w] = 0
  /\ worker' = [worker EXCEPT ![w] = disc.next]
  /\ disc' = [disc EXCEPT !.next = disc.next + 1]
  /\ UNCHANGED <<dir, cli, answer>>

(* Mutant of Probed: the channel has room for one answer of each worker. *)
Probed_SmallBuffer(w) ==
  /\ worker[w] # 0 /\ Len(answer) < Cardinality(Workers)
  /\ worker' = [worker EXCEPT ![w] = 0]
  /\ \E a \in Answers : answer' = Append(answer, [idx |-> worker[w], what |-> a])
  /\ UNCHANGED <<dir, cli, disc>>

(* The channel has room for every answer: nobody receives from it before   *)
(* all workers have left.                                                  *)
Probed(w) ==
  /\ worker[w] # 0 /\ Len(answer) < Len(disc.todo)
  /\ worker' = [worker EXCEPT ![w] = 0]
  /\ \E a \in Answers : answer' = Append(answer, [idx |-> worker[w], what |-> a])
  /\ UNCHANGED <<dir, cli, disc>>

(* Mutant of PoolEnds: no wg.Wait(). *)
PoolEnds_AtOnce ==
  /\ AtDisc("probe") /\ disc.next > Len(disc.todo)
  /\ disc' = [disc EXCEPT !.pc = "promote", !.next = 1]
  /\ UNCHANGED <<dir, cli, pool>>

(* close(jobs), wg.Wait(), close(results). *)
PoolEnds ==
  /\ AtDisc("probe") /\ disc.next > Len(disc.todo)
  /\ \A w \in Workers : worker[w] = 0
  /\ disc' = [disc EXCEPT !.pc = "promote", !.next = 1]
  /\ UNCHANGED <<dir, cli, pool>>
-----------------------------------------------------------------------------
(* The candidates are promoted in their own order, not in that of the      *)
(* answers.                                                                *)
Candidate == disc.todo[disc.next]
Answered(what) ==
  /\ AtDisc("promote") /\ disc.next <= Len(disc.todo)
  /\ [idx |-> disc.next, what |-> what] \in ToSet(answer)

(* No profile matches, and exploration is on: it asks the device for safe  *)
(* metrics and writes a profile of those it has, which may fail.           *)
Explores == Answered("explore")

(* A profile matches, at once or after the exploration. *)
Promotable ==
  /\ Answered("match") \/ Explores
  /\ disc.apply /\ disc.promoted < MaxNew

(* Mutant of NewId: the ids of this run are not looked at. *)
NewId_OnlyLoaded(r) ==
  LET i == SelectInSeq(IdsTried[r], LAMBDA id : id \notin {dir[f].id : f \in disc.names})
  IN  IdsTried[r][i]

(* uniqueDeviceID *)
NewId(r) ==
  LET i == SelectInSeq(IdsTried[r], LAMBDA id : id \notin disc.used)
  IN  IdsTried[r][i]

(* writePromotedDevice renames a file of its own onto <id>.yml. *)
Promote ==
  LET id == NewId(Candidate)
  IN  /\ Promotable
      /\ dir' = [dir EXCEPT ![FileOf[id]] = [id |-> id, rev |-> Candidate]]
      /\ disc' = [disc EXCEPT !.used = disc.used \union {id}, !.next = disc.next + 1,
                              !.promoted = disc.promoted + 1]
      /\ UNCHANGED <<cli, pool>>

(* The file is not written; the id stays used. *)
PromoteFails ==
  /\ Promotable
  /\ disc' = [disc EXCEPT !.used = disc.used \union {NewId(Candidate)},
                          !.next = disc.next + 1]
  /\ UNCHANGED <<dir, cli, pool>>

(* No profile, the limit is reached, nothing is to be written, or the      *)
(* directory to write to cannot be made, before an id is chosen.           *)
Skip ==
  /\ \/ Answered("skip") \/ Explores \/ Promotable
     \/ Answered("match") /\ (~disc.apply \/ disc.promoted = MaxNew)
  /\ disc' = [disc EXCEPT !.next = disc.next + 1]
  /\ UNCHANGED <<dir, cli, pool>>

(* With the generated profile the profiles do not load. *)
ExplorationBreaks ==
  /\ Explores /\ disc.apply
  /\ EndDisc
  /\ UNCHANGED <<dir, cli>>

Done ==
  /\ AtDisc("promote") /\ disc.next > Len(disc.todo)
  /\ EndDisc
  /\ UNCHANGED <<dir, cli>>

Killed ==
  /\ disc # None
  /\ EndDisc
  /\ UNCHANGED <<dir, cli>>

DiscoveryStep ==
  \/ ListFiles \/ Scan \/ Fails
  \/ \E w \in Workers : Feed(w) \/ Probed(w)
  \/ PoolEnds
  \/ Promote \/ PromoteFails \/ Skip \/ ExplorationBreaks \/ Done

Next == DiscoveryStep \/ Killed \/ \E apply \in BOOLEAN : RunDiscovery(apply)

Spec == Init /\ [][Next]_vars

(* The goroutines run. *)
FairSpec == Spec /\ WF_vars(DiscoveryStep)
-----------------------------------------------------------------------------
TypeOK ==
  /\ TypeOKDir
  /\ disc = None \/ disc \in Discovering
  /\ worker \in [Workers -> Nat]
  /\ answer \in Seq([idx : Nat \ {0}, what : Answers])

DevicesAt(d, addr) == {f \in Present(d) : AddressOf[d[f].rev] = addr}

(* What discovery writes keeps the directory one the agent can load at any *)
(* moment, although it is never validated, and it adds no second device of *)
(* an address: service.go:55-82, promote.go:38-50.                         *)
AddsOnlyNew ==
  [][ /\ Valid(dir')
      /\ \A addr \in Addresses :
           DevicesAt(dir', addr) = {} \/ Cardinality(DevicesAt(dir', addr)) = 1
             \/ DevicesAt(dir', addr) \subseteq DevicesAt(dir, addr) ]_vars

Named(d) == {f \in Present(d) : FileOf[d[f].id] = f}

(* A device whose file has the name of its id, those of this very run      *)
(* included, is never overwritten by another (promote.go:38-85).           *)
NamedDevicesStay == [][\A f \in Named(dir) : dir'[f] = dir[f]]_vars

(* The channel has room for the answer of every worker that has a          *)
(* candidate, although nobody receives; and when the candidates are        *)
(* promoted, in their own order, there is one answer for each, so none is  *)
(* promoted on the zero value of probeResult: service.go:192-227.          *)
EachIsProbedOnce ==
  /\ \A w \in Workers : worker[w] # 0 => Len(answer) < Len(disc.todo)
  /\ AtDisc("promote") => \A i \in 1 .. Len(disc.todo) :
       Cardinality({k \in DOMAIN answer : answer[k].idx = i}) = 1

(* A discovery that is not killed ends: feeder, workers and receiver do    *)
(* not wait for one another for ever (service.go:192-227).                 *)
DiscoveryEnds == [](disc # None => <>(disc = None))
=============================================================================

--------------------------- MODULE RouteInventory ---------------------------
(***************************************************************************)
(* The collector of routes (internal/routes/collector.go) within the       *)
(* cycles of the agent.  It visits the targets one after another, compares *)
(* what it read with ChangeCache, its memory of the last fingerprints, and *)
(* marks a snapshot that differs.  The cycle ends with the snapshots in the*)
(* queue or, when the processor or EnqueueBatch fails, without them; the   *)
(* cache has changed in either case.  A restart and a reload make a new    *)
(* collector with an empty cache.                                          *)
(*                                                                         *)
(* Meanwhile the routes of a device change, between reads and within one,  *)
(* and walks fail.                                                         *)
(***************************************************************************)
EXTENDS SiteTopology, Functions

CONSTANTS
  Targets,     \* the devices with SNMP, in order
  Tables,      \* the tables each device may have: [cidr, legacy] sets of rows
  Absent,      \* of a device without an entry in the cache or without a snapshot
  maxSnapshotRoutes

Devices == Range(Targets)

(* No device is a target twice, and the rows a device has are complete. *)
ASSUME InventoryAssumption ==
  /\ Targets \in Seq(Devices) /\ IsInjective(Targets)
  /\ \A d \in Devices : Tables[d] # {}
  /\ \A d \in Devices : \A t \in Tables[d] : IsTable(t.cidr) /\ IsTable(t.legacy)
  /\ maxSnapshotRoutes \in Nat \ {0}

VARIABLES
  table,   \* the route tables of the devices, when last looked at
  state,   \* ChangeCache.state
  phase,   \* "wait", "collect" or "store"
  visited, \* how many targets this cycle has visited
  inbox,   \* the snapshots of this cycle
  queued,  \* history: the last snapshot of each device that went to the queue
  gap      \* history: devices with a snapshot that was lost since

vars == <<table, state, phase, visited, inbox, queued, gap>>

Nothing == [d \in Devices |-> Absent]

Init ==
  /\ table \in {f \in [Devices -> UNION {Tables[d] : d \in Devices}] :
                  \A d \in Devices : f[d] \in Tables[d]}
  /\ state = Nothing
  /\ phase = "wait" /\ visited = 0 /\ inbox = {}
  /\ queued = Nothing /\ gap = {}
-----------------------------------------------------------------------------
Walks == {"cidr", "legacy"}

(* SNMPProvider.Collect: the first table that answers with a row.  The tables
   of the device are old for the first n of the columns of both and new for the
   rest, and the walks in failed fail. *)
ReadRows(old, new, n, failed) ==
  LET rows(name, m) ==
        IF name \in failed
          THEN {}
          ELSE finalizeRouteRows(WalkColumns(old[name], new[name], m))
      cidr == rows("cidr", n)
  IN  IF cidr # {} THEN cidr ELSE rows("legacy", n - Columns)

(* Mutant of Update: a fingerprint is kept only when it is the first one. *)
Update_First(d, fingerprint) ==
  state' = [state EXCEPT ![d] = IF @ = Absent THEN fingerprint ELSE @]

(* ChangeCache.Update *)
Update(d, fingerprint) == state' = [state EXCEPT ![d] = fingerprint]

(* Mutant of Changed: the first snapshot of a device is marked. *)
Changed_First(d, fingerprint) == state[d] # fingerprint

Changed(d, fingerprint) == state[d] # Absent /\ state[d] # fingerprint

snapshotJSON(routes) ==
  IF Len(routes) > maxSnapshotRoutes THEN SubSeq(routes, 1, maxSnapshotRoutes) ELSE routes

(* Where the first default route is, 0 if there is none. *)
firstDefaultRoute(routes) ==
  LET defaults == {i \in DOMAIN routes : IsDefault(routes[i])}
  IN  IF defaults = {} THEN 0 ELSE CHOOSE i \in defaults : \A j \in defaults : i <= j

(* NormalizeSnapshot on the summary of a snapshot; routes and whole (the table
   of a read that nothing disturbed) are history. *)
Snapshot(d, routes, whole) ==
  [device    |-> d,
   supported |-> routes # <<>>,
   default   |-> firstDefaultRoute(routes),
   changed   |-> Changed(d, Fingerprint(routes)),
   shown     |-> snapshotJSON(routes),
   routes    |-> routes,
   whole     |-> whole]

BeginCycle ==
  /\ phase = "wait"
  /\ phase' = "collect" /\ visited' = 0 /\ inbox' = {}
  /\ UNCHANGED <<table, state, queued, gap>>

(* What a read of device d may give when its table was old at the last look at
   it: its routes, its table now, and that table again if nothing disturbed the
   read, that is, if it changed before the first column, or not at all, and no
   walk failed. *)
Reads ==
  [d \in Devices |-> [old \in Tables[d] |->
     {[routes |-> resolveRoutes(ReadRows(old, new, n, failed)),
       table  |-> new,
       whole  |-> IF failed = {} /\ (n = 0 \/ new = old) THEN new ELSE Absent] :
         new \in Tables[d], n \in 0 .. 2 * Columns - 1, failed \in SUBSET Walks}]]

(* What is remembered of a snapshot. *)
Kept(s) == [routes |-> s.routes, changed |-> s.changed, whole |-> s.whole]

(* Absent is neither the routes of a read nor what is remembered of them. *)
ASSUME AbsentAssumption ==
  \A d \in Devices : \A old \in Tables[d] : \A read \in Reads[d][old] :
    /\ read.routes # Absent
    /\ \A changed \in BOOLEAN : Absent # [routes  |-> read.routes,
                                         changed |-> changed,
                                         whole   |-> read.whole]

CollectTarget(d, read) ==
  /\ table' = [table EXCEPT ![d] = read.table]
  /\ Update(d, Fingerprint(read.routes))
  /\ inbox' = inbox \union {Snapshot(d, read.routes, read.whole)}

CollectNext ==
  /\ phase = "collect" /\ visited < Len(Targets)
  /\ LET d == Targets[visited + 1]
     IN  \E read \in Reads[d][table[d]] : CollectTarget(d, read)
  /\ visited' = visited + 1
  /\ UNCHANGED <<phase, queued, gap>>

EndCollect ==
  /\ phase = "collect" /\ visited = Len(Targets)
  /\ phase' = "store"
  /\ UNCHANGED <<table, state, visited, inbox, queued, gap>>

EnqueueBatch ==
  /\ phase = "store"
  /\ phase' = "wait"
  /\ queued' = [d \in Devices |-> Kept(CHOOSE s \in inbox : s.device = d)]
  /\ gap' = {}
  /\ inbox' = {} /\ visited' = 0
  /\ UNCHANGED <<table, state>>

(* The processor fails, or the database.  A collector that fails takes nothing from
   the others: its error counts only in a cycle without any sample. *)
CycleFails ==
  /\ phase = "store"
  /\ phase' = "wait"
  /\ gap' = Devices
  /\ inbox' = {} /\ visited' = 0
  /\ UNCHANGED <<table, state, queued>>

(* Another process, or a pipeline built anew between two cycles. *)
NewCollector ==
  /\ state' = Nothing
  /\ phase' = "wait" /\ visited' = 0 /\ inbox' = {}
  /\ queued' = Nothing /\ gap' = {}
  /\ UNCHANGED table
-----------------------------------------------------------------------------
Cycle ==
  \/ BeginCycle \/ CollectNext \/ EndCollect \/ EnqueueBatch \/ CycleFails

Next == Cycle \/ NewCollector

Spec == Init /\ [][Next]_vars

(* Weak fairness of the main loop: some step of it, all of which change phase or
   visited, is enabled in every state. *)
FairSpec == Spec /\ []<><<phase' # phase \/ visited' # visited>>_vars
-----------------------------------------------------------------------------
(* Properties *)

(* A mark tells the truth to whoever reads the queue: unless a cycle in between
   was lost, a snapshot is marked if and only if it differs from the one stored
   before it, in any route, however many there are; the first one of a collector
   is not marked: collector.go:37-39, fingerprint.go:20-31. *)
MarkTellsTruth ==
  phase = "store" =>
    \A s \in inbox :
      LET before == queued[s.device]
      IN  s.device \notin gap =>
            s.changed = (before # Absent /\ s.routes # before.routes)

(* The table a device answers with. *)
Answered(t) == IF t.cidr # {} THEN t.cidr ELSE t.legacy

(* "the resolver finds the most specific connected route that contains that
   next-hop" (docs/ROUTE_INVENTORY.md), and the snapshot has the default route
   however many others there are: resolver.go:44-80, normalizer.go:63-82. *)
SnapshotIsTrue ==
  \A s \in inbox :
    /\ s.whole # Absent =>
         LET rows == Answered(s.whole)
         IN  /\ Len(s.routes) = Cardinality(rows)
             /\ \A row \in rows : \E i \in DOMAIN s.routes, if \in InterfacesOf(rows, row) :
                  s.routes[i] = <<row.net, row.len, row.hop, if, row.metric, row.type>>
    /\ (\E i \in DOMAIN s.routes : IsDefault(s.routes[i])) =>
         \E i \in DOMAIN s.shown : s.default # 0 /\ s.shown[i] = s.routes[s.default]

(* The snapshots in the order of the targets, as one batch would have them. *)
InOrder == [i \in DOMAIN Targets |-> CHOOSE s \in inbox : s.device = Targets[i]]

(* The devices of other snapshots attached to the subnet of an address. *)
AttachedTo(address, snaps) ==
  {s.device : s \in {t \in snaps : t.supported /\ \E row \in Answered(t.whole) :
                        row.type = connected /\ PrefixContains(row.net, row.len, address)}}

(* The topology of a cycle is a graph, and when each device was read undisturbed
   or not at all, and its snapshot was not cut, the default route of a device
   leads to another device on the subnet of the next hop if there is one, in
   whatever order they were visited, and else out of the site:
   topology_builder.go:14-72. *)
GatewaysAreFound ==
  phase = "store" =>
    LET t == BuildSiteTopology(InOrder)
    IN  /\ \A e \in t.edges : e[1] \in t.nodes /\ e[2] \in t.nodes
        /\ (\A s \in inbox : s.supported => s.whole # Absent /\ s.shown = s.routes) =>
             \A s \in {u \in inbox : u.supported} :
               \A row \in {r \in Answered(s.whole) : r.net = 0 /\ r.len = 0
                                                    /\ r.hop \notin {NoHop, 0}} :
                 LET owners == AttachedTo(row.hop, inbox \ {s})
                     leads(n) == <<DeviceNode(s.device), n>> \in t.edges
                 IN  IF owners = {} THEN leads(ExternalNode(row.hop))
                     ELSE /\ \E d \in owners : leads(DeviceNode(d))
                          /\ ~leads(ExternalNode(row.hop))

(* Once the devices and the cycles are left alone, the marks end and the queue
   has the routes of every device. *)
Disturbance ==
  \/ NewCollector \/ CycleFails
  \/ table' # table
  \/ visited' = visited + 1 /\ \E s \in inbox' \ inbox : s.whole = Absent

MarksEnd ==
  <>[][~Disturbance]_vars =>
    \A d \in Devices : <>[](/\ queued[d] # Absent
                            /\ ~queued[d].changed
                            /\ queued[d].whole = table[d])
=============================================================================

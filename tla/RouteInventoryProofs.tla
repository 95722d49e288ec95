------------------------ MODULE RouteInventoryProofs ------------------------
(***************************************************************************)
(* The safety properties of RouteInventory, for any number of devices, any *)
(* tables and any width of the addresses.                                  *)
(*                                                                         *)
(* MarkInv compares the two memories of the last routes, the cache of the  *)
(* collector and the queue: they are the same for a device this cycle has  *)
(* not visited yet, and for one it has visited the cache is ahead by the   *)
(* snapshot in the inbox.  The truth of a snapshot follows from lemmas     *)
(* about the operators of RouteTable, and that of the topology from the    *)
(* truth of the snapshots.                                                 *)
(***************************************************************************)
EXTENDS RouteInventory, FiniteSetTheorems, SequenceTheorems, WellFoundedInduction, TLAPS

Visited == {Targets[i] : i \in 1 .. visited}

(* A snapshot of what some read gave. *)
IsSnapshot(s) ==
  /\ \E old \in Tables[s.device] : \E read \in Reads[s.device][old] :
       s.routes = read.routes /\ s.whole = read.whole
  /\ s.changed \in BOOLEAN

Phases ==
  /\ phase \in {"wait", "collect", "store"}
  /\ visited \in 0 .. Len(Targets)
  /\ phase = "wait" => visited = 0
  /\ phase = "store" => visited = Len(Targets)

Domains ==
  /\ table \in [Devices -> UNION {Tables[d] : d \in Devices}]
  /\ \A d \in Devices : table[d] \in Tables[d]
  /\ DOMAIN state = Devices /\ DOMAIN queued = Devices

(* One snapshot of each device visited, and of no other. *)
Inbox ==
  /\ \A s \in inbox : s.device \in Visited /\ IsSnapshot(s)
  /\ \A d \in Visited : \E s \in inbox : s.device = d
  /\ \A s, t \in inbox : s.device = t.device => s = t

Agree(d) ==
  /\ state[d] = Absent <=> queued[d] = Absent
  /\ queued[d] # Absent => state[d] = queued[d].routes

(* The cache has what the queue has, or what the inbox has. *)
Memories ==
  /\ \A d \in Devices \ Visited : d \notin gap => Agree(d)
  /\ \A s \in inbox : state[s.device] = s.routes

Marks ==
  \A s \in inbox :
    s.device \notin gap =>
      (s.changed <=> /\ queued[s.device] # Absent
                     /\ s.routes # queued[s.device].routes)

MarkInv == Phases /\ Domains /\ Inbox /\ Memories /\ Marks

(* What a read leaves the device with is one of its tables. *)
LEMMA ReadKeepsTables ==
  ASSUME NEW d \in Devices, NEW old \in Tables[d], NEW read \in Reads[d][old]
  PROVE  read.table \in Tables[d]
  BY DEF Reads

LEMMA DevicesVisited ==
  ASSUME Phases
  PROVE  /\ Visited \subseteq Devices
         /\ visited = Len(Targets) => Visited = Devices
         /\ visited < Len(Targets) =>
              /\ Targets[visited + 1] \in Devices
              /\ Targets[visited + 1] \notin Visited
  BY InventoryAssumption DEF Phases, Visited, Devices, Range, IsInjective

LEMMA MarkInit == Init => MarkInv
<1> SUFFICES ASSUME Init PROVE MarkInv
  OBVIOUS
<1>1. Phases
  BY InventoryAssumption DEF Init, Phases
<1>2. Visited = {}
  BY DEF Init, Visited
<1>3. Domains
  BY DEF Init, Domains, Nothing
<1>4. Inbox /\ Marks
  BY <1>2 DEF Init, Inbox, Marks
<1>5. Memories
  BY <1>2 DEF Init, Memories, Agree, Nothing
<1> QED
  BY <1>1, <1>3, <1>4, <1>5 DEF MarkInv

(* The one step that marks. *)
LEMMA CollectNextMarks == MarkInv /\ CollectNext => MarkInv'
<1> SUFFICES ASSUME MarkInv, CollectNext PROVE MarkInv'
  OBVIOUS
<1> DEFINE d == Targets[visited + 1]
<1>1. Phases /\ Domains /\ Inbox /\ Memories /\ Marks
  BY DEF MarkInv
<1>2. PICK read \in Reads[d][table[d]] : CollectTarget(d, read)
  BY DEF CollectNext
<1>3. d \in Devices /\ d \notin Visited /\ Visited \subseteq Devices
  BY <1>1, DevicesVisited DEF CollectNext
<1>4. visited' = visited + 1 /\ phase' = phase /\ phase = "collect"
      /\ queued' = queued /\ gap' = gap /\ visited < Len(Targets)
  BY DEF CollectNext
<1> DEFINE s == Snapshot(d, read.routes, read.whole)
<1>5. /\ table' = [table EXCEPT ![d] = read.table]
      /\ state' = [state EXCEPT ![d] = read.routes]
      /\ inbox' = inbox \union {s}
  BY <1>2 DEF CollectTarget, Update, Fingerprint
<1>6. /\ s.device = d /\ s.routes = read.routes /\ s.whole = read.whole
      /\ s.changed = (state[d] # Absent /\ state[d] # read.routes)
  BY DEF Snapshot, Changed, Fingerprint
<1>7. Visited' = Visited \union {d}
  BY <1>1, <1>4 DEF Visited, Phases
<1> HIDE DEF s, d
<1>8. Phases'
  BY <1>1, <1>4, InventoryAssumption DEF Phases
<1>9. Domains'
  <2>1. table[d] \in Tables[d] /\ read.table \in Tables[d]
    BY <1>1, <1>2, <1>3, ReadKeepsTables DEF Domains
  <2> QED
    BY <1>1, <1>3, <1>4, <1>5, <2>1, SMTT(30) DEF Domains
<1>10. Inbox'
  <2>1. IsSnapshot(s)
    <3>1. table[d] \in Tables[d]
      BY <1>1, <1>3 DEF Domains
    <3> QED
      BY <1>2, <1>6, <3>1 DEF IsSnapshot
  <2>2. \A t \in inbox : t.device # d
    BY <1>1, <1>3 DEF Inbox
  <2>3. \A t \in inbox : IsSnapshot(t) /\ t.device \in Visited
    BY <1>1 DEF Inbox
  <2>4. \A t \in inbox' : t.device \in Visited' /\ IsSnapshot(t)'
    BY <1>5, <1>6, <1>7, <2>1, <2>3 DEF IsSnapshot
  <2>5. \A e \in Visited' : \E t \in inbox' : t.device = e
    BY <1>1, <1>5, <1>6, <1>7 DEF Inbox
  <2>6. \A t, u \in inbox' : t.device = u.device => t = u
    BY <1>1, <1>5, <1>6, <2>2 DEF Inbox
  <2> QED
    BY <2>4, <2>5, <2>6 DEF Inbox
<1>11. Memories'
  <2>1. \A e \in Devices \ Visited' : e \notin gap' => Agree(e)'
    BY <1>1, <1>4, <1>5, <1>7 DEF Memories, Agree, Domains
  <2>2. \A t \in inbox' : state'[t.device] = t.routes
    BY <1>1, <1>3, <1>5, <1>6 DEF Memories, Inbox, Domains
  <2> QED
    BY <2>1, <2>2 DEF Memories
<1>12. Marks'
  <2>1. d \notin gap => Agree(d)
    BY <1>1, <1>3 DEF Memories
  <2>2. d \notin gap =>
          (s.changed <=> queued[d] # Absent /\ s.routes # queued[d].routes)
    BY <1>6, <2>1 DEF Agree
  <2> QED
    BY <1>1, <1>4, <1>5, <1>6, <2>2 DEF Marks
<1> QED
  BY <1>8, <1>9, <1>10, <1>11, <1>12 DEF MarkInv

(* The queue gets what the cache has. *)
LEMMA EnqueueMarks == MarkInv /\ EnqueueBatch => MarkInv'
<1> SUFFICES ASSUME MarkInv, EnqueueBatch PROVE MarkInv'
  OBVIOUS
<1>1. Phases /\ Domains /\ Inbox /\ Memories /\ Marks
  BY DEF MarkInv
<1>2. Visited = Devices
  BY <1>1, DevicesVisited DEF EnqueueBatch, Phases
<1>3. /\ phase' = "wait" /\ visited' = 0 /\ inbox' = {} /\ gap' = {}
      /\ table' = table /\ state' = state
      /\ queued' = [d \in Devices |-> Kept(CHOOSE s \in inbox : s.device = d)]
  BY DEF EnqueueBatch
<1>4. Visited' = {}
  BY <1>3 DEF Visited
<1>5. ASSUME NEW d \in Devices PROVE Agree(d)'
  <2>1. PICK s \in inbox : s.device = d
    BY <1>1, <1>2 DEF Inbox
  <2>2. s = CHOOSE t \in inbox : t.device = d
    BY <1>1, <2>1 DEF Inbox
  <2>3. queued'[d] = [routes |-> s.routes, changed |-> s.changed, whole |-> s.whole]
    BY <1>3, <2>2 DEF Kept
  <2>4. PICK old \in Tables[d] : \E read \in Reads[d][old] :
          s.routes = read.routes /\ s.whole = read.whole
    BY <1>1, <2>1 DEF Inbox, IsSnapshot
  <2>5. s.changed \in BOOLEAN
    BY <1>1, <2>1 DEF Inbox, IsSnapshot
  <2>6. s.routes # Absent /\ queued'[d] # Absent
    BY <2>3, <2>4, <2>5, AbsentAssumption
  <2>7. state'[d] = s.routes
    BY <1>1, <1>3, <2>1 DEF Memories
  <2> QED
    BY <2>3, <2>6, <2>7 DEF Agree
<1>6. Memories'
  BY <1>3, <1>5 DEF Memories
<1>7. Phases'
  BY <1>3, InventoryAssumption DEF Phases
<1>8. Domains'
  BY <1>1, <1>3 DEF Domains
<1>9. Inbox' /\ Marks'
  BY <1>3, <1>4 DEF Inbox, Marks
<1> QED
  BY <1>6, <1>7, <1>8, <1>9 DEF MarkInv

LEMMA MarkStep == MarkInv /\ [Next]_vars => MarkInv'
<1> SUFFICES ASSUME MarkInv, [Next]_vars PROVE MarkInv'
  OBVIOUS
<1>1. Phases /\ Domains /\ Inbox /\ Memories /\ Marks
  BY DEF MarkInv
<1>2. CASE BeginCycle
  <2>1. visited = 0 /\ phase = "wait"
    BY <1>1, <1>2 DEF BeginCycle, Phases
  <2>2. Visited = {} /\ Visited' = {}
    BY <1>2, <2>1 DEF BeginCycle, Visited
  <2>3. Phases' /\ Domains'
    BY <1>1, <1>2, InventoryAssumption DEF BeginCycle, Phases, Domains
  <2>4. Inbox' /\ Marks'
    BY <1>2, <2>2 DEF BeginCycle, Inbox, Marks
  <2>5. Memories'
    BY <1>1, <1>2, <2>2 DEF BeginCycle, Memories, Agree
  <2> QED
    BY <2>3, <2>4, <2>5 DEF MarkInv
<1>3. CASE CollectNext
  BY <1>3, CollectNextMarks
<1>4. CASE EndCollect
  <2>1. Phases' /\ Domains'
    BY <1>1, <1>4 DEF EndCollect, Phases, Domains
  <2>2. Visited' = Visited
    BY <1>4 DEF EndCollect, Visited
  <2>3. Inbox' /\ Memories' /\ Marks'
    BY <1>1, <1>4, <2>2 DEF EndCollect, Inbox, IsSnapshot, Memories, Agree, Marks
  <2> QED
    BY <2>1, <2>3 DEF MarkInv
<1>5. CASE EnqueueBatch
  BY <1>5, EnqueueMarks
<1>6. CASE CycleFails
  <2>1. Visited' = {}
    BY <1>6 DEF CycleFails, Visited
  <2>2. Phases' /\ Domains'
    BY <1>1, <1>6, InventoryAssumption DEF CycleFails, Phases, Domains
  <2>3. Inbox' /\ Memories' /\ Marks'
    BY <1>6, <2>1 DEF CycleFails, Inbox, Memories, Marks
  <2> QED
    BY <2>2, <2>3 DEF MarkInv
<1>7. CASE NewCollector
  <2>1. Visited' = {}
    BY <1>7 DEF NewCollector, Visited
  <2>2. Phases' /\ Domains'
    BY <1>1, <1>7, InventoryAssumption DEF NewCollector, Phases, Domains, Nothing
  <2>3. Inbox' /\ Marks'
    BY <1>7, <2>1 DEF NewCollector, Inbox, Marks
  <2>4. Memories'
    BY <1>7, <2>1 DEF NewCollector, Memories, Agree, Nothing
  <2> QED
    BY <2>2, <2>3, <2>4 DEF MarkInv
<1>8. CASE UNCHANGED vars
  BY <1>1, <1>8 DEF vars, MarkInv, Phases, Domains, Visited, Inbox, IsSnapshot, Memories,
                    Agree, Marks
<1> QED
  BY <1>2, <1>3, <1>4, <1>5, <1>6, <1>7, <1>8 DEF Next, Cycle

(* In every reachable state the inbox has one snapshot of each device visited,
   and the cache is that snapshot, or what the queue has. *)
THEOREM MarkInvariant == Spec => []MarkInv
  BY MarkInit, MarkStep, PTL DEF Spec

(* A snapshot is marked if and only if it differs from the one stored before it,
   unless a cycle in between was lost: collector.go:37-39, fingerprint.go:20-31. *)
THEOREM MarksTellTruth == Spec => []MarkTellsTruth
<1>1. MarkInv => MarkTellsTruth
  <2> SUFFICES ASSUME MarkInv, NEW s \in inbox, s.device \notin gap
               PROVE  s.changed = (queued[s.device] # Absent
                                    /\ s.routes # queued[s.device].routes)
    BY DEF MarkTellsTruth
  <2>1. s.changed \in BOOLEAN
    BY DEF MarkInv, Inbox, IsSnapshot
  <2>2. s.changed <=> queued[s.device] # Absent /\ s.routes # queued[s.device].routes
    BY DEF MarkInv, Marks
  <2> QED
    BY <2>1, <2>2
<1> QED
  BY <1>1, MarkInvariant, PTL
-----------------------------------------------------------------------------
(* What walks and resolution make of a table. *)

LEMMA LeastNatural ==
  ASSUME NEW S \in SUBSET Nat, S # {}
  PROVE  \E m \in S : \A k \in S : m <= k
<1>1. PICK m \in S : \A k \in S : <<k, m>> \notin OpToRel(<, Nat)
  BY WFMin, NatLessThanWellFounded, Zenon
<1>2. \A k \in S : ~(k < m)
  BY <1>1, Zenon DEF OpToRel
<1> QED
  BY <1>2

(* A row is what its columns say: a walk of a table at rest returns the table. *)
LEMMA WalkAtRest ==
  ASSUME NEW T, IsTable(T), NEW old, NEW n \in Int, old = T \/ n <= 0
  PROVE  WalkColumns(old, T, n) = T
<1> DEFINE read(i) == IF i <= n THEN old ELSE T
           cell(i, key) == RowOf(read(i), key)
           copy(key) == [key |-> key, net |-> cell(1, key).net, len |-> cell(2, key).len,
                         hop |-> cell(3, key).hop, if |-> cell(4, key).if,
                         type |-> cell(5, key).type, metric |-> cell(6, key).metric]
<1>1. \A i \in 1 .. 6 : read(i) = T
  OBVIOUS
<1>2. \A key : /\ cell(1, key) = RowOf(T, key) /\ cell(2, key) = RowOf(T, key)
               /\ cell(3, key) = RowOf(T, key) /\ cell(4, key) = RowOf(T, key)
               /\ cell(5, key) = RowOf(T, key) /\ cell(6, key) = RowOf(T, key)
  BY <1>1
<1>3. UNION {Keys(read(i)) : i \in 1 .. Columns} = Keys(T)
  BY <1>1 DEF Columns
<1>4. WalkColumns(old, T, n) = {copy(key) : key \in UNION {Keys(read(i)) : i \in 1 .. Columns}}
  BY DEF WalkColumns
<1>5. ASSUME NEW row \in T PROVE copy(row.key) = row
  <2>1. row.key \in Keys(T)
    BY DEF Keys
  <2>2. RowOf(T, row.key) = row
    BY <2>1 DEF RowOf, IsTable
  <2>3. row \in RouteRow
    BY DEF IsTable
  <2>4. copy(row.key) = [key |-> row.key, net |-> row.net, len |-> row.len, hop |-> row.hop,
                         if |-> row.if, type |-> row.type, metric |-> row.metric]
    BY <1>2, <2>2
  <2> HIDE DEF copy
  <2> QED
    BY <2>3, <2>4 DEF RouteRow
<1> HIDE DEF copy
<1>6. {copy(key) : key \in Keys(T)} = T
  BY <1>5 DEF Keys
<1> QED
  BY <1>3, <1>4, <1>6

LEMMA FinalizeAtRest ==
  ASSUME NEW T, IsTable(T)
  PROVE  finalizeRouteRows(T) = T
<1> DEFINE full(row) == [row EXCEPT !.len = IF @ = NoHop THEN Width ELSE @]
<1>1. \A row \in T : row.net # NoHop /\ row.len # NoHop /\ row \in RouteRow
  BY WidthAssumption DEF IsTable, RouteRow, NoHop
<1>2. \A row \in T : full(row) = row
  BY <1>1 DEF RouteRow
<1> HIDE DEF full
<1>3. {row \in T : row.net # NoHop} = T
  BY <1>1
<1>4. finalizeRouteRows(T) = {full(row) : row \in {r \in T : r.net # NoHop}}
  BY DEF finalizeRouteRows, full
<1> QED
  BY <1>2, <1>3, <1>4

(* What may stand in a row before finalizeRouteRows. *)
RawRow == [key : Nat, net : Nat \union {NoHop}, len : (0 .. Width) \union {NoHop},
           hop : Nat \union {NoHop}, if : Nat, type : Nat, metric : Nat]

LEMMA RowOfRaw ==
  ASSUME NEW T, IsTable(T), NEW key \in Nat
  PROVE  RowOf(T, key) \in RawRow
<1>1. CASE key \in Keys(T)
  <2>1. \E row \in T : row.key = key
    BY <1>1 DEF Keys
  <2>2. RowOf(T, key) \in T
    BY <1>1, <2>1 DEF RowOf
  <2>3. RowOf(T, key) \in RouteRow
    BY <2>2 DEF IsTable
  <2> QED
    BY <2>3 DEF RouteRow, RawRow
<1>2. CASE key \notin Keys(T)
  BY <1>2 DEF RowOf, rawRouteRow, RawRow, NoHop
<1> QED
  BY <1>1, <1>2

LEMMA ImageIsFinite ==
  ASSUME NEW S, IsFiniteSet(S), NEW f, DOMAIN f = S, f = [x \in S |-> f[x]]
  PROVE  IsFiniteSet({f[x] : x \in S})
<1> DEFINE I == {f[x] : x \in S}
<1>1. f \in Surjection(S, I)
  BY DEF Surjection
<1> QED
  BY <1>1, FS_Surjection

LEMMA KeysAreFinite ==
  ASSUME NEW T, IsTable(T)
  PROVE  IsFiniteSet(Keys(T)) /\ Keys(T) \subseteq Nat
<1> DEFINE f == [row \in T |-> row.key]
<1>0. IsFiniteSet(T)
  BY DEF IsTable
<1>1. IsFiniteSet({f[row] : row \in T})
  BY <1>0, ImageIsFinite
<1>2. {f[row] : row \in T} = Keys(T)
  BY DEF Keys
<1>3. Keys(T) \subseteq Nat
  BY DEF Keys, IsTable, RouteRow
<1> QED
  BY <1>1, <1>2, <1>3

(* What a walk returns is a table, however the device changed its own meanwhile. *)
LEMMA WalkedIsTable ==
  ASSUME NEW old, IsTable(old), NEW new, IsTable(new), NEW n \in Int
  PROVE  IsTable(finalizeRouteRows(WalkColumns(old, new, n)))
<1> DEFINE read(i) == IF i <= n THEN old ELSE new
           cell(i, key) == RowOf(read(i), key)
           copy(key) == [key |-> key, net |-> cell(1, key).net, len |-> cell(2, key).len,
                         hop |-> cell(3, key).hop, if |-> cell(4, key).if,
                         type |-> cell(5, key).type, metric |-> cell(6, key).metric]
           full(row) == [row EXCEPT !.len = IF @ = NoHop THEN Width ELSE @]
           keys == UNION {Keys(read(i)) : i \in 1 .. Columns}
           W == WalkColumns(old, new, n)
           F == finalizeRouteRows(W)
<1>1. W = {copy(key) : key \in keys}
  BY DEF WalkColumns
<1>2. F = {full(row) : row \in {r \in W : r.net # NoHop}}
  BY DEF finalizeRouteRows
<1>3. IsFiniteSet(keys) /\ keys \subseteq Nat
  <2>1. keys \subseteq Keys(old) \union Keys(new)
    OBVIOUS
  <2>2. IsFiniteSet(Keys(old) \union Keys(new))
    BY KeysAreFinite, FS_Union
  <2>3. IsFiniteSet(keys)
    BY <2>1, <2>2, FS_Subset
  <2> QED
    BY <2>1, <2>3, KeysAreFinite
<1>4. \A key \in keys : copy(key) \in RawRow /\ copy(key).key = key
  <2> TAKE key \in keys
  <2>1. \A i \in 1 .. 6 : cell(i, key) \in RawRow
    BY <1>3, RowOfRaw
  <2> HIDE DEF cell
  <2> QED
    BY <1>3, <2>1 DEF RawRow
<1>5. \A row \in RawRow : full(row).key = row.key
                          /\ (row.net # NoHop => full(row) \in RouteRow)
  <2> TAKE row \in RawRow
  <2>1. full(row) = [key |-> row.key, net |-> row.net,
                     len |-> IF row.len = NoHop THEN Width ELSE row.len,
                     hop |-> row.hop, if |-> row.if, type |-> row.type,
                     metric |-> row.metric]
    BY DEF RawRow
  <2> HIDE DEF full
  <2> QED
    BY <2>1, WidthAssumption DEF RawRow, RouteRow
<1> HIDE DEF copy, full
<1>6. IsFiniteSet(F)
  <2> DEFINE g == [key \in keys |-> full(copy(key))]
  <2>1. IsFiniteSet({g[key] : key \in keys})
    BY <1>3, ImageIsFinite
  <2>2. F \subseteq {g[key] : key \in keys}
    BY <1>1, <1>2
  <2> QED
    BY <2>1, <2>2, FS_Subset
<1>7. F \subseteq RouteRow
  BY <1>1, <1>2, <1>4, <1>5
<1>8. \A a, b \in F : a.key = b.key => a = b
  BY <1>1, <1>2, <1>4, <1>5
<1> QED
  BY <1>6, <1>7, <1>8 DEF IsTable

(* The first connected route that is tried is a most specific one. *)
LEMMA ResolvedIsMostSpecific ==
  ASSUME NEW rows, IsTable(rows), NEW row \in rows
  PROVE  /\ ResolvedInterface(row, rows) \in InterfacesOf(rows, row)
         /\ ResolvedInterface(row, rows) \in Nat
<1> DEFINE fits == {c \in rows : /\ c.type = connected /\ c.if # 0
                                 /\ PrefixContains(c.net, c.len, row.hop)}
           best == {d \in fits : \A e \in fits : e.len <= d.len}
<1>1. \A c \in rows : c.key \in Nat /\ c.len \in 0 .. Width /\ c.if \in Nat
  BY DEF IsTable, RouteRow
<1>2. MostSpecific(rows, row) = {c.if : c \in best}
  BY DEF MostSpecific
<1>3. ASSUME fits # {}
      PROVE  \E c \in best : \A e \in fits \ {c} : TriedBefore(c, e)
  <2> DEFINE gaps == {Width - c.len : c \in fits}
             keys == {c.key : c \in best}
  <2>1. gaps \in SUBSET Nat /\ gaps # {}
    BY <1>1, <1>3, WidthAssumption
  <2>2. PICK g \in gaps : \A k \in gaps : g <= k
    BY <2>1, LeastNatural
  <2>3. PICK d \in fits : g = Width - d.len
    BY <2>2
  <2>4. \A e \in fits : Width - e.len \in gaps
    OBVIOUS
  <2>5. d \in best
    <3>1. \A e \in fits : Width - d.len <= Width - e.len
      BY <2>2, <2>3, <2>4
    <3>2. \A e \in fits : e.len \in Int
      BY <1>1
    <3> HIDE DEF fits
    <3> QED
      BY <3>1, <3>2, WidthAssumption
  <2>6. keys \in SUBSET Nat /\ keys # {}
    BY <1>1, <2>5
  <2>7. PICK k \in keys : \A j \in keys : k <= j
    BY <2>6, LeastNatural
  <2>8. PICK c \in best : k = c.key
    BY <2>7
  <2>9. ASSUME NEW e \in fits \ {c} PROVE TriedBefore(c, e)
    <3>1. e.len <= c.len
      OBVIOUS
    <3>2. CASE e.len < c.len
      BY <1>1, <3>2 DEF TriedBefore
    <3>3. CASE e.len = c.len
      <4>1. e \in best
        BY <3>3
      <4>2. c.key <= e.key
        BY <2>7, <2>8, <4>1
      <4>3. c.key # e.key
        BY DEF IsTable
      <4> QED
        BY <1>1, <3>3, <4>2, <4>3 DEF TriedBefore
    <3> QED
      BY <1>1, <3>1, <3>2, <3>3
  <2> QED
    BY <2>8, <2>9
<1>4. CASE row.if # 0 \/ row.hop \in {NoHop, 0} \/ fits = {}
  <2>1. ResolvedInterface(row, rows) = row.if
    BY <1>4 DEF ResolvedInterface
  <2>2. fits = {} => best = {}
    OBVIOUS
  <2>3. InterfacesOf(rows, row) = {row.if}
    BY <1>2, <1>4, <2>2 DEF InterfacesOf
  <2> QED
    BY <1>1, <2>1, <2>3
<1>5. CASE ~(row.if # 0 \/ row.hop \in {NoHop, 0} \/ fits = {})
  <2> DEFINE c == CHOOSE x \in fits : \A e \in fits \ {x} : TriedBefore(x, e)
  <2>1. ResolvedInterface(row, rows) = c.if
    BY <1>5 DEF ResolvedInterface
  <2>2. c \in fits /\ \A e \in fits \ {c} : TriedBefore(c, e)
    BY <1>3, <1>5
  <2> HIDE DEF c
  <2>3. c \in best
    BY <1>1, <2>2 DEF TriedBefore
  <2>4. InterfacesOf(rows, row) = MostSpecific(rows, row)
    BY <1>2, <1>5, <2>3 DEF InterfacesOf
  <2> QED
    BY <1>1, <1>2, <2>1, <2>2, <2>3, <2>4
<1> QED
  BY <1>4, <1>5

LEMMA EntryType ==
  ASSUME NEW rows, IsTable(rows), NEW row \in rows
  PROVE  /\ Entry(row, rows) \in [1 .. 6 -> Int]
         /\ Entry(row, rows)[1] = row.net /\ Entry(row, rows)[2] = row.len
         /\ Entry(row, rows)[3] = row.hop /\ Entry(row, rows)[6] = row.type
<1>1. row \in RouteRow
  BY DEF IsTable
<1>2. ResolvedInterface(row, rows) \in Nat
  BY ResolvedIsMostSpecific
<1> QED
  BY <1>1, <1>2 DEF Entry, RouteRow, NoHop

(* Entries are ordered by their first difference. *)
LEMMA BeforeIsAnOrder ==
  ASSUME NEW a \in [1 .. 6 -> Int], NEW b \in [1 .. 6 -> Int], NEW c \in [1 .. 6 -> Int]
  PROVE  /\ ~Before(a, a)
         /\ Before(a, b) => ~Before(b, a)
         /\ Before(a, b) /\ Before(b, c) => Before(a, c)
         /\ a = b \/ Before(a, b) \/ Before(b, a)
<1>1. ~Before(a, a)
  BY DEF Before
<1>2. ASSUME Before(a, b), Before(b, c) PROVE Before(a, c)
  <2>1. PICK i \in 1 .. 6 : a[i] < b[i] /\ \A k \in 1 .. i - 1 : a[k] = b[k]
    BY <1>2 DEF Before
  <2>2. PICK j \in 1 .. 6 : b[j] < c[j] /\ \A k \in 1 .. j - 1 : b[k] = c[k]
    BY <1>2 DEF Before
  <2> DEFINE m == IF i <= j THEN i ELSE j
  <2>3. m \in 1 .. 6 /\ a[m] < c[m] /\ \A k \in 1 .. m - 1 : a[k] = c[k]
    <3>1. CASE i < j
      BY <2>1, <2>2, <3>1
    <3>2. CASE i = j
      BY <2>1, <2>2, <3>2
    <3>3. CASE j < i
      BY <2>1, <2>2, <3>3
    <3> QED
      BY <3>1, <3>2, <3>3
  <2> QED
    BY <2>3 DEF Before
<1>3. ASSUME a # b PROVE Before(a, b) \/ Before(b, a)
  <2> DEFINE D == {i \in 1 .. 6 : a[i] # b[i]}
  <2>1. D # {}
    BY <1>3
  <2>2. PICK i \in D : \A k \in D : i <= k
    BY <2>1, LeastNatural
  <2>3. \A k \in 1 .. i - 1 : a[k] = b[k]
    BY <2>2
  <2>4. a[i] < b[i] \/ b[i] < a[i]
    BY <2>2
  <2> QED
    BY <2>2, <2>3, <2>4 DEF Before
<1>4. ASSUME Before(a, b), Before(b, a) PROVE FALSE
  <2>1. PICK i \in 1 .. 6 : a[i] < b[i] /\ \A k \in 1 .. i - 1 : a[k] = b[k]
    BY <1>4 DEF Before
  <2>2. PICK j \in 1 .. 6 : b[j] < a[j] /\ \A k \in 1 .. j - 1 : b[k] = a[k]
    BY <1>4 DEF Before
  <2> QED
    BY <2>1, <2>2
<1> QED
  BY <1>1, <1>2, <1>3, <1>4

LEMMA RowBeforeIsAnOrder ==
  ASSUME NEW rows, IsTable(rows), NEW a \in rows, NEW b \in rows, NEW c \in rows
  PROVE  /\ ~RowBefore(a, a, rows)
         /\ RowBefore(a, b, rows) => ~RowBefore(b, a, rows)
         /\ RowBefore(a, b, rows) /\ RowBefore(b, c, rows) => RowBefore(a, c, rows)
         /\ a = b \/ RowBefore(a, b, rows) \/ RowBefore(b, a, rows)
<1> DEFINE x == Entry(a, rows)
           y == Entry(b, rows)
           z == Entry(c, rows)
<1>1. x \in [1 .. 6 -> Int] /\ y \in [1 .. 6 -> Int] /\ z \in [1 .. 6 -> Int]
  BY EntryType
<1>2. a.key \in Nat /\ b.key \in Nat /\ c.key \in Nat /\ (a.key = b.key => a = b)
  BY DEF IsTable, RouteRow
<1>3. /\ RowBefore(a, b, rows) <=> Before(x, y) \/ (x = y /\ a.key < b.key)
      /\ RowBefore(b, a, rows) <=> Before(y, x) \/ (x = y /\ b.key < a.key)
      /\ RowBefore(b, c, rows) <=> Before(y, z) \/ (y = z /\ b.key < c.key)
      /\ RowBefore(a, c, rows) <=> Before(x, z) \/ (x = z /\ a.key < c.key)
      /\ RowBefore(a, a, rows) <=> Before(x, x) \/ (x = x /\ a.key < a.key)
  BY DEF RowBefore
<1>4. /\ ~Before(x, x)
      /\ Before(x, y) => ~Before(y, x)
      /\ Before(x, y) /\ Before(y, z) => Before(x, z)
      /\ x = y \/ Before(x, y) \/ Before(y, x)
  BY <1>1, BeforeIsAnOrder
<1> HIDE DEF x, y, z
<1> QED
  BY <1>2, <1>3, <1>4

(* Every row has a place of its own, and every place a row. *)
LEMMA RankIsAPlace ==
  ASSUME NEW rows, IsTable(rows)
  PROVE  /\ Cardinality(rows) \in Nat
         /\ \A row \in rows : Rank(row, rows) \in 1 .. Cardinality(rows)
         /\ \A a, b \in rows : RowBefore(a, b, rows) => Rank(a, rows) < Rank(b, rows)
         /\ \A i \in 1 .. Cardinality(rows) : \E row \in rows : Rank(row, rows) = i
<1> DEFINE upto(row) == {a \in rows : a = row \/ RowBefore(a, row, rows)}
           n == Cardinality(rows)
<1>1. IsFiniteSet(rows)
  BY DEF IsTable
<1>2. n \in Nat
  BY <1>1, FS_CardinalityType
<1>3. \A row \in rows : Rank(row, rows) = Cardinality(upto(row))
  BY DEF Rank
<1>4. ASSUME NEW row \in rows PROVE Rank(row, rows) \in 1 .. n
  <2>1. upto(row) \in SUBSET rows /\ row \in upto(row)
    OBVIOUS
  <2> HIDE DEF upto
  <2>2. IsFiniteSet(upto(row)) /\ Cardinality(upto(row)) <= n
    BY <1>1, <2>1, FS_Subset
  <2>3. Cardinality(upto(row)) \in Nat
    BY <2>2, FS_CardinalityType
  <2>4. Cardinality(upto(row)) # 0
    BY <2>1, <2>2, FS_EmptySet
  <2> QED
    BY <1>2, <1>3, <2>2, <2>3, <2>4
<1>5. ASSUME NEW a \in rows, NEW b \in rows, RowBefore(a, b, rows)
      PROVE  Rank(a, rows) < Rank(b, rows)
  <2>1. upto(b) \in SUBSET rows
    OBVIOUS
  <2>2. \A c \in upto(a) : c \in upto(b)
    BY <1>5, RowBeforeIsAnOrder
  <2>3. b \in upto(b) /\ b \notin upto(a)
    BY <1>5, RowBeforeIsAnOrder
  <2> HIDE DEF upto
  <2>4. IsFiniteSet(upto(b))
    BY <1>1, <2>1, FS_Subset
  <2>5. upto(a) \in SUBSET upto(b) /\ upto(a) # upto(b)
    BY <2>2, <2>3
  <2>6. /\ Cardinality(upto(a)) <= Cardinality(upto(b))
        /\ Cardinality(upto(a)) # Cardinality(upto(b))
    BY <2>4, <2>5, FS_Subset
  <2>7. Rank(a, rows) \in Int /\ Rank(b, rows) \in Int
    BY <1>2, <1>4
  <2> QED
    BY <1>3, <2>6, <2>7
<1>6. ASSUME NEW i \in 1 .. n PROVE \E row \in rows : Rank(row, rows) = i
  <2> DEFINE f == [row \in rows |-> Rank(row, rows)]
  <2>1. f \in [rows -> 1 .. n]
    BY <1>4
  <2>2. \A a, b \in rows : f[a] = f[b] => a = b
    BY <1>2, <1>4, <1>5, RowBeforeIsAnOrder
  <2>3. f \in Injection(rows, 1 .. n)
    BY <2>1, <2>2 DEF Injection, IsInjective
  <2>4. IsFiniteSet(1 .. n) /\ Cardinality(1 .. n) = n
    BY <1>2, FS_Interval
  <2>5. f \in Surjection(rows, 1 .. n)
    BY <2>3, <2>4, FS_Injection
  <2> QED
    BY <2>5 DEF Surjection
<1> QED
  BY <1>2, <1>4, <1>5, <1>6

(* The routes are the entries of the rows, neither more nor less. *)
LEMMA RoutesAreEntries ==
  ASSUME NEW rows, IsTable(rows)
  PROVE  LET routes == resolveRoutes(rows)
         IN  /\ Cardinality(rows) \in Nat
             /\ routes \in Seq([1 .. 6 -> Int]) /\ Len(routes) = Cardinality(rows)
             /\ DOMAIN routes = 1 .. Cardinality(rows)
             /\ \A row \in rows : routes[Rank(row, rows)] = Entry(row, rows)
                                  /\ Rank(row, rows) \in DOMAIN routes
             /\ \A i \in DOMAIN routes : \E row \in rows :
                  Rank(row, rows) = i /\ routes[i] = Entry(row, rows)
<1> DEFINE routes == resolveRoutes(rows)
           n == Cardinality(rows)
           at(i) == CHOOSE row \in rows : Rank(row, rows) = i
<1>1. n \in Nat
  BY RankIsAPlace
<1>2. DOMAIN routes = 1 .. n /\ \A i \in 1 .. n : routes[i] = Entry(at(i), rows)
  BY DEF resolveRoutes
<1>3. \A i \in 1 .. n : at(i) \in rows /\ Rank(at(i), rows) = i
  BY RankIsAPlace
<1>4. \A i \in 1 .. n : Entry(at(i), rows) \in [1 .. 6 -> Int]
  BY <1>3, EntryType
<1>5. \A row \in rows : Rank(row, rows) \in 1 .. n /\ at(Rank(row, rows)) = row
  <2> TAKE row \in rows
  <2>1. Rank(row, rows) \in 1 .. n
    BY RankIsAPlace
  <2> DEFINE r == at(Rank(row, rows))
  <2>2. r \in rows /\ Rank(r, rows) = Rank(row, rows)
    BY <1>3, <2>1
  <2> HIDE DEF r
  <2>3. r = row
    BY <1>1, <2>1, <2>2, RankIsAPlace, RowBeforeIsAnOrder
  <2> QED
    BY <2>1, <2>3 DEF r
<1>6. routes = [i \in 1 .. n |-> Entry(at(i), rows)]
  BY DEF resolveRoutes
<1> HIDE DEF routes, at
<1>7. routes \in Seq([1 .. 6 -> Int]) /\ Len(routes) = n
  <2>1. routes \in [1 .. n -> [1 .. 6 -> Int]]
    BY <1>4, <1>6
  <2> QED
    BY <1>1, <2>1, SeqDef, LenProperties
<1>8. \A row \in rows : routes[Rank(row, rows)] = Entry(row, rows)
                        /\ Rank(row, rows) \in DOMAIN routes
  BY <1>2, <1>5
<1>9. \A i \in DOMAIN routes : \E row \in rows :
        Rank(row, rows) = i /\ routes[i] = Entry(row, rows)
  BY <1>2, <1>3
<1> QED
  BY <1>1, <1>2, <1>7, <1>8, <1>9 DEF routes

(* If there is a default route, the first route is one. *)
LEMMA DefaultIsFirst ==
  ASSUME NEW rows, IsTable(rows),
         NEW i \in DOMAIN resolveRoutes(rows), IsDefault(resolveRoutes(rows)[i])
  PROVE  1 \in DOMAIN resolveRoutes(rows) /\ IsDefault(resolveRoutes(rows)[1])
<1> DEFINE routes == resolveRoutes(rows)
           n == Cardinality(rows)
<1>1. n \in Nat /\ DOMAIN routes = 1 .. n
  BY RoutesAreEntries
<1>2. PICK row \in rows : Rank(row, rows) = i /\ routes[i] = Entry(row, rows)
  BY RoutesAreEntries
<1>3. 1 \in DOMAIN routes
  BY <1>1
<1>4. PICK r \in rows : Rank(r, rows) = 1 /\ routes[1] = Entry(r, rows)
  BY <1>3, RoutesAreEntries
<1>5. row.net = 0 /\ row.len = 0
  BY <1>2, EntryType DEF IsDefault
<1>6. r.net \in Nat /\ r.len \in Nat
  BY WidthAssumption DEF IsTable, RouteRow
<1>7. ~RowBefore(row, r, rows)
  <2>1. Rank(row, rows) \in 1 .. n
    BY RankIsAPlace
  <2> QED
    BY <1>1, <1>4, <2>1, RankIsAPlace
<1>8. r.net = 0 /\ r.len = 0
  <2> DEFINE x == Entry(row, rows)
             y == Entry(r, rows)
  <2>1. ~Before(x, y)
    BY <1>7 DEF RowBefore
  <2>2. x[1] = 0 /\ x[2] = 0 /\ y[1] = r.net /\ y[2] = r.len
    BY <1>5, EntryType
  <2> HIDE DEF x, y
  <2>3. ~(x[1] < y[1])
    BY <2>1 DEF Before
  <2>4. x[1] = y[1] => ~(x[2] < y[2])
    BY <2>1 DEF Before
  <2> QED
    BY <1>6, <2>2, <2>3, <2>4
<1> QED
  BY <1>3, <1>4, <1>8, EntryType DEF IsDefault

(* The rows of a read are a table, the one the device answered with when nothing
   disturbed the read. *)
LEMMA ReadIsResolved ==
  ASSUME NEW d \in Devices, NEW old \in Tables[d], NEW read \in Reads[d][old]
  PROVE  \E rows : /\ IsTable(rows) /\ read.routes = resolveRoutes(rows)
                   /\ read.whole # Absent => rows = Answered(read.whole)
<1>1. PICK new \in Tables[d], n \in 0 .. 2 * Columns - 1, failed \in SUBSET Walks :
        read = [routes |-> resolveRoutes(ReadRows(old, new, n, failed)),
                table  |-> new,
                whole  |-> IF failed = {} /\ (n = 0 \/ new = old) THEN new ELSE Absent]
  BY DEF Reads
<1>2. n \in Int /\ n - Columns \in Int /\ (n = 0 => n - Columns <= 0)
  BY DEF Columns
<1>3. IsTable(old.cidr) /\ IsTable(old.legacy) /\ IsTable(new.cidr) /\ IsTable(new.legacy)
  BY InventoryAssumption
<1> DEFINE got(name, m) == IF name \in failed THEN {}
                           ELSE finalizeRouteRows(WalkColumns(old[name], new[name], m))
           cidr == got("cidr", n)
           legacy == got("legacy", n - Columns)
           rows == ReadRows(old, new, n, failed)
<1>4. rows = IF cidr # {} THEN cidr ELSE legacy
  BY DEF ReadRows
<1>5. IsTable({})
  BY FS_EmptySet DEF IsTable
<1>6. IsTable(cidr) /\ IsTable(legacy)
  <2>1. IsTable(finalizeRouteRows(WalkColumns(old.cidr, new.cidr, n)))
    BY <1>2, <1>3, WalkedIsTable
  <2>2. IsTable(finalizeRouteRows(WalkColumns(old.legacy, new.legacy, n - Columns)))
    BY <1>2, <1>3, WalkedIsTable
  <2> QED
    BY <1>5, <2>1, <2>2
<1>7. ASSUME failed = {}, n = 0 \/ new = old
      PROVE  rows = Answered(new)
  <2>1. cidr = new.cidr
    <3>1. WalkColumns(old.cidr, new.cidr, n) = new.cidr
      BY <1>2, <1>3, <1>7, WalkAtRest
    <3> QED
      BY <1>3, <1>7, <3>1, FinalizeAtRest
  <2>2. legacy = new.legacy
    <3>1. WalkColumns(old.legacy, new.legacy, n - Columns) = new.legacy
      BY <1>2, <1>3, <1>7, WalkAtRest
    <3> QED
      BY <1>3, <1>7, <3>1, FinalizeAtRest
  <2> HIDE DEF cidr, legacy
  <2> QED
    BY <1>4, <2>1, <2>2 DEF Answered
<1>8. IsTable(rows)
  BY <1>4, <1>6
<1> HIDE DEF rows
<1>9. read.routes = resolveRoutes(rows)
  BY <1>1 DEF rows
<1>10. read.whole # Absent => rows = Answered(read.whole)
  BY <1>1, <1>7
<1> QED
  BY <1>8, <1>9, <1>10
-----------------------------------------------------------------------------
(* What a snapshot says of its routes. *)
Says(s) ==
  /\ s.supported = (s.routes # <<>>)
  /\ s.default = firstDefaultRoute(s.routes)
  /\ s.shown = snapshotJSON(s.routes)

Summaries == \A s \in inbox : Says(s)

THEOREM SummariesInvariant == Spec => []Summaries
<1>1. Init => Summaries
  BY DEF Init, Summaries
<1>2. Summaries /\ [Next]_vars => Summaries'
  <2> SUFFICES ASSUME Summaries, [Next]_vars PROVE Summaries'
    OBVIOUS
  <2>1. CASE CollectNext
    <3>1. PICK read : CollectTarget(Targets[visited + 1], read)
      BY <2>1 DEF CollectNext
    <3> DEFINE s == Snapshot(Targets[visited + 1], read.routes, read.whole)
    <3>2. inbox' = inbox \union {s}
      BY <3>1 DEF CollectTarget
    <3>3. Says(s)
      BY DEF Snapshot, Says
    <3> HIDE DEF s
    <3>4. \A t \in inbox' : Says(t)
      BY <3>2, <3>3 DEF Summaries
    <3> QED
      BY <3>4 DEF Summaries, Says
  <2>2. CASE inbox' \in {inbox, {}}
    BY <2>2 DEF Summaries, Says
  <2> QED
    BY <2>1, <2>2 DEF Next, Cycle, vars, BeginCycle, EndCollect, EnqueueBatch, CycleFails,
                      NewCollector
<1> QED
  BY <1>1, <1>2, PTL DEF Spec

(* What is known of a snapshot in the inbox: it tells of the routes of some table,
   of the one the device answered with when nothing disturbed the read. *)
LEMMA SnapshotOfTable ==
  ASSUME MarkInv, Summaries, NEW s \in inbox
  PROVE  /\ \E rows : /\ IsTable(rows) /\ s.routes = resolveRoutes(rows)
                      /\ s.whole # Absent => rows = Answered(s.whole)
         /\ Says(s) /\ s.device \in Devices
<1>1. s.device \in Visited /\ IsSnapshot(s) /\ Phases
  BY DEF MarkInv, Inbox
<1>2. s.device \in Devices
  BY <1>1, DevicesVisited
<1>3. PICK old \in Tables[s.device] : \E read \in Reads[s.device][old] :
        s.routes = read.routes /\ s.whole = read.whole
  BY <1>1 DEF IsSnapshot
<1>4. PICK read \in Reads[s.device][old] : s.routes = read.routes /\ s.whole = read.whole
  BY <1>3
<1>5. \E rows : /\ IsTable(rows) /\ read.routes = resolveRoutes(rows)
                /\ read.whole # Absent => rows = Answered(read.whole)
  BY <1>2, ReadIsResolved
<1> QED
  BY <1>2, <1>4, <1>5 DEF Summaries

(* The cut keeps the first routes, one at least if there is one. *)
LEMMA ShownAreFirst ==
  ASSUME NEW S, NEW routes \in Seq(S)
  PROVE  LET shown == snapshotJSON(routes)
         IN  /\ shown \in Seq(S) /\ DOMAIN shown \subseteq DOMAIN routes
             /\ \A i \in DOMAIN shown : shown[i] = routes[i]
             /\ 1 \in DOMAIN routes => 1 \in DOMAIN shown
<1> DEFINE shown == snapshotJSON(routes)
           n == maxSnapshotRoutes
<1>1. n \in Nat \ {0} /\ Len(routes) \in Nat /\ DOMAIN routes = 1 .. Len(routes)
  BY InventoryAssumption, LenProperties
<1>2. CASE Len(routes) > n
  <2>1. shown = SubSeq(routes, 1, n)
    BY <1>2 DEF snapshotJSON
  <2> HIDE DEF shown
  <2>2. /\ shown \in Seq(S) /\ Len(shown) = n
        /\ \A i \in 1 .. n : shown[i] = routes[i]
    BY <1>1, <1>2, <2>1, SMTT(30)
  <2>3. DOMAIN shown = 1 .. n
    BY <2>2, LenProperties
  <2> QED
    BY <1>1, <1>2, <2>2, <2>3 DEF shown
<1>3. CASE ~(Len(routes) > n)
  BY <1>3 DEF snapshotJSON
<1> QED
  BY <1>2, <1>3

LEMMA FirstDefaultIsFound ==
  ASSUME NEW S, NEW routes \in Seq(S), 1 \in DOMAIN routes, IsDefault(routes[1])
  PROVE  firstDefaultRoute(routes) = 1
<1> DEFINE defaults == {i \in DOMAIN routes : IsDefault(routes[i])}
<1>1. 1 \in defaults /\ defaults \subseteq Nat /\ \A j \in defaults : 1 <= j
  BY LenProperties
<1> HIDE DEF defaults
<1>2. (CHOOSE i \in defaults : \A j \in defaults : i <= j) = 1
  <2>1. \A i \in defaults : (\A j \in defaults : i <= j) => i = 1
    BY <1>1
  <2> QED
    BY <1>1, <2>1
<1> QED
  BY <1>1, <1>2 DEF firstDefaultRoute, defaults

(* A snapshot of an undisturbed read has every route of the device, once, by the
   interface of a most specific connected route, and a snapshot with a default
   route shows it however it was cut: resolver.go:44-80, normalizer.go:63-82. *)
THEOREM SnapshotsAreTrue == Spec => []SnapshotIsTrue
<1>1. ASSUME MarkInv, Summaries PROVE SnapshotIsTrue
  <2> SUFFICES ASSUME NEW s \in inbox
      PROVE /\ s.whole # Absent =>
                 /\ Len(s.routes) = Cardinality(Answered(s.whole))
                 /\ \A row \in Answered(s.whole) :
                      \E i \in DOMAIN s.routes, if \in InterfacesOf(Answered(s.whole), row) :
                        s.routes[i] = <<row.net, row.len, row.hop, if, row.metric, row.type>>
            /\ (\E i \in DOMAIN s.routes : IsDefault(s.routes[i])) =>
                 \E i \in DOMAIN s.shown :
                   s.default # 0 /\ s.shown[i] = s.routes[s.default]
    BY DEF SnapshotIsTrue
  <2>1. PICK rows : /\ IsTable(rows) /\ s.routes = resolveRoutes(rows)
                    /\ s.whole # Absent => rows = Answered(s.whole)
    BY <1>1, SnapshotOfTable
  <2>2. Says(s)
    BY <1>1, SnapshotOfTable
  <2>3. s.routes \in Seq([1 .. 6 -> Int]) /\ Len(s.routes) = Cardinality(rows)
    BY <2>1, RoutesAreEntries
  <2>4. ASSUME NEW row \in rows
        PROVE  \E i \in DOMAIN s.routes, if \in InterfacesOf(rows, row) :
                 s.routes[i] = <<row.net, row.len, row.hop, if, row.metric, row.type>>
    <3>1. /\ Rank(row, rows) \in DOMAIN s.routes
          /\ s.routes[Rank(row, rows)] = Entry(row, rows)
      BY <2>1, RoutesAreEntries
    <3>2. ResolvedInterface(row, rows) \in InterfacesOf(rows, row)
      BY <2>1, ResolvedIsMostSpecific
    <3> QED
      BY <3>1, <3>2 DEF Entry
  <2>5. ASSUME NEW i \in DOMAIN s.routes, IsDefault(s.routes[i])
        PROVE  \E j \in DOMAIN s.shown : s.default # 0 /\ s.shown[j] = s.routes[s.default]
    <3>1. 1 \in DOMAIN s.routes /\ IsDefault(s.routes[1])
      BY <2>1, <2>5, DefaultIsFirst
    <3>2. s.default = 1
      BY <2>2, <2>3, <3>1, FirstDefaultIsFound DEF Says
    <3>3. 1 \in DOMAIN s.shown /\ s.shown[1] = s.routes[1]
      BY <2>2, <2>3, <3>1, ShownAreFirst DEF Says
    <3> QED
      BY <3>2, <3>3
  <2> QED
    BY <2>1, <2>3, <2>4, <2>5
<1> QED
  BY <1>1, MarkInvariant, SummariesInvariant, PTL
-----------------------------------------------------------------------------
(* The topology of a cycle. *)

LEMMA InOrderIsInbox ==
  ASSUME MarkInv, phase = "store"
  PROVE  /\ DOMAIN InOrder \subseteq Nat
         /\ \A i \in DOMAIN InOrder : InOrder[i] \in inbox
         /\ \A s \in inbox : \E i \in DOMAIN InOrder : InOrder[i] = s
         /\ {InOrder[i] : i \in DOMAIN InOrder} = inbox
<1>1. Visited = Devices /\ Inbox
  BY DevicesVisited DEF MarkInv, Phases
<1>2. DOMAIN InOrder = DOMAIN Targets /\ DOMAIN Targets = 1 .. Len(Targets)
      /\ Len(Targets) \in Nat
  BY InventoryAssumption, LenProperties DEF InOrder
<1>3. ASSUME NEW i \in DOMAIN Targets
      PROVE  InOrder[i] \in inbox /\ InOrder[i].device = Targets[i]
  <2>1. Targets[i] \in Devices
    BY DEF Devices, Range
  <2>2. \E s \in inbox : s.device = Targets[i]
    BY <1>1, <2>1 DEF Inbox
  <2>3. InOrder[i] = CHOOSE s \in inbox : s.device = Targets[i]
    BY DEF InOrder
  <2> QED
    BY <2>2, <2>3
<1>4. ASSUME NEW s \in inbox PROVE \E i \in DOMAIN InOrder : InOrder[i] = s
  <2>1. s.device \in Devices
    BY <1>1 DEF Inbox
  <2>2. PICK i \in DOMAIN Targets : Targets[i] = s.device
    BY <2>1 DEF Devices, Range
  <2>3. InOrder[i] = s
    BY <1>1, <1>3, <2>2 DEF Inbox
  <2> QED
    BY <1>2, <2>3
<1> QED
  BY <1>2, <1>3, <1>4

(* Only a supported snapshot shows routes, and one of an undisturbed read that was
   not cut shows an entry for each row, and each entry for a row. *)
LEMMA ShownAreRows ==
  ASSUME MarkInv, Summaries, NEW s \in inbox
  PROVE  /\ \A i \in DOMAIN s.shown : s.supported
         /\ s.whole # Absent /\ s.shown = s.routes =>
              /\ \A i \in DOMAIN s.shown : \E row \in Answered(s.whole) :
                   /\ s.shown[i][1] = row.net /\ s.shown[i][2] = row.len
                   /\ s.shown[i][3] = row.hop /\ s.shown[i][6] = row.type
              /\ \A row \in Answered(s.whole) : \E i \in DOMAIN s.shown :
                   /\ s.shown[i][1] = row.net /\ s.shown[i][2] = row.len
                   /\ s.shown[i][3] = row.hop /\ s.shown[i][6] = row.type
<1>1. PICK rows : /\ IsTable(rows) /\ s.routes = resolveRoutes(rows)
                  /\ s.whole # Absent => rows = Answered(s.whole)
  BY SnapshotOfTable
<1>2. Says(s)
  BY SnapshotOfTable
<1>3. s.routes \in Seq([1 .. 6 -> Int])
  BY <1>1, RoutesAreEntries
<1>4. ASSUME NEW i \in DOMAIN s.shown PROVE s.supported
  <2>1. i \in DOMAIN s.routes
    BY <1>2, <1>3, ShownAreFirst DEF Says
  <2>2. s.routes # <<>>
    BY <2>1
  <2> QED
    BY <1>2, <2>2 DEF Says
<1>5. ASSUME s.whole # Absent, s.shown = s.routes, NEW i \in DOMAIN s.shown
      PROVE  \E row \in Answered(s.whole) :
               /\ s.shown[i][1] = row.net /\ s.shown[i][2] = row.len
               /\ s.shown[i][3] = row.hop /\ s.shown[i][6] = row.type
  <2>1. PICK row \in rows : s.routes[i] = Entry(row, rows)
    BY <1>1, <1>5, RoutesAreEntries
  <2> QED
    BY <1>1, <1>5, <2>1, EntryType
<1>6. ASSUME s.whole # Absent, s.shown = s.routes, NEW row \in Answered(s.whole)
      PROVE  \E i \in DOMAIN s.shown :
               /\ s.shown[i][1] = row.net /\ s.shown[i][2] = row.len
               /\ s.shown[i][3] = row.hop /\ s.shown[i][6] = row.type
  <2>1. row \in rows
    BY <1>1, <1>6
  <2>2. /\ Rank(row, rows) \in DOMAIN s.routes
        /\ s.routes[Rank(row, rows)] = Entry(row, rows)
    BY <1>1, <2>1, RoutesAreEntries
  <2> QED
    BY <1>1, <1>6, <2>1, <2>2, EntryType
<1> QED
  BY <1>4, <1>5, <1>6

(* Where a default route leads, for any snapshots in any order. *)
LEMMA GatewayLeads ==
  ASSUME NEW d, NEW hop, NEW snaps, DOMAIN snaps \subseteq Nat
  PROVE  \/ /\ Gateway(d, hop, snaps) = ExternalNode(hop)
            /\ \A i \in DOMAIN snaps : snaps[i].device # d => ~Attached(snaps[i], hop)
         \/ \E i \in DOMAIN snaps :
              /\ snaps[i].device # d /\ Attached(snaps[i], hop)
              /\ Gateway(d, hop, snaps) = DeviceNode(snaps[i].device)
<1> DEFINE fits == {i \in DOMAIN snaps : snaps[i].device # d /\ Attached(snaps[i], hop)}
           first == CHOOSE i \in fits : \A j \in fits : i <= j
<1>1. CASE fits = {}
  BY <1>1 DEF Gateway
<1>2. CASE fits # {}
  <2>1. fits \in SUBSET Nat
    OBVIOUS
  <2>2. \E i \in fits : \A j \in fits : i <= j
    BY <1>2, <2>1, LeastNatural
  <2>3. first \in fits
    BY <2>2
  <2>4. Gateway(d, hop, snaps) = DeviceNode(snaps[first].device)
    BY <1>2 DEF Gateway
  <2> HIDE DEF first
  <2> QED
    BY <2>3, <2>4
<1> QED
  BY <1>1, <1>2

(* The edges of the topology of a cycle. *)
LEMMA EdgesOfTopology ==
  ASSUME MarkInv, phase = "store"
  PROVE  LET t == BuildSiteTopology(InOrder)
         IN  /\ \A e : e \in t.edges <=>
                  \/ \E s \in inbox : \E i \in DOMAIN s.shown :
                       /\ s.supported /\ IsConnected(s.shown[i])
                       /\ e = <<DeviceNode(s.device), SubnetNode(s.shown[i])>>
                  \/ \E s \in inbox : \E i \in DOMAIN s.shown :
                       /\ HasGateway(s.shown[i])
                       /\ e = <<DeviceNode(s.device),
                                Gateway(s.device, s.shown[i][3], InOrder)>>
             /\ t.nodes = {DeviceNode(s.device) : s \in {u \in inbox : u.supported}}
                  \union {n \in {e[2] : e \in t.edges} : n[1] \in {"subnet", "external"}}
<1> DEFINE entries(s) == {s.shown[i] : i \in DOMAIN s.shown}
           subnets(all) == UNION {{<<DeviceNode(s.device), SubnetNode(r)>> :
                             r \in {e \in entries(s) : IsConnected(e)}} :
                               s \in {u \in all : u.supported}}
           gateways(all) == UNION {{<<DeviceNode(s.device), Gateway(s.device, r[3], InOrder)>> :
                             r \in {e \in entries(s) : HasGateway(e)}} : s \in all}
           t == BuildSiteTopology(InOrder)
<1>1. {InOrder[i] : i \in DOMAIN InOrder} = inbox
  BY InOrderIsInbox
<1>2. t.edges = subnets(inbox) \union gateways(inbox)
  BY <1>1, Zenon DEF BuildSiteTopology
<1>3. t.nodes = {DeviceNode(s.device) : s \in {u \in inbox : u.supported}}
        \union {n \in {e[2] : e \in t.edges} : n[1] \in {"subnet", "external"}}
  BY <1>1, Zenon DEF BuildSiteTopology
<1>4. \A e : e \in subnets(inbox) <=>
        \E s \in inbox : \E i \in DOMAIN s.shown :
          /\ s.supported /\ IsConnected(s.shown[i])
          /\ e = <<DeviceNode(s.device), SubnetNode(s.shown[i])>>
  OBVIOUS
<1>5. \A e : e \in gateways(inbox) <=>
        \E s \in inbox : \E i \in DOMAIN s.shown :
          /\ HasGateway(s.shown[i])
          /\ e = <<DeviceNode(s.device), Gateway(s.device, s.shown[i][3], InOrder)>>
  OBVIOUS
<1> HIDE DEF t, subnets, gateways
<1> QED
  BY <1>2, <1>3, <1>4, <1>5 DEF t

LEMMA NodesDiffer ==
  /\ \A d, e : DeviceNode(d) = DeviceNode(e) => d = e
  /\ \A h, g : ExternalNode(h) = ExternalNode(g) => h = g
  /\ \A d, h : DeviceNode(d) # ExternalNode(h)
  /\ \A r, h : SubnetNode(r) # ExternalNode(h)
  /\ \A r : SubnetNode(r)[1] = "subnet"
  /\ \A h : ExternalNode(h)[1] = "external"
<1>1. \A d, e : <<"device", d>>[2] = d /\ <<"device", d>>[1] = "device"
  OBVIOUS
<1>2. \A h : <<"external", h>>[2] = h /\ <<"external", h>>[1] = "external"
  OBVIOUS
<1>3. \A r : <<"subnet", r[1], r[2]>>[1] = "subnet"
  OBVIOUS
<1> QED
  BY <1>1, <1>2, <1>3 DEF DeviceNode, ExternalNode, SubnetNode

(* The edges of a topology join its nodes. *)
LEMMA TopologyIsAGraph ==
  ASSUME MarkInv, Summaries, phase = "store",
         NEW e \in BuildSiteTopology(InOrder).edges
  PROVE  /\ e[1] \in BuildSiteTopology(InOrder).nodes
         /\ e[2] \in BuildSiteTopology(InOrder).nodes
<1> DEFINE t == BuildSiteTopology(InOrder)
<1>1. t.nodes = {DeviceNode(s.device) : s \in {u \in inbox : u.supported}}
        \union {n \in {f[2] : f \in t.edges} : n[1] \in {"subnet", "external"}}
  BY EdgesOfTopology
<1>2. \A s \in inbox : s.supported => DeviceNode(s.device) \in t.nodes
  BY <1>1
<1>3. e[2][1] \in {"subnet", "external"} => e[2] \in t.nodes
  BY <1>1
<1>4. CASE \E s \in inbox : \E i \in DOMAIN s.shown :
             /\ s.supported /\ IsConnected(s.shown[i])
             /\ e = <<DeviceNode(s.device), SubnetNode(s.shown[i])>>
  <2>1. PICK s \in inbox : /\ s.supported
                           /\ \E r : e = <<DeviceNode(s.device), SubnetNode(r)>>
    BY <1>4
  <2>2. e[1] = DeviceNode(s.device) /\ e[2][1] = "subnet"
    BY <2>1, NodesDiffer
  <2> QED
    BY <1>2, <1>3, <2>1, <2>2
<1>5. CASE \E s \in inbox : \E i \in DOMAIN s.shown :
             /\ HasGateway(s.shown[i])
             /\ e = <<DeviceNode(s.device), Gateway(s.device, s.shown[i][3], InOrder)>>
  <2>1. PICK s \in inbox : \E i \in DOMAIN s.shown :
          e = <<DeviceNode(s.device), Gateway(s.device, s.shown[i][3], InOrder)>>
    BY <1>5
  <2>2. PICK i \in DOMAIN s.shown :
          e = <<DeviceNode(s.device), Gateway(s.device, s.shown[i][3], InOrder)>>
    BY <2>1
  <2> DEFINE hop == s.shown[i][3]
             g == Gateway(s.device, hop, InOrder)
  <2>3. s.supported
    BY ShownAreRows
  <2>4. e[1] = DeviceNode(s.device) /\ e[2] = g
    BY <2>2
  <2>5. g = ExternalNode(hop) \/ \E u \in inbox : u.supported /\ g = DeviceNode(u.device)
    BY GatewayLeads, InOrderIsInbox DEF Attached
  <2> HIDE DEF g, hop
  <2>6. g \in t.nodes
    BY <1>2, <1>3, <2>4, <2>5, NodesDiffer
  <2> QED
    BY <1>2, <2>3, <2>4, <2>6
<1> QED
  BY <1>4, <1>5, EdgesOfTopology

(* The topology of a cycle is a graph, and when no read was disturbed and no
   snapshot was cut, a default route leads to another device on the subnet of its
   next hop if there is one, and else out of the site: topology_builder.go:14-72. *)
THEOREM GatewaysFound == Spec => []GatewaysAreFound
<1>1. ASSUME MarkInv, Summaries PROVE GatewaysAreFound
  <2> SUFFICES ASSUME phase = "store"
               PROVE  LET t == BuildSiteTopology(InOrder)
                      IN  (\A s \in inbox : s.supported =>
                              s.whole # Absent /\ s.shown = s.routes) =>
                            \A s \in {u \in inbox : u.supported} :
                              \A row \in {r \in Answered(s.whole) :
                                            r.net = 0 /\ r.len = 0
                                            /\ r.hop \notin {NoHop, 0}} :
                                LET owners == AttachedTo(row.hop, inbox \ {s})
                                    leads(n) == <<DeviceNode(s.device), n>> \in t.edges
                                IN  IF owners = {} THEN leads(ExternalNode(row.hop))
                                    ELSE /\ \E d \in owners : leads(DeviceNode(d))
                                         /\ ~leads(ExternalNode(row.hop))
    BY <1>1, TopologyIsAGraph DEF GatewaysAreFound
  <2> DEFINE t == BuildSiteTopology(InOrder)
  <2> SUFFICES ASSUME \A s \in inbox : s.supported =>
                        s.whole # Absent /\ s.shown = s.routes,
                      NEW s \in inbox, s.supported,
                      NEW row \in Answered(s.whole),
                      row.net = 0, row.len = 0, row.hop \notin {NoHop, 0}
               PROVE  LET owners == AttachedTo(row.hop, inbox \ {s})
                          leads(n) == <<DeviceNode(s.device), n>> \in t.edges
                      IN  IF owners = {} THEN leads(ExternalNode(row.hop))
                          ELSE /\ \E d \in owners : leads(DeviceNode(d))
                               /\ ~leads(ExternalNode(row.hop))
    OBVIOUS
  <2> DEFINE hop == row.hop
             owners == AttachedTo(hop, inbox \ {s})
             g == Gateway(s.device, hop, InOrder)
             leads(n) == <<DeviceNode(s.device), n>> \in t.edges
  <2>1. \A u \in inbox : u.device = s.device => u = s
    BY <1>1 DEF MarkInv, Inbox
  <2>2. \A u \in inbox : Attached(u, hop) <=>
          /\ u.supported
          /\ \E r \in Answered(u.whole) : r.type = connected
                                          /\ PrefixContains(r.net, r.len, hop)
    <3> SUFFICES ASSUME NEW u \in inbox, u.supported
                 PROVE  (\E i \in DOMAIN u.shown :
                           /\ IsConnected(u.shown[i])
                           /\ PrefixContains(u.shown[i][1], u.shown[i][2], hop))
                        <=> \E r \in Answered(u.whole) :
                              r.type = connected /\ PrefixContains(r.net, r.len, hop)
      BY DEF Attached
    <3> QED
      BY <1>1, ShownAreRows DEF IsConnected
  <2>3. \A d : d \in owners <=>
          \E u \in inbox : /\ u.device = d /\ u.device # s.device
                           /\ Attached(u, hop)
    BY <2>1, <2>2 DEF AttachedTo
  <2>4. leads(g)
    <3>1. PICK i \in DOMAIN s.shown :
            /\ s.shown[i][1] = row.net /\ s.shown[i][2] = row.len
            /\ s.shown[i][3] = row.hop
      BY <1>1, ShownAreRows
    <3>2. HasGateway(s.shown[i])
      BY <3>1 DEF HasGateway, IsDefault
    <3> QED
      BY <1>1, <3>1, <3>2, EdgesOfTopology
  <2>5. \/ g = ExternalNode(hop) /\ \A u \in inbox : u.device # s.device => ~Attached(u, hop)
        \/ \E u \in inbox : /\ u.device # s.device /\ Attached(u, hop)
                            /\ g = DeviceNode(u.device)
    BY <1>1, GatewayLeads, InOrderIsInbox
  <2>6. leads(ExternalNode(hop)) => g = ExternalNode(hop)
    <3> SUFFICES ASSUME leads(ExternalNode(hop)) PROVE g = ExternalNode(hop)
      OBVIOUS
    <3> DEFINE e == <<DeviceNode(s.device), ExternalNode(hop)>>
    <3>1. e[1] = DeviceNode(s.device) /\ e[2] = ExternalNode(hop)
      OBVIOUS
    <3>2. e \in t.edges
      OBVIOUS
    <3> HIDE DEF e
    <3>3. PICK u \in inbox : \E i \in DOMAIN u.shown :
            \/ e = <<DeviceNode(u.device), SubnetNode(u.shown[i])>>
            \/ e = <<DeviceNode(u.device), Gateway(u.device, u.shown[i][3], InOrder)>>
      BY <1>1, <3>2, EdgesOfTopology
    <3>4. PICK i \in DOMAIN u.shown :
            \/ e = <<DeviceNode(u.device), SubnetNode(u.shown[i])>>
            \/ e = <<DeviceNode(u.device), Gateway(u.device, u.shown[i][3], InOrder)>>
      BY <3>3
    <3> DEFINE other == u.shown[i][3]
    <3>5. /\ u.device = s.device
          /\ ExternalNode(hop) = Gateway(s.device, other, InOrder)
      BY <3>1, <3>4, NodesDiffer
    <3>6. Gateway(s.device, other, InOrder) = ExternalNode(other)
      BY <1>1, <3>5, GatewayLeads, InOrderIsInbox, NodesDiffer
    <3> QED
      BY <3>5, <3>6, NodesDiffer
  <2>7. CASE owners = {}
    BY <2>3, <2>4, <2>5, <2>7
  <2>8. CASE owners # {}
    <3>1. PICK u \in inbox : u.device # s.device /\ Attached(u, hop)
      BY <2>3, <2>8
    <3>2. PICK v \in inbox : /\ v.device # s.device /\ Attached(v, hop)
                             /\ g = DeviceNode(v.device)
      BY <2>5, <3>1
    <3>3. v.device \in owners /\ leads(DeviceNode(v.device))
      BY <2>3, <2>4, <3>2
    <3>4. ~leads(ExternalNode(hop))
      BY <2>6, <3>2, NodesDiffer
    <3> QED
      BY <2>8, <3>3, <3>4
  <2> HIDE DEF t
  <2> QED
    BY <2>7, <2>8
<1> QED
  BY <1>1, MarkInvariant, SummariesInvariant, PTL
=============================================================================

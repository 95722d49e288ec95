--------------------------- MODULE ViewerHubProofs ---------------------------
(***************************************************************************)
(* What holds of ViewerHub for every number of devices and viewers, every  *)
(* capacity of the channels, every batch size and every limit of the       *)
(* snapshot.                                                               *)
(***************************************************************************)
EXTENDS ViewerHub, FiniteSetTheorems, SequenceTheorems, WellFoundedInduction, TLAPS

Cycles == 1..MaxCycle
-----------------------------------------------------------------------------
(* Newest and oldest readings *)

(* A set of natural numbers that is not empty has a least element. *)
LEMMA LeastNatural ==
  ASSUME NEW S \in SUBSET Nat, S # {}
  PROVE  \E m \in S : \A k \in S : m <= k
<1>1. PICK m \in S : \A k \in S : <<k, m>> \notin OpToRel(<, Nat)
  BY WFMin, NatLessThanWellFounded, Zenon
<1>2. \A k \in S : ~(k < m)
  BY <1>1, Zenon DEF OpToRel
<1> QED
  BY <1>2

LEMMA MinIsLeast ==
  ASSUME NEW S \in SUBSET Cycles, S # {}
  PROVE  Min(S) \in S /\ \A k \in S : Min(S) <= k
<1>1. S \in SUBSET Nat
  BY ViewerAssumption DEF Cycles
<1>2. \E m \in S : \A k \in S : m =< k
  BY <1>1, LeastNatural
<1> QED
  BY <1>2 DEF Min

LEMMA MaxIsGreatest ==
  ASSUME NEW S \in SUBSET Cycles, S # {}
  PROVE  Max(S) \in S /\ \A k \in S : k <= Max(S)
<1> DEFINE below == {MaxCycle - k : k \in S}
<1>1. MaxCycle \in Nat /\ \A k \in S : k \in 1..MaxCycle
  BY ViewerAssumption DEF Cycles
<1>2. below \in SUBSET Nat /\ below # {}
  BY <1>1
<1>3. PICK m \in below : \A k \in below : m <= k
  <2> HIDE DEF below
  <2> QED
    BY <1>2, LeastNatural
<1>4. PICK x \in S : m = MaxCycle - x
  BY <1>3
<1>5. ASSUME NEW k \in S PROVE x >= k
  <2>1. m <= MaxCycle - k
    BY <1>3
  <2> QED
    BY <1>1, <1>4, <2>1
<1> QED
  BY <1>1, <1>5 DEF Max
-----------------------------------------------------------------------------
(* Entries and messages *)

(* What is shown of a device that is sent its entries is one of them. *)
LEMMA LastOfAgrees ==
  ASSUME NEW e \in Entry
  PROVE  Agrees(LastOf(e), e) /\ LastOf(e) \in 0..MaxCycle
<1>1. /\ e.first \in 0..MaxCycle /\ e.older \in SUBSET Cycles
      /\ e.first = 0 => e.older = {}
  BY DEF Entry, NoEntry, Cycles
<1>2. MaxCycle \in Nat
  BY ViewerAssumption
<1>3. CASE e.older = {}
  BY <1>1, <1>3 DEF LastOf, Agrees, All
<1>4. CASE e.older # {}
  <2>1. Min(e.older) \in e.older
    BY <1>1, <1>4, MinIsLeast
  <2>2. Min(e.older) \in 1..MaxCycle
    BY <1>1, <2>1 DEF Cycles
  <2> QED
    BY <1>1, <1>2, <1>4, <2>1, <2>2 DEF LastOf, Agrees, All
<1> QED
  BY <1>3, <1>4

LEMMA OfSnapshotType ==
  ASSUME NEW snap \in [Devices -> Entry]
  PROVE  OfSnapshot(snap) \in Content
<1>1. ASSUME NEW d \in Devices
      PROVE  /\ LastOf(snap[d]) \in 0..MaxCycle
             /\ All(snap[d]) \in SUBSET (1..MaxCycle)
             /\ IF LastOf(snap[d]) = 0 THEN All(snap[d]) = {}
                ELSE LastOf(snap[d]) \in All(snap[d])
  <2>1. snap[d] \in Entry
    OBVIOUS
  <2>2. Agrees(LastOf(snap[d]), snap[d]) /\ LastOf(snap[d]) \in 0..MaxCycle
    BY <2>1, LastOfAgrees
  <2>3. snap[d].first \in 0..MaxCycle /\ snap[d].older \in SUBSET (1..MaxCycle)
    BY <2>1 DEF Entry
  <2>4. MaxCycle \in Nat
    BY ViewerAssumption
  <2> QED
    BY <2>2, <2>3, <2>4 DEF Agrees, All
<1>2. OfSnapshot(snap) \in [Devices -> [last : 0..MaxCycle, all : SUBSET (1..MaxCycle)]]
  BY <1>1 DEF OfSnapshot
<1>3. \A d \in Devices : /\ OfSnapshot(snap)[d].last = LastOf(snap[d])
                         /\ OfSnapshot(snap)[d].all = All(snap[d])
  BY DEF OfSnapshot
<1> QED
  BY <1>1, <1>2, <1>3 DEF Content

LEMMA OfBatchType ==
  ASSUME NEW items \in Readings
  PROVE  /\ OfBatch(items) \in Content
         /\ \A d \in Devices :
              /\ OfBatch(items)[d].last = 0 <=> items[d] = {}
              /\ items[d] # {} => OfBatch(items)[d].last = Max(items[d])
<1>1. MaxCycle \in Nat
  BY ViewerAssumption
<1>2. ASSUME NEW d \in Devices, items[d] # {}
      PROVE  Max(items[d]) \in items[d] /\ Max(items[d]) \in 1..MaxCycle
  <2>1. items[d] \in SUBSET Cycles
    BY DEF Readings, Cycles
  <2>2. Max(items[d]) \in items[d]
    BY <1>2, <2>1, MaxIsGreatest
  <2> QED
    BY <2>1, <2>2 DEF Cycles
<1>3. \A d \in Devices : items[d] \in SUBSET (1..MaxCycle)
  BY DEF Readings
<1>4. \A d \in Devices :
        /\ OfBatch(items)[d].last = IF items[d] = {} THEN 0 ELSE Max(items[d])
        /\ OfBatch(items)[d].all = items[d]
  BY DEF OfBatch
<1>5. OfBatch(items) \in [Devices -> [last : 0..MaxCycle, all : SUBSET (1..MaxCycle)]]
  BY <1>1, <1>2, <1>3 DEF OfBatch
<1> QED
  BY <1>1, <1>2, <1>4, <1>5 DEF Content

LEMMA ByDeviceType ==
  ASSUME NEW T \in SUBSET Reading
  PROVE  /\ ByDevice(T) \in Readings
         /\ \A d \in Devices, k \in Cycles : k \in ByDevice(T)[d] <=> [dev |-> d, at |-> k] \in T
  BY DEF ByDevice, Readings, Reading, Cycles

LEMMA FilterType ==
  ASSUME NEW V, NEW of \in [Devices -> V], NEW none \in V, NEW ids
  PROVE  /\ FilterActive(of, ids, none) \in [Devices -> V]
         /\ \A d \in Devices : FilterActive(of, ids, none)[d] \in {of[d], none}
  BY DEF FilterActive

(* Readings that are new to the snapshot become its first entries, and the
   message that carries them says what the snapshot then has. *)
LEMMA MergeType ==
  ASSUME NEW snap \in [Devices -> Entry], NEW items \in Readings
  PROVE  /\ Merge(snap, items) \in [Devices -> Entry]
         /\ \A d \in Devices :
              IF items[d] = {} THEN Merge(snap, items)[d] = snap[d]
              ELSE /\ Merge(snap, items)[d].first = Max(items[d])
                   /\ Agrees(OfBatch(items)[d].last, Merge(snap, items)[d])
<1>1. ASSUME NEW d \in Devices, items[d] # {}
      PROVE  /\ Max(items[d]) \in 1..MaxCycle
             /\ Merge(snap, items)[d] = [first |-> Max(items[d]), older |-> snap[d].older]
             /\ Merge(snap, items)[d] \in Entry
  <2>1. items[d] \in SUBSET Cycles
    BY DEF Readings, Cycles
  <2>2. Max(items[d]) \in 1..MaxCycle
    BY <1>1, <2>1, MaxIsGreatest DEF Cycles
  <2>3. snap[d] \in [first : 0..MaxCycle, older : SUBSET (1..MaxCycle)]
    BY DEF Entry
  <2>4. Merge(snap, items)[d] = [first |-> Max(items[d]), older |-> snap[d].older]
    BY <1>1, <2>3 DEF Merge
  <2>5. MaxCycle \in Nat
    BY ViewerAssumption
  <2> QED
    BY <2>2, <2>3, <2>4, <2>5 DEF Entry
<1>2. \A d \in Devices : items[d] = {} => Merge(snap, items)[d] = snap[d]
  BY DEF Merge
<1>3. \A d \in Devices : Merge(snap, items)[d] \in Entry
  BY <1>1, <1>2
<1>4. Merge(snap, items) = [d \in Devices |-> Merge(snap, items)[d]]
  BY DEF Merge
<1>5. Merge(snap, items) \in [Devices -> Entry]
  BY <1>3, <1>4
<1>6. ASSUME NEW d \in Devices, items[d] # {}
      PROVE  Agrees(OfBatch(items)[d].last, Merge(snap, items)[d])
  <2>1. OfBatch(items)[d].last = Max(items[d]) /\ Max(items[d]) # 0
    BY <1>1, <1>6, OfBatchType
  <2>2. Merge(snap, items)[d].first = Max(items[d])
    <3>1. Merge(snap, items)[d] = [first |-> Max(items[d]), older |-> snap[d].older]
      BY <1>1, <1>6
    <3> QED
      BY <3>1
  <2>3. Max(items[d]) \in All(Merge(snap, items)[d])
    BY <2>1, <2>2 DEF All
  <2> QED
    BY <2>1, <2>3 DEF Agrees
<1> QED
  BY <1>1, <1>2, <1>5, <1>6

LEMMA QueueSnapshotType ==
  ASSUME NEW T \in SUBSET Reading
  PROVE  /\ QueueSnapshot(T) \in [Devices -> Entry]
         /\ \A d \in Devices : d \in Known(QueueSnapshot(T)) => \E t \in T : t.dev = d
<1>1. MaxCycle \in Nat
  BY ViewerAssumption
<1>2. ASSUME NEW d \in Devices
      PROVE  /\ QueueSnapshot(T)[d] \in Entry
             /\ QueueSnapshot(T)[d].first # 0 => \E t \in T : t.dev = d
  <2> DEFINE at == ByDevice(T)[d]
  <2>1. at \in SUBSET Cycles
    BY ByDeviceType DEF Readings, Cycles
  <2>2. CASE at = {}
    <3>1. QueueSnapshot(T)[d] = NoEntry
      BY <2>2 DEF QueueSnapshot
    <3> QED
      BY <1>1, <3>1 DEF Entry, NoEntry
  <2>3. CASE at # {}
    <3>1. Max(at) \in at
      BY <2>1, <2>3, MaxIsGreatest
    <3>2. QueueSnapshot(T)[d] = [first |-> Max(at), older |-> at \ {Max(at)}]
      BY <2>3 DEF QueueSnapshot
    <3>3. \E t \in T : t.dev = d
      BY <2>3 DEF ByDevice
    <3>4. Max(at) \in 1..MaxCycle /\ at \ {Max(at)} \in SUBSET (1..MaxCycle)
      BY <2>1, <3>1 DEF Cycles
    <3> HIDE DEF at
    <3> QED
      BY <1>1, <3>2, <3>3, <3>4 DEF Entry
  <2> QED
    BY <2>2, <2>3
<1>3. QueueSnapshot(T) = [d \in Devices |-> QueueSnapshot(T)[d]]
  BY DEF QueueSnapshot
<1> QED
  BY <1>2, <1>3 DEF Known
-----------------------------------------------------------------------------
(* The steps *)

Statuses == {<<>>, <<Status>>}

LEMMA StatusType ==
  Status \in Message /\ Status.type = "status" /\ Status.says \in Content
<1>1. NoTelemetry \in Readings
  BY DEF NoTelemetry, Readings
<1>2. OfBatch(NoTelemetry) \in Content
  BY <1>1, OfBatchType
<1> QED
  BY <1>2 DEF Status, Msg, Message

(* An update changes the devices it has readings of, and then has a message
   about them in front of what follows it; it forgets no device. *)
LEMMA UpdateStep ==
  ASSUME TypeOK, NEW batch \in SUBSET Reading, NEW more \in Statuses, Update(batch, more)
  PROVE  \E items \in Readings :
           /\ items = FilterActive(ByDevice(batch), active, {})
           /\ snapshot' = Merge(snapshot, items)
           /\ snapshot' \in [Devices -> Entry]
           /\ UNCHANGED <<active, building>>
           /\ \/ /\ items = NoTelemetry /\ outbox' = more
              \/ /\ outbox' = <<Msg("telemetry", OfBatch(items))>> \o more
                 /\ Msg("telemetry", OfBatch(items)) \in Message
<1> DEFINE items == FilterActive(ByDevice(batch), active, {})
<1>1. items \in Readings
  <2>1. ByDevice(batch) \in [Devices -> SUBSET (1..MaxCycle)]
    BY ByDeviceType DEF Readings
  <2> QED
    BY <2>1, FilterType DEF Readings
<1>2. snapshot' = Merge(snapshot, items) /\ UNCHANGED <<active, building>>
  BY DEF Update
<1>3. outbox' = (IF items = NoTelemetry THEN <<>>
                 ELSE <<Msg("telemetry", OfBatch(items))>>) \o more
  BY DEF Update
<1>4. Merge(snapshot, items) \in [Devices -> Entry]
  BY <1>1, MergeType DEF TypeOK
<1>5. Msg("telemetry", OfBatch(items)) \in Message
  BY <1>1, OfBatchType DEF Msg, Message
<1>6. <<>> \o more = more
  BY DEF Statuses
<1> HIDE DEF items
<1> QED
  BY <1>1, <1>2, <1>3, <1>4, <1>5, <1>6 DEF items

(* What the hub does in one step, and what is left to broadcast after it. *)
HubStep ==
  \/ \E D \in SUBSET active \ {{}} : Collect(D)
  \/ Deliver \/ DeliverFails
  \/ \E ids \in SUBSET Devices : SetActiveDevices(ids)
  \/ SetSnapshot

Touches(m, d) == m.type = "snapshot" \/ (m.type = "telemetry" /\ m.says[d].last # 0)

(* A message about d is still to be broadcast. *)
Coming(d) == outbox # <<>> /\ Touches(Head(outbox), d)

(* Only the first of the messages to broadcast is about devices, and what it
   says of them is what the snapshot has. *)
OutboxInv ==
  /\ \A i \in 2..Len(outbox) : outbox[i].type = "status"
  /\ \A d \in Devices : Coming(d) => Agrees(Head(outbox).says[d].last, snapshot[d])

(* One message at most, and a status behind it. *)
LEMMA Outboxes ==
  ASSUME NEW m \in Message, NEW more \in Statuses
  PROVE  /\ <<m>> \o more \in Seq(Message) /\ <<m>> \o more # <<>>
         /\ Head(<<m>> \o more) = m
         /\ \A i \in 2..Len(<<m>> \o more) : (<<m>> \o more)[i].type = "status"
<1>1. /\ more \in Seq(Message) /\ Len(more) \in {0, 1}
      /\ \A i \in 1..Len(more) : more[i].type = "status"
  <2>1. CASE more = <<>>
    BY <2>1
  <2>2. CASE more = <<Status>>
    BY <2>2, StatusType
  <2> QED
    BY <2>1, <2>2 DEF Statuses
<1>2. <<m>> \in Seq(Message) /\ Len(<<m>>) = 1 /\ <<m>>[1] = m
  OBVIOUS
<1>3. /\ <<m>> \o more \in Seq(Message)
      /\ Len(<<m>> \o more) = 1 + Len(more)
      /\ \A i \in 1..Len(<<m>> \o more) :
           (<<m>> \o more)[i] = IF i <= 1 THEN <<m>>[i] ELSE more[i - 1]
  BY <1>1, <1>2, ConcatProperties
<1>4. \A i \in 2..Len(<<m>> \o more) : (<<m>> \o more)[i] = more[i - 1] /\ i - 1 \in 1..Len(more)
  BY <1>1, <1>3
<1> QED
  BY <1>1, <1>2, <1>3, <1>4

LEMMA UpdateSays ==
  ASSUME TypeOK, NEW batch \in SUBSET Reading, NEW more \in Statuses, Update(batch, more)
  PROVE  /\ snapshot' \in [Devices -> Entry] /\ outbox' \in Seq(Message)
         /\ OutboxInv'
         /\ \A d \in Devices : Coming(d)' \/ snapshot'[d] = snapshot[d]
<1>1. PICK items \in Readings :
        /\ snapshot' = Merge(snapshot, items)
        /\ snapshot' \in [Devices -> Entry]
        /\ \/ /\ items = NoTelemetry /\ outbox' = more
           \/ /\ outbox' = <<Msg("telemetry", OfBatch(items))>> \o more
              /\ Msg("telemetry", OfBatch(items)) \in Message
  BY UpdateStep
<1>2. snapshot \in [Devices -> Entry]
  BY DEF TypeOK
<1>3. CASE items = NoTelemetry /\ outbox' = more
  <2>1. \A d \in Devices : snapshot'[d] = snapshot[d]
    BY <1>1, <1>2, <1>3, MergeType DEF NoTelemetry
  <2>2. outbox' \in Seq(Message) /\ \A i \in 2..Len(outbox') : outbox'[i].type = "status"
    <3>1. CASE outbox' = <<>>
      BY <3>1
    <3>2. CASE outbox' = <<Status>>
      BY <3>2, StatusType
    <3> QED
      BY <1>3, <3>1, <3>2 DEF Statuses
  <2>3. \A d \in Devices : ~Coming(d)'
    BY <1>3, StatusType DEF Statuses, Coming, Touches
  <2> QED
    BY <1>1, <2>1, <2>2, <2>3 DEF OutboxInv
<1>4. CASE /\ outbox' = <<Msg("telemetry", OfBatch(items))>> \o more
           /\ Msg("telemetry", OfBatch(items)) \in Message
  <2> DEFINE m == Msg("telemetry", OfBatch(items))
  <2>1. m.type = "telemetry" /\ m.says = OfBatch(items)
    BY DEF Msg
  <2>2. /\ outbox' \in Seq(Message) /\ outbox' # <<>> /\ Head(outbox') = m
        /\ \A i \in 2..Len(outbox') : outbox'[i].type = "status"
    <3> HIDE DEF m
    <3> QED
      BY <1>4, Outboxes DEF m
  <2> HIDE DEF m
  <2>3. ASSUME NEW d \in Devices
        PROVE  /\ Coming(d)' <=> items[d] # {}
               /\ items[d] # {} => Agrees(m.says[d].last, snapshot'[d])
               /\ items[d] = {} => snapshot'[d] = snapshot[d]
    <3>1. Coming(d)' <=> m.says[d].last # 0
      BY <2>1, <2>2 DEF Coming, Touches
    <3> QED
      BY <1>1, <1>2, <2>1, <3>1, MergeType, OfBatchType
  <2>4. \A d \in Devices : Coming(d)' => Agrees(Head(outbox').says[d].last, snapshot'[d])
    BY <2>2, <2>3
  <2> QED
    BY <1>1, <2>2, <2>3, <2>4 DEF OutboxInv
<1> QED
  BY <1>1, <1>3, <1>4

(* A snapshot is a message about every device. *)
LEMMA SnapshotSays ==
  ASSUME snapshot' \in [Devices -> Entry],
         outbox' = <<Msg("snapshot", OfSnapshot(snapshot'))>>
  PROVE  outbox' \in Seq(Message) /\ OutboxInv' /\ \A d \in Devices : Coming(d)'
<1>1. OfSnapshot(snapshot') \in Content
  BY OfSnapshotType
<1>2. outbox' \in Seq(Message) /\ outbox' # <<>> /\ Len(outbox') = 1
  BY <1>1 DEF Msg, Message
<1>3. Head(outbox').type = "snapshot" /\ Head(outbox').says = OfSnapshot(snapshot')
  BY DEF Msg
<1>4. \A d \in Devices : Agrees(OfSnapshot(snapshot')[d].last, snapshot'[d])
  BY LastOfAgrees DEF OfSnapshot
<1> QED
  BY <1>2, <1>3, <1>4 DEF OutboxInv, Coming, Touches

LEMMA BatchIsStored ==
  ASSUME NEW S, NEW n, NEW T \in Oldest(n, S) \union Newest(n, S)
  PROVE  T \subseteq S
  BY DEF Oldest, Newest, Limit

LEMMA HubSteps ==
  ASSUME TypeOK, HubStep
  PROVE  /\ outbox = <<>> /\ UNCHANGED viewers
         /\ snapshot' \in [Devices -> Entry] /\ outbox' \in Seq(Message)
         /\ OutboxInv'
         /\ \A d \in Devices : Coming(d)' \/ snapshot'[d] = snapshot[d]
<1>1. ASSUME NEW D \in SUBSET active \ {{}}, Collect(D)
      PROVE  \E batch \in SUBSET Reading, more \in Statuses : Update(batch, more)
  <2> DEFINE items == {[dev |-> d, at |-> cycle + 1] : d \in D}
  <2>1. items \in SUBSET Reading
    BY <1>1, ViewerAssumption DEF TypeOK, Collect, Reading
  <2>2. Update(items, <<>>)
    BY <1>1 DEF Collect
  <2> QED
    BY <2>1, <2>2 DEF Statuses
<1>2. ASSUME Deliver
      PROVE  \E batch \in SUBSET Reading, more \in Statuses : Update(batch, more)
  <2>1. PICK batch \in Oldest(MaxBatch, rows) : Update(batch, <<Status>>)
    BY <1>2 DEF Deliver
  <2>2. batch \in SUBSET Reading
    BY BatchIsStored DEF TypeOK
  <2> QED
    BY <2>1, <2>2 DEF Statuses
<1>3. ASSUME \/ \E D \in SUBSET active \ {{}} : Collect(D)
             \/ Deliver
      PROVE  outbox = <<>> /\ UNCHANGED viewers
  BY <1>3 DEF Collect, Deliver, Free
<1>4. CASE (\E D \in SUBSET active \ {{}} : Collect(D)) \/ Deliver
  <2>1. PICK batch \in SUBSET Reading, more \in Statuses : Update(batch, more)
    BY <1>1, <1>2, <1>4
  <2> QED
    BY <1>3, <1>4, <2>1, UpdateSays
<1>5. CASE DeliverFails
  <2>1. /\ outbox = <<>> /\ UNCHANGED viewers /\ snapshot' = snapshot
        /\ outbox' = <<Status>>
    BY <1>5 DEF DeliverFails, Free
  <2>2. \A d \in Devices : ~Coming(d)'
    BY <2>1, StatusType DEF Coming, Touches
  <2> QED
    BY <2>1, <2>2, StatusType DEF OutboxInv, TypeOK
<1>6. ASSUME NEW ids \in SUBSET Devices, SetActiveDevices(ids)
      PROVE  /\ outbox = <<>> /\ UNCHANGED viewers /\ snapshot' \in [Devices -> Entry]
             /\ outbox' = <<Msg("snapshot", OfSnapshot(snapshot'))>>
  <2>1. NoEntry \in Entry
    BY ViewerAssumption DEF NoEntry, Entry
  <2>2. FilterActive(snapshot, ids, NoEntry) \in [Devices -> Entry]
    BY <2>1, FilterType DEF TypeOK
  <2> QED
    BY <1>6, <2>2 DEF SetActiveDevices, Free
<1>7. ASSUME SetSnapshot
      PROVE  /\ outbox = <<>> /\ UNCHANGED viewers /\ snapshot' \in [Devices -> Entry]
             /\ outbox' = <<Msg("snapshot", OfSnapshot(snapshot'))>>
  <2>1. PICK T \in Newest(SnapLimit, rows) :
          snapshot' = FilterActive(QueueSnapshot({t \in T : t.dev \in active}), active, NoEntry)
    BY <1>7 DEF SetSnapshot
  <2>2. {t \in T : t.dev \in active} \in SUBSET Reading
    BY BatchIsStored DEF TypeOK
  <2>3. QueueSnapshot({t \in T : t.dev \in active}) \in [Devices -> Entry]
    BY <2>2, QueueSnapshotType
  <2>4. NoEntry \in Entry
    BY ViewerAssumption DEF NoEntry, Entry
  <2>5. snapshot' \in [Devices -> Entry]
    BY <2>1, <2>3, <2>4, FilterType
  <2> QED
    BY <1>7, <2>5 DEF SetSnapshot
<1>8. CASE (\E ids \in SUBSET Devices : SetActiveDevices(ids)) \/ SetSnapshot
  <2>1. /\ outbox = <<>> /\ UNCHANGED viewers /\ snapshot' \in [Devices -> Entry]
        /\ outbox' = <<Msg("snapshot", OfSnapshot(snapshot'))>>
    BY <1>6, <1>7, <1>8
  <2> QED
    BY <2>1, SnapshotSays
<1> QED
  BY <1>4, <1>5, <1>8 DEF HubStep
-----------------------------------------------------------------------------
(* Types *)

LEMMA TypeInit == Init => TypeOK
<1> SUFFICES ASSUME Init PROVE TypeOK
  OBVIOUS
<1>1. MaxCycle \in Nat /\ Cap \in Nat
  BY ViewerAssumption
<1>2. NoEntry \in Entry
  BY <1>1 DEF NoEntry, Entry
<1>3. NewState \in [shown : [Devices -> 0..MaxCycle], alerts : SUBSET Devices]
  BY <1>1 DEF NewState
<1>4. rows \subseteq Reading /\ cycle \in 0..MaxCycle /\ newest \in [Devices -> 0..MaxCycle]
  BY <1>1 DEF Init
<1>5. /\ active \subseteq Devices /\ snapshot \in [Devices -> Entry]
      /\ outbox \in Seq(Message) /\ building \in BOOLEAN
  BY <1>2, EmptySeq DEF Init
<1>6. /\ chan \in [Viewers -> Seq(Message)] /\ \A w \in Viewers : Len(chan[w]) <= Cap
      /\ conn \in [Viewers -> {"away", "greeting", "listening", "gone"}]
      /\ missed \in [Viewers -> BOOLEAN]
  BY <1>1 DEF Init
<1> QED
  BY <1>3, <1>4, <1>5, <1>6 DEF Init, TypeOK

(* What is shown after a message is what it said, or else what was shown; an
   alarming reading that is shown has its alert. *)
States == [shown : [Devices -> 0..MaxCycle], alerts : SUBSET Devices]

Alerted(st) == \A d \in Devices : st.shown[d] \in Alarming => d \in st.alerts

LEMMA ShowStep ==
  ASSUME NEW st \in States, NEW m \in Message, Alerted(st)
  PROVE  /\ Show(st, m) \in States
         /\ Alerted(Show(st, m))
         /\ \A d \in Devices :
              Show(st, m).shown[d] = IF Touches(m, d) THEN m.says[d].last ELSE st.shown[d]
<1>1. /\ m.says \in [Devices -> [last : 0..MaxCycle, all : SUBSET (1..MaxCycle)]]
      /\ \A d \in Devices : IF m.says[d].last = 0 THEN m.says[d].all = {}
                            ELSE m.says[d].last \in m.says[d].all
      /\ m.type \in {"snapshot", "telemetry", "status"}
  BY DEF Message, Content
<1>2. ASSUME NEW s \in States, Alerted(s)
      PROVE  /\ ApplyBatch(s, m.says) \in States
             /\ Alerted(ApplyBatch(s, m.says))
             /\ \A d \in Devices : ApplyBatch(s, m.says).shown[d] =
                  IF m.says[d].last = 0 THEN s.shown[d] ELSE m.says[d].last
  <2> DEFINE new == ApplyBatch(s, m.says)
  <2>1. /\ new.shown = [d \in Devices |-> IF m.says[d].last = 0 THEN s.shown[d] ELSE m.says[d].last]
        /\ new.alerts = s.alerts \union {d \in Devices : m.says[d].all \intersect Alarming # {}}
        /\ new = [shown |-> new.shown, alerts |-> new.alerts]
    BY DEF ApplyBatch
  <2>2. s.shown \in [Devices -> 0..MaxCycle] /\ s.alerts \in SUBSET Devices
    BY DEF States
  <2>3. new.shown \in [Devices -> 0..MaxCycle] /\ new.alerts \in SUBSET Devices
    BY <1>1, <2>1, <2>2
  <2>4. new \in States
    <3> HIDE DEF new
    <3> QED
      BY <2>1, <2>3 DEF States
  <2>5. \A d \in Devices : new.shown[d] = IF m.says[d].last = 0 THEN s.shown[d] ELSE m.says[d].last
    BY <2>1
  <2>6. ASSUME NEW d \in Devices, new.shown[d] \in Alarming PROVE d \in new.alerts
    <3>1. CASE m.says[d].last = 0
      BY <1>2, <2>1, <2>5, <2>6, <3>1 DEF Alerted
    <3>2. CASE m.says[d].last # 0
      BY <1>1, <2>1, <2>5, <2>6, <3>2
    <3> QED
      BY <3>1, <3>2
  <2> QED
    BY <2>4, <2>5, <2>6 DEF Alerted
<1>3. NewState \in States /\ Alerted(NewState) /\ \A d \in Devices : NewState.shown[d] = 0
  BY ViewerAssumption DEF NewState, States, Alerted
<1>4. CASE m.type = "snapshot"
  <2>1. Show(st, m) = ApplyBatch(NewState, m.says)
    BY <1>4 DEF Show
  <2> QED
    BY <1>2, <1>3, <1>4, <2>1 DEF Touches
<1>5. CASE m.type = "telemetry"
  <2>1. Show(st, m) = ApplyBatch(st, m.says)
    BY <1>5 DEF Show
  <2> QED
    BY <1>2, <1>5, <2>1 DEF Touches
<1>6. CASE m.type = "status"
  <2>1. Show(st, m) = st
    BY <1>6 DEF Show
  <2> QED
    BY <1>6, <2>1 DEF Touches
<1> QED
  BY <1>1, <1>4, <1>5, <1>6

(* A message is heard by those who listen and have room; a message that is
   about devices passes by everybody else. *)
LEMMA BroadcastStep ==
  ASSUME TypeOK, Broadcast
  PROVE  /\ outbox # <<>> /\ Head(outbox) \in Message
         /\ outbox' = Tail(outbox) /\ Tail(outbox) \in Seq(Message)
         /\ UNCHANGED <<queue, active, snapshot, building, conn, view>>
         /\ chan' \in [Viewers -> Seq(Message)] /\ missed' \in [Viewers -> BOOLEAN]
         /\ \A w \in Viewers :
              /\ Len(chan'[w]) <= Cap
              /\ \/ /\ chan'[w] = Append(chan[w], Head(outbox))
                    /\ conn[w] \in {"listening", "gone"}
                 \/ /\ chan'[w] = chan[w]
                    /\ conn[w] \in {"listening", "greeting"} =>
                         Head(outbox).type = "status" \/ missed'[w]
              /\ ~missed'[w] => Head(outbox).type = "snapshot" \/ ~missed[w]
<1> DEFINE m == Head(outbox)
           Listens(w) == conn[w] \in {"listening", "gone"}
           Lost(w)    == conn[w] = "greeting" \/ (Listens(w) /\ Len(chan[w]) = Cap)
<1>1. /\ outbox # <<>> /\ outbox' = Tail(outbox)
      /\ UNCHANGED <<queue, active, snapshot, building, conn, view>>
      /\ chan' = [w \in Viewers |-> IF Listens(w) THEN Hear(chan[w], m) ELSE chan[w]]
      /\ missed' = [w \in Viewers |->
                      CASE m.type = "status" -> missed[w]
                        [] m.type # "status" /\ Lost(w) -> TRUE
                        [] OTHER -> missed[w] /\ m.type # "snapshot"]
  BY DEF Broadcast
<1>2. m \in Message /\ Tail(outbox) \in Seq(Message)
  BY <1>1, HeadTailProperties DEF TypeOK
<1>3. Cap \in Nat
  BY ViewerAssumption
<1> HIDE DEF m
<1>4. ASSUME NEW w \in Viewers
      PROVE  /\ chan'[w] \in Seq(Message) /\ Len(chan'[w]) <= Cap
             /\ missed'[w] \in BOOLEAN
             /\ \/ chan'[w] = Append(chan[w], m) /\ Listens(w)
                \/ /\ chan'[w] = chan[w]
                   /\ conn[w] \in {"listening", "greeting"} => m.type = "status" \/ missed'[w]
             /\ ~missed'[w] => m.type = "snapshot" \/ ~missed[w]
  <2>1. /\ chan[w] \in Seq(Message) /\ Len(chan[w]) \in Nat /\ Len(chan[w]) <= Cap
        /\ missed[w] \in BOOLEAN
    BY <1>4, LenProperties DEF TypeOK
  <2>2. /\ Append(chan[w], m) \in Seq(Message)
        /\ Len(Append(chan[w], m)) = Len(chan[w]) + 1
    BY <1>2, <2>1, AppendProperties
  <2>3. /\ chan'[w] = IF Listens(w) THEN Hear(chan[w], m) ELSE chan[w]
        /\ missed'[w] = CASE m.type = "status" -> missed[w]
                          [] m.type # "status" /\ Lost(w) -> TRUE
                          [] OTHER -> missed[w] /\ m.type # "snapshot"
    BY <1>1
  <2>4. CASE Listens(w) /\ Len(chan[w]) < Cap
    <3>1. chan'[w] = Append(chan[w], m)
      BY <2>3, <2>4 DEF Hear
    <3>2. chan'[w] \in Seq(Message) /\ Len(chan'[w]) <= Cap
      BY <1>3, <2>1, <2>2, <2>4, <3>1
    <3> HIDE DEF Listens, Lost
    <3>3. missed'[w] \in BOOLEAN /\ (~missed'[w] => m.type = "snapshot" \/ ~missed[w])
      BY <2>1, <2>3
    <3> QED
      BY <2>4, <3>1, <3>2, <3>3
  <2>5. CASE ~(Listens(w) /\ Len(chan[w]) < Cap)
    <3>1. chan'[w] = chan[w]
      BY <2>3, <2>5 DEF Hear
    <3>2. conn[w] \in {"listening", "greeting"} => Lost(w)
      BY <1>3, <2>1, <2>5
    <3> HIDE DEF Listens, Lost
    <3> QED
      BY <2>1, <2>3, <3>1, <3>2
  <2> QED
    BY <2>4, <2>5
<1>5. chan' \in [Viewers -> Seq(Message)] /\ missed' \in [Viewers -> BOOLEAN]
  BY <1>1, <1>4
<1> QED
  BY <1>1, <1>2, <1>4, <1>5 DEF m

(* The type invariant is inductive. *)
LEMMA TypeNext == TypeOK /\ (\A w \in Viewers : Alerted(view[w])) /\ [Next]_vars => TypeOK'
<1> SUFFICES ASSUME TypeOK, \A w \in Viewers : Alerted(view[w]), [Next]_vars PROVE TypeOK'
  OBVIOUS
<1> USE ViewerAssumption DEF TypeOK, queue, hub, viewers
<1>1. ASSUME NEW D \in SUBSET active \ {{}}, Collect(D)
      PROVE  /\ rows' \in SUBSET Reading /\ cycle' \in 0..MaxCycle
             /\ newest' \in [Devices -> 0..MaxCycle]
  BY <1>1 DEF Collect, Reading
<1>2. ASSUME Deliver
      PROVE  rows' \in SUBSET Reading /\ UNCHANGED <<cycle, newest>>
  BY <1>2 DEF Deliver
<1>3. ASSUME HubStep
      PROVE  active' \in SUBSET Devices /\ building' \in BOOLEAN
  BY <1>3 DEF HubStep, Collect, Deliver, DeliverFails, SetActiveDevices, SetSnapshot, Update
<1>4. CASE HubStep
  <2>1. UNCHANGED viewers /\ snapshot' \in [Devices -> Entry] /\ outbox' \in Seq(Message)
    BY <1>4, HubSteps
  <2>2. /\ rows' \in SUBSET Reading /\ cycle' \in 0..MaxCycle
        /\ newest' \in [Devices -> 0..MaxCycle]
    BY <1>1, <1>2, <1>4 DEF HubStep, DeliverFails, SetActiveDevices, SetSnapshot
  <2> QED
    BY <1>3, <1>4, <2>1, <2>2
<1>5. CASE Broadcast
  BY <1>5, BroadcastStep
<1>6. NoEntry \in Entry /\ NewState \in States
  BY DEF NoEntry, Entry, NewState, States
<1>7. CASE Restart
  <2>1. UNCHANGED queue /\ active' = {} /\ building' = FALSE
    BY <1>7 DEF Restart
  <2>2. snapshot' \in [Devices -> Entry] /\ outbox' \in Seq(Message)
    BY <1>6, <1>7, EmptySeq DEF Restart
  <2>3. chan' \in [Viewers -> Seq(Message)] /\ \A w \in Viewers : Len(chan'[w]) <= Cap
    BY <1>7 DEF Restart
  <2>4. /\ conn' \in [Viewers -> {"away", "greeting", "listening", "gone"}]
        /\ view' \in [Viewers -> States] /\ missed' \in [Viewers -> BOOLEAN]
    BY <1>6, <1>7 DEF Restart
  <2> QED
    BY <2>1, <2>2, <2>3, <2>4 DEF States
<1>8. ASSUME NEW w \in Viewers, Connect(w) PROVE TypeOK'
  <2>1. Msg("snapshot", OfSnapshot(snapshot)) \in Message
    BY OfSnapshotType DEF Msg, Message
  <2>2. Alerted(NewState)
    BY DEF Alerted, NewState
  <2>3. Show(NewState, Msg("snapshot", OfSnapshot(snapshot))) \in States
    BY <1>6, <2>1, <2>2, ShowStep
  <2> QED
    BY <1>8, <2>3 DEF Connect, States
<1>9. ASSUME NEW w \in Viewers, Receive(w) PROVE TypeOK'
  <2>1. chan[w] \in Seq(Message) /\ chan[w] # <<>> /\ Len(chan[w]) \in Nat
    BY <1>9, LenProperties DEF Receive
  <2>2. /\ Head(chan[w]) \in Message /\ Tail(chan[w]) \in Seq(Message)
        /\ Len(Tail(chan[w])) = Len(chan[w]) - 1
    BY <2>1, HeadTailProperties
  <2>3. Show(view[w], Head(chan[w])) \in States
    BY <2>2, ShowStep DEF States
  <2> QED
    BY <1>9, <2>1, <2>2, <2>3 DEF Receive, States
<1>10. ASSUME NEW w \in Viewers, Subscribe(w) \/ Close(w) \/ Unsubscribe(w) PROVE TypeOK'
  <2>1. CASE Subscribe(w)
    BY <2>1 DEF Subscribe
  <2>2. CASE Close(w)
    BY <1>6, <2>2 DEF Close, States
  <2>3. CASE Unsubscribe(w)
    <3>1. chan' \in [Viewers -> Seq(Message)] /\ \A v \in Viewers : Len(chan'[v]) <= Cap
      BY <2>3 DEF Unsubscribe
    <3> QED
      BY <2>3, <3>1 DEF Unsubscribe
  <2> QED
    BY <1>10, <2>1, <2>2, <2>3
<1>11. CASE UNCHANGED vars
  BY <1>11 DEF vars
<1> QED
  BY <1>4, <1>5, <1>7, <1>8, <1>9, <1>10, <1>11 DEF Next, Main, HubStep, Connection
-----------------------------------------------------------------------------
(* What the viewers show *)

(* The last message of q about d, or what is shown without one, agrees with
   the snapshot. *)
AgreesAfter(q, shown, d) ==
  /\ (\A i \in 1..Len(q) : ~Touches(q[i], d)) => Agrees(shown, snapshot[d])
  /\ \A i \in 1..Len(q) :
       Touches(q[i], d) /\ (\A j \in i + 1..Len(q) : ~Touches(q[j], d)) =>
         Agrees(q[i].says[d].last, snapshot[d])

(* A viewer that has missed nothing is one message per device away from the
   snapshot: the one to come, or else the last one in its channel. *)
Tracks(w) ==
  conn[w] \in {"greeting", "listening"} /\ ~missed[w] =>
    \A d \in Devices : Coming(d) \/ AgreesAfter(chan[w], view[w].shown[d], d)

ViewInv ==
  /\ OutboxInv
  /\ \A w \in Viewers :
       /\ conn[w] \in {"away", "greeting"} => chan[w] = <<>>
       /\ Alerted(view[w])
       /\ Tracks(w)

(* What is left of a device in the queue ends with its newest reading, because
   the older are delivered first. *)
QueueInv ==
  /\ \A d \in Devices : newest[d] <= cycle
  /\ \A t \in rows : t.at <= newest[t.dev] /\ [dev |-> t.dev, at |-> newest[t.dev]] \in rows

LEMMA AfterAppend ==
  ASSUME NEW q \in Seq(Message), NEW m \in Message, NEW v, NEW d \in Devices,
         IF Touches(m, d) THEN Agrees(m.says[d].last, snapshot[d]) ELSE AgreesAfter(q, v, d)
  PROVE  AgreesAfter(Append(q, m), v, d)
<1> DEFINE r == Append(q, m)
           n == Len(q)
<1>1. /\ n \in Nat /\ Len(r) = n + 1 /\ r[n + 1] = m
      /\ \A i \in 1..n : r[i] = q[i]
  BY AppendProperties, LenProperties
<1> HIDE DEF r, n
<1>2. CASE Touches(m, d)
  <2>1. ~\A i \in 1..Len(r) : ~Touches(r[i], d)
    BY <1>1, <1>2
  <2>2. ASSUME NEW i \in 1..Len(r), \A j \in i + 1..Len(r) : ~Touches(r[j], d)
        PROVE  Agrees(r[i].says[d].last, snapshot[d])
    <3>1. i = n + 1
      BY <1>1, <1>2, <2>2
    <3> QED
      BY <1>1, <1>2, <3>1
  <2> QED
    BY <2>1, <2>2 DEF AgreesAfter, r
<1>3. CASE ~Touches(m, d)
  <2>1. AgreesAfter(q, v, d)
    BY <1>3
  <2>2. (\A i \in 1..Len(r) : ~Touches(r[i], d)) => Agrees(v, snapshot[d])
    BY <1>1, <2>1 DEF AgreesAfter, n
  <2>3. ASSUME NEW i \in 1..Len(r), Touches(r[i], d),
               \A j \in i + 1..Len(r) : ~Touches(r[j], d)
        PROVE  Agrees(r[i].says[d].last, snapshot[d])
    <3>1. i \in 1..n
      BY <1>1, <1>3, <2>3
    <3>2. Touches(q[i], d) /\ \A j \in i + 1..n : ~Touches(q[j], d)
      BY <1>1, <2>3, <3>1
    <3> QED
      BY <1>1, <2>1, <3>1, <3>2 DEF AgreesAfter, n
  <2> QED
    BY <2>2, <2>3 DEF AgreesAfter, r
<1> QED
  BY <1>2, <1>3

LEMMA AfterHead ==
  ASSUME NEW q \in Seq(Message), q # <<>>, NEW v, NEW d \in Devices, AgreesAfter(q, v, d)
  PROVE  AgreesAfter(Tail(q), IF Touches(Head(q), d) THEN Head(q).says[d].last ELSE v, d)
<1> DEFINE r == Tail(q)
           u == IF Touches(Head(q), d) THEN Head(q).says[d].last ELSE v
<1>1. /\ Len(q) \in Nat /\ Len(r) = Len(q) - 1 /\ Head(q) = q[1] /\ Len(q) >= 1
      /\ \A i \in 1..Len(r) : r[i] = q[i + 1]
  BY HeadTailProperties, LenProperties
<1> HIDE DEF r
<1>2. ASSUME \A i \in 1..Len(r) : ~Touches(r[i], d) PROVE Agrees(u, snapshot[d])
  <2>1. \A i \in 2..Len(q) : ~Touches(q[i], d)
    <3> TAKE i \in 2..Len(q)
    <3>1. i - 1 \in 1..Len(r) /\ r[i - 1] = q[i]
      BY <1>1
    <3> QED
      BY <1>2, <3>1
  <2>2. CASE Touches(q[1], d)
    <3>1. Agrees(q[1].says[d].last, snapshot[d])
      BY <1>1, <2>1, <2>2 DEF AgreesAfter
    <3> QED
      BY <1>1, <2>2, <3>1
  <2>3. CASE ~Touches(q[1], d)
    <3>1. \A i \in 1..Len(q) : ~Touches(q[i], d)
      BY <1>1, <2>1, <2>3
    <3> QED
      BY <1>1, <2>3, <3>1 DEF AgreesAfter
  <2> QED
    BY <2>2, <2>3
<1>3. ASSUME NEW i \in 1..Len(r), Touches(r[i], d),
             \A j \in i + 1..Len(r) : ~Touches(r[j], d)
      PROVE  Agrees(r[i].says[d].last, snapshot[d])
  <2>1. i + 1 \in 1..Len(q) /\ r[i] = q[i + 1]
    BY <1>1
  <2>2. \A j \in (i + 1) + 1..Len(q) : ~Touches(q[j], d)
    <3> TAKE j \in (i + 1) + 1..Len(q)
    <3>1. j - 1 \in i + 1..Len(r) /\ j - 1 \in 1..Len(r) /\ r[j - 1] = q[j]
      BY <1>1
    <3> QED
      BY <1>3, <3>1
  <2> QED
    BY <1>3, <2>1, <2>2 DEF AgreesAfter
<1> QED
  BY <1>2, <1>3 DEF AgreesAfter, r

LEMMA ViewInit == Init => ViewInv
<1> SUFFICES ASSUME Init PROVE ViewInv
  OBVIOUS
<1>1. OutboxInv
  BY DEF Init, OutboxInv, Coming
<1>2. \A w \in Viewers : chan[w] = <<>> /\ Alerted(view[w]) /\ conn[w] = "away"
  BY ViewerAssumption DEF Init, Alerted, NewState
<1> QED
  BY <1>1, <1>2 DEF ViewInv, Tracks

(* A change of the hub is in the outbox before anybody is told. *)
LEMMA ViewHub == TypeOK /\ ViewInv /\ HubStep => ViewInv'
<1> SUFFICES ASSUME TypeOK, ViewInv, HubStep PROVE ViewInv'
  OBVIOUS
<1>1. /\ outbox = <<>> /\ UNCHANGED <<conn, chan, view, missed>> /\ OutboxInv'
      /\ \A d \in Devices : Coming(d)' \/ snapshot'[d] = snapshot[d]
  BY HubSteps DEF viewers
<1>2. ASSUME NEW w \in Viewers PROVE Tracks(w)'
  <2>1. SUFFICES ASSUME conn[w] \in {"greeting", "listening"}, ~missed[w],
                        NEW d \in Devices, snapshot'[d] = snapshot[d]
                 PROVE  AgreesAfter(chan[w], view[w].shown[d], d)'
    BY <1>1 DEF Tracks
  <2>2. AgreesAfter(chan[w], view[w].shown[d], d)
    BY <1>1, <2>1 DEF ViewInv, Tracks, Coming
  <2> QED
    BY <1>1, <2>1, <2>2 DEF AgreesAfter, Touches
<1> QED
  BY <1>1, <1>2 DEF ViewInv, Alerted

LEMMA ViewBroadcast == TypeOK /\ ViewInv /\ Broadcast => ViewInv'
<1> SUFFICES ASSUME TypeOK, ViewInv, Broadcast PROVE ViewInv'
  OBVIOUS
<1> DEFINE m == Head(outbox)
<1>1. /\ outbox # <<>> /\ m \in Message /\ outbox \in Seq(Message)
      /\ outbox' = Tail(outbox) /\ UNCHANGED <<snapshot, conn, view>>
  BY BroadcastStep DEF TypeOK
<1>2. OutboxInv' /\ \A d \in Devices : ~Coming(d)'
  <2>1. /\ Len(outbox) \in Nat /\ Len(outbox') = Len(outbox) - 1 /\ outbox' \in Seq(Message)
        /\ \A i \in 1..Len(outbox') : outbox'[i] = outbox[i + 1]
    BY <1>1, HeadTailProperties, LenProperties
  <2>2. \A i \in 1..Len(outbox') : outbox'[i].type = "status"
    <3> TAKE i \in 1..Len(outbox')
    <3>1. i + 1 \in 2..Len(outbox) /\ outbox'[i] = outbox[i + 1]
      BY <2>1
    <3> QED
      BY <3>1 DEF ViewInv, OutboxInv
  <2>3. outbox' # <<>> => Head(outbox').type = "status"
    BY <2>1, <2>2
  <2> QED
    BY <2>1, <2>2, <2>3 DEF OutboxInv, Coming, Touches
<1>3. ASSUME NEW w \in Viewers
      PROVE  (conn[w] \in {"away", "greeting"} => chan'[w] = <<>>) /\ Tracks(w)'
  <2>1. /\ \/ chan'[w] = Append(chan[w], m) /\ conn[w] \in {"listening", "gone"}
           \/ /\ chan'[w] = chan[w]
              /\ conn[w] \in {"listening", "greeting"} => m.type = "status" \/ missed'[w]
        /\ ~missed'[w] => m.type = "snapshot" \/ ~missed[w]
    BY BroadcastStep
  <2>2. conn[w] \in {"away", "greeting"} => chan'[w] = <<>>
    BY <2>1 DEF ViewInv
  <2>3. ASSUME conn[w] \in {"greeting", "listening"}, ~missed'[w], NEW d \in Devices
        PROVE  AgreesAfter(chan'[w], view[w].shown[d], d)
    <3>1. chan[w] \in Seq(Message)
      BY DEF TypeOK
    <3>2. Touches(m, d) => Agrees(m.says[d].last, snapshot[d])
      BY <1>1 DEF ViewInv, OutboxInv, Coming
    <3>3. ~Touches(m, d) => AgreesAfter(chan[w], view[w].shown[d], d)
      BY <2>1, <2>3 DEF ViewInv, Tracks, Coming, Touches
    <3>4. CASE chan'[w] = Append(chan[w], m)
      BY <1>1, <3>1, <3>2, <3>3, <3>4, AfterAppend
    <3>5. CASE chan'[w] = chan[w] /\ m.type = "status"
      BY <3>3, <3>5 DEF Touches
    <3> QED
      BY <2>1, <2>3, <3>4, <3>5
  <2> QED
    BY <1>1, <2>2, <2>3 DEF Tracks, AgreesAfter, Touches
<1> QED
  BY <1>1, <1>2, <1>3 DEF ViewInv, Alerted

LEMMA ViewConnection ==
  ASSUME TypeOK, ViewInv, NEW w \in Viewers, Connection(w)
  PROVE  ViewInv'
<1> USE DEF hub, queue
<1>1. UNCHANGED <<snapshot, outbox>>
  BY DEF Connection, Connect, Subscribe, Receive, Close, Unsubscribe
<1>2. OutboxInv' /\ \A d \in Devices : Coming(d)' <=> Coming(d)
  BY <1>1 DEF ViewInv, OutboxInv, Coming, Touches
<1>3. \A v \in Viewers \ {w} : /\ conn'[v] = conn[v] /\ chan'[v] = chan[v]
                               /\ view'[v] = view[v] /\ missed'[v] = missed[v]
  BY DEF Connection, Connect, Subscribe, Receive, Close, Unsubscribe, TypeOK
<1>4. \A v \in Viewers \ {w} : Tracks(v)'
  <2> TAKE v \in Viewers \ {w}
  <2>1. Tracks(v)
    BY DEF ViewInv
  <2> QED
    BY <1>1, <1>2, <1>3, <2>1 DEF Tracks, AgreesAfter, Touches
<1>5. SUFFICES /\ conn'[w] \in {"away", "greeting"} => chan'[w] = <<>>
               /\ Alerted(view'[w])
               /\ conn'[w] \in {"greeting", "listening"} /\ ~missed'[w] =>
                    \A d \in Devices :
                      Coming(d) \/ AgreesAfter(chan'[w], view'[w].shown[d], d)
  <2>1. Tracks(w)'
    BY <1>1, <1>2, <1>5 DEF Tracks, AgreesAfter, Touches
  <2> QED
    BY <1>2, <1>3, <1>4, <1>5, <2>1 DEF ViewInv, Alerted
<1>6. Alerted(NewState) /\ NewState \in States
  BY ViewerAssumption DEF Alerted, NewState, States
<1>7. CASE Connect(w)
  <2> DEFINE m == Msg("snapshot", OfSnapshot(snapshot))
  <2>1. m \in Message /\ m.type = "snapshot" /\ m.says = OfSnapshot(snapshot)
    BY OfSnapshotType DEF Msg, Message, TypeOK
  <2>2. /\ view'[w] = Show(NewState, m) /\ conn'[w] = "greeting" /\ chan'[w] = <<>>
    BY <1>7 DEF Connect, TypeOK, ViewInv
  <2> HIDE DEF m
  <2>3. Alerted(view'[w]) /\ \A d \in Devices : view'[w].shown[d] = m.says[d].last
    BY <1>6, <2>1, <2>2, ShowStep DEF Touches
  <2>4. \A d \in Devices : Agrees(m.says[d].last, snapshot[d])
    BY <2>1, LastOfAgrees DEF OfSnapshot, TypeOK
  <2> QED
    BY <2>2, <2>3, <2>4 DEF AgreesAfter
<1>8. CASE Subscribe(w)
  BY <1>8 DEF Subscribe, TypeOK, ViewInv, Tracks
<1>9. CASE Receive(w)
  <2>1. chan[w] \in Seq(Message) /\ chan[w] # <<>> /\ view[w] \in States
    BY <1>9 DEF Receive, TypeOK, States
  <2>2. /\ view'[w] = Show(view[w], Head(chan[w])) /\ chan'[w] = Tail(chan[w])
        /\ conn'[w] = "listening" /\ conn[w] = "listening" /\ missed'[w] = missed[w]
    BY <1>9 DEF Receive, TypeOK
  <2>3. Head(chan[w]) \in Message
    BY <2>1, HeadTailProperties
  <2>4. /\ Alerted(view'[w])
        /\ \A d \in Devices : view'[w].shown[d] =
             IF Touches(Head(chan[w]), d) THEN Head(chan[w]).says[d].last ELSE view[w].shown[d]
    BY <2>1, <2>2, <2>3, ShowStep DEF ViewInv
  <2>5. ASSUME NEW d \in Devices, AgreesAfter(chan[w], view[w].shown[d], d)
        PROVE  AgreesAfter(chan'[w], view'[w].shown[d], d)
    <3>1. AgreesAfter(Tail(chan[w]), IF Touches(Head(chan[w]), d) THEN Head(chan[w]).says[d].last
                                     ELSE view[w].shown[d], d)
      BY <2>1, <2>5, AfterHead
    <3> QED
      BY <2>2, <2>4, <3>1
  <2> QED
    BY <2>2, <2>4, <2>5 DEF ViewInv, Tracks
<1>10. CASE Close(w)
  BY <1>6, <1>10 DEF Close, TypeOK
<1>11. CASE Unsubscribe(w)
  BY <1>11 DEF Unsubscribe, TypeOK, ViewInv
<1> QED
  BY <1>7, <1>8, <1>9, <1>10, <1>11 DEF Connection

LEMMA ViewNext == TypeOK /\ ViewInv /\ [Next]_vars => ViewInv'
<1> SUFFICES ASSUME TypeOK, ViewInv, [Next]_vars PROVE ViewInv'
  OBVIOUS
<1>1. CASE HubStep
  BY <1>1, ViewHub
<1>2. CASE Broadcast
  BY <1>2, ViewBroadcast
<1>3. CASE Restart
  <2>1. OutboxInv'
    BY <1>3 DEF Restart, OutboxInv, Coming
  <2>2. /\ \A w \in Viewers : chan'[w] = <<>> /\ conn'[w] = "away" /\ Alerted(view'[w])
    BY <1>3, ViewerAssumption DEF Restart, NewState, Alerted
  <2> QED
    BY <2>1, <2>2 DEF ViewInv, Tracks, Alerted
<1>4. ASSUME NEW w \in Viewers, Connection(w) PROVE ViewInv'
  BY <1>4, ViewConnection
<1>5. CASE UNCHANGED vars
  BY <1>5 DEF vars, hub, viewers, queue, ViewInv, OutboxInv, Coming, Touches, Tracks,
     AgreesAfter, Alerted
<1> QED
  BY <1>1, <1>2, <1>3, <1>4, <1>5 DEF Next, Main, HubStep

Inv == TypeOK /\ ViewInv

LEMMA InvAlways == Spec => []Inv
<1>1. Init => Inv
  BY TypeInit, ViewInit DEF Inv
<1>2. Inv /\ [Next]_vars => Inv'
  BY TypeNext, ViewNext DEF Inv, ViewInv
<1> QED
  BY <1>1, <1>2, PTL DEF Spec

(* TypeOK holds in every reachable state; no channel holds more than Cap
   messages, however far its reader lags behind. *)
THEOREM TypeCorrect == Spec => []TypeOK
<1>1. Inv => TypeOK
  BY DEF Inv
<1> QED
  BY <1>1, InvAlways, PTL

(* A viewer that missed nothing and has read everything shows what the hub
   holds, wherever the steps of the hub, of its broadcasts and of the
   connection fall between each other. *)
THEOREM ViewAgrees == Spec => []ViewAgreesWithSnapshot
<1>1. Inv => ViewAgreesWithSnapshot
  <2> SUFFICES ASSUME Inv, NEW w \in Viewers, conn[w] = "listening", chan[w] = <<>>,
                      ~missed[w], outbox = <<>>, NEW d \in Devices
               PROVE  /\ Agrees(view[w].shown[d], snapshot[d])
                      /\ view[w].shown[d] \in Alarming => d \in view[w].alerts
    BY DEF ViewAgreesWithSnapshot
  <2>1. Alerted(view[w]) /\ AgreesAfter(<<>>, view[w].shown[d], d)
    BY DEF Inv, ViewInv, Tracks, Coming
  <2> QED
    BY <2>1 DEF Alerted, AgreesAfter
<1> QED
  BY <1>1, InvAlways, PTL
-----------------------------------------------------------------------------
(* What the hub holds *)

(* What each step that changes the snapshot leaves in it of a device. *)
LEMMA SnapshotSteps ==
  ASSUME TypeOK, [Next]_vars, NEW d \in Devices
  PROVE  \/ snapshot'[d] = snapshot[d]
         \/ snapshot'[d].first = 0
         \/ SetSnapshot /\ d \in active /\ \E t \in rows : t.dev = d
         \/ /\ \/ \E D \in SUBSET active \ {{}} : d \in D /\ Collect(D)
               \/ Deliver /\ \E t \in rows : t.dev = d
            /\ active = {} \/ d \in active
<1>1. snapshot \in [Devices -> Entry] /\ rows \in SUBSET Reading
  BY DEF TypeOK
<1>2. ASSUME NEW batch \in SUBSET Reading, NEW more \in Statuses, Update(batch, more)
      PROVE  \/ snapshot'[d] = snapshot[d]
             \/ (active = {} \/ d \in active) /\ \E t \in batch : t.dev = d
  <2>1. PICK items \in Readings : /\ items = FilterActive(ByDevice(batch), active, {})
                                  /\ snapshot' = Merge(snapshot, items)
    BY <1>2, UpdateStep
  <2>2. CASE items[d] = {}
    BY <1>1, <2>1, <2>2, MergeType
  <2>3. CASE items[d] # {}
    BY <2>1, <2>3 DEF FilterActive, ByDevice
  <2> QED
    BY <2>2, <2>3
<1>3. ASSUME NEW D \in SUBSET active \ {{}}, Collect(D)
      PROVE  \/ snapshot'[d] = snapshot[d]
             \/ d \in D /\ Collect(D) /\ (active = {} \/ d \in active)
  <2> DEFINE items == {[dev |-> e, at |-> cycle + 1] : e \in D}
  <2>1. items \in SUBSET Reading
    BY <1>3, ViewerAssumption DEF TypeOK, Collect, Reading
  <2>2. Update(items, <<>>) /\ <<>> \in Statuses
    BY <1>3 DEF Collect, Statuses
  <2>3. (\E t \in items : t.dev = d) => d \in D
    OBVIOUS
  <2> HIDE DEF items
  <2> QED
    BY <1>2, <1>3, <2>1, <2>2, <2>3
<1>4. CASE Deliver
  <2>1. PICK batch \in Oldest(MaxBatch, rows) : Update(batch, <<Status>>)
    BY <1>4 DEF Deliver
  <2>2. batch \in SUBSET Reading /\ batch \subseteq rows /\ <<Status>> \in Statuses
    BY <1>1, BatchIsStored DEF Statuses
  <2> QED
    BY <1>2, <1>4, <2>1, <2>2
<1>5. ASSUME NEW ids \in SUBSET Devices, SetActiveDevices(ids)
      PROVE  snapshot'[d] = snapshot[d] \/ snapshot'[d].first = 0
  BY <1>1, <1>5 DEF SetActiveDevices, FilterActive, NoEntry
<1>6. CASE SetSnapshot
  <2>1. PICK T \in Newest(SnapLimit, rows) :
          snapshot' = FilterActive(QueueSnapshot({t \in T : t.dev \in active}), active, NoEntry)
    BY <1>6 DEF SetSnapshot
  <2>2. {t \in T : t.dev \in active} \in SUBSET Reading /\ T \subseteq rows
    BY <1>1, BatchIsStored
  <2>3. snapshot'[d] \in {QueueSnapshot({t \in T : t.dev \in active})[d], NoEntry}
    BY <2>1 DEF FilterActive
  <2>4. snapshot'[d].first = 0 \/ \E t \in {u \in T : u.dev \in active} : t.dev = d
    BY <2>2, <2>3, QueueSnapshotType DEF Known, NoEntry
  <2> QED
    BY <1>6, <2>2, <2>4
<1>7. CASE Restart
  BY <1>7 DEF Restart, NoEntry
<1>8. CASE DeliverFails \/ Broadcast \/ UNCHANGED vars
  BY <1>8 DEF DeliverFails, Broadcast, vars, hub
<1>9. ASSUME NEW w \in Viewers, Connection(w) PROVE snapshot'[d] = snapshot[d]
  BY <1>9 DEF Connection, Connect, Subscribe, Receive, Close, Unsubscribe, hub
<1> QED
  BY <1>3, <1>4, <1>5, <1>6, <1>7, <1>8, <1>9 DEF Next, Main

LEMMA ActiveSteps ==
  ASSUME [Next]_vars
  PROVE  \/ UNCHANGED active
         \/ active' = {}
         \/ snapshot' = FilterActive(snapshot, active', NoEntry)
<1>1. ASSUME NEW ids \in SUBSET Devices, SetActiveDevices(ids)
      PROVE  snapshot' = FilterActive(snapshot, active', NoEntry)
  BY <1>1 DEF SetActiveDevices
<1>2. ASSUME NEW w \in Viewers, Connection(w) PROVE UNCHANGED active
  BY <1>2 DEF Connection, Connect, Subscribe, Receive, Close, Unsubscribe, hub
<1> QED
  BY <1>1, <1>2 DEF Next, Main, vars, hub, Collect, Deliver, DeliverFails, SetSnapshot,
     Broadcast, Restart, Update

(* No queue however full of its readings brings a removed device back. *)
THEOREM RemovedStay == Spec => []RemovedStaysRemoved
<1>1. Init => RemovedStaysRemoved
  BY DEF Init, RemovedStaysRemoved
<1>2. Inv /\ RemovedStaysRemoved /\ [Next]_vars => RemovedStaysRemoved'
  <2> SUFFICES ASSUME Inv, RemovedStaysRemoved, [Next]_vars, active' # {},
                      NEW d \in Devices, snapshot'[d].first # 0
               PROVE  d \in active'
    BY DEF RemovedStaysRemoved, Known
  <2>1. CASE snapshot' = FilterActive(snapshot, active', NoEntry)
    BY <2>1 DEF FilterActive, NoEntry
  <2>2. CASE UNCHANGED active
    <3>1. snapshot[d].first # 0 => d \in active
      BY <2>2 DEF RemovedStaysRemoved, Known
    <3>2. TypeOK
      BY DEF Inv
    <3> QED
      BY <2>2, <3>1, <3>2, SnapshotSteps
  <2> QED
    BY <2>1, <2>2, ActiveSteps
<1> QED
  BY <1>1, <1>2, InvAlways, PTL DEF Spec
-----------------------------------------------------------------------------
(* The newest reading *)

(* The two steps that change the queue. *)
LEMMA QueueSteps ==
  ASSUME [Next]_vars
  PROVE  \/ \E D \in SUBSET active \ {{}} : Collect(D)
         \/ Deliver
         \/ UNCHANGED queue
<1>1. ASSUME NEW w \in Viewers, Connection(w) PROVE UNCHANGED queue
  BY <1>1 DEF Connection, Connect, Subscribe, Receive, Close, Unsubscribe
<1>2. ASSUME NEW ids \in SUBSET Devices, SetActiveDevices(ids) PROVE UNCHANGED queue
  BY <1>2 DEF SetActiveDevices
<1> QED
  BY <1>1, <1>2 DEF Next, Main, vars, DeliverFails, SetSnapshot, Broadcast, Restart

LEMMA QueueInit == Init => QueueInv
  BY ViewerAssumption DEF Init, QueueInv

LEMMA QueueNext == TypeOK /\ QueueInv /\ [Next]_vars => QueueInv'
<1> SUFFICES ASSUME TypeOK, QueueInv, [Next]_vars PROVE QueueInv'
  OBVIOUS
<1>1. /\ rows \in SUBSET Reading /\ cycle \in Nat /\ newest \in [Devices -> 0..MaxCycle]
      /\ MaxCycle \in Nat
  BY ViewerAssumption DEF TypeOK
<1>2. ASSUME NEW D \in SUBSET active \ {{}}, Collect(D) PROVE QueueInv'
  <2>1. /\ rows' = rows \union {[dev |-> d, at |-> cycle + 1] : d \in D}
        /\ cycle' = cycle + 1
        /\ newest' = [d \in Devices |-> IF d \in D THEN cycle + 1 ELSE newest[d]]
    BY <1>2 DEF Collect
  <2>2. \A d \in Devices : newest[d] \in Int /\ newest[d] <= cycle
    BY <1>1 DEF QueueInv
  <2>3. \A d \in Devices : newest'[d] <= cycle'
    BY <1>1, <2>1, <2>2
  <2>4. ASSUME NEW t \in rows'
        PROVE  t.at <= newest'[t.dev] /\ [dev |-> t.dev, at |-> newest'[t.dev]] \in rows'
    <3>1. CASE t \in rows
      <4>1. /\ t.dev \in Devices /\ t.at \in Int /\ t.at <= newest[t.dev]
            /\ [dev |-> t.dev, at |-> newest[t.dev]] \in rows
        BY <1>1, <3>1 DEF QueueInv, Reading
      <4>2. CASE t.dev \in D
        BY <1>1, <2>1, <2>2, <4>1, <4>2
      <4>3. CASE t.dev \notin D
        BY <2>1, <4>1, <4>3
      <4> QED
        BY <4>2, <4>3
    <3>2. CASE t \notin rows
      <4>1. PICK d \in D : t = [dev |-> d, at |-> cycle + 1]
        BY <2>1, <2>4, <3>2
      <4>2. t.dev = d /\ t.at = cycle + 1 /\ d \in Devices
        BY <4>1 DEF TypeOK
      <4> QED
        BY <1>1, <2>1, <2>4, <4>1, <4>2
    <3> QED
      BY <3>1, <3>2
  <2> QED
    BY <2>3, <2>4 DEF QueueInv
<1>3. CASE Deliver
  <2>1. PICK batch \in Oldest(MaxBatch, rows) : rows' \in {rows, rows \ batch}
    BY <1>3 DEF Deliver
  <2>2. /\ UNCHANGED <<cycle, newest>> /\ batch \subseteq rows
        /\ \A t \in batch, u \in rows \ batch : t.at <= u.at
    BY <1>3, BatchIsStored DEF Deliver, Oldest
  <2>3. ASSUME NEW t \in rows \ batch
        PROVE  [dev |-> t.dev, at |-> newest[t.dev]] \in rows \ batch
    <3> DEFINE top == [dev |-> t.dev, at |-> newest[t.dev]]
    <3>1. top \in rows /\ t.at <= newest[t.dev] /\ t = [dev |-> t.dev, at |-> t.at]
          /\ t.at \in Int /\ newest[t.dev] \in Int
      BY <1>1, <2>3 DEF QueueInv, Reading
    <3>2. top \in batch => top.at <= t.at
      BY <2>2, <2>3
    <3>3. top \in batch => top = t
      BY <3>1, <3>2
    <3> QED
      BY <2>3, <3>1, <3>3
  <2> QED
    BY <2>1, <2>2, <2>3 DEF QueueInv
<1>4. CASE UNCHANGED queue
  BY <1>4 DEF queue, QueueInv
<1> QED
  BY <1>2, <1>3, <1>4, QueueSteps

(* Updates go to the newest reading once everything is delivered, although
   each delivery repeats old readings to the hub. *)
THEOREM FirstIsLatest == Spec => []FirstIsLatestOnceDelivered
<1> DEFINE Latest == FirstIsLatestOnceDelivered
<1>1. Init => Latest
  BY DEF Init, FirstIsLatestOnceDelivered, Known, NoEntry
<1>2. Inv /\ QueueInv /\ RemovedStaysRemoved /\ Latest /\ [Next]_vars => Latest'
  <2> SUFFICES ASSUME Inv, QueueInv, RemovedStaysRemoved, Latest, [Next]_vars,
                      NEW d \in Devices, snapshot'[d].first # 0, \A t \in rows' : t.dev # d
               PROVE  snapshot'[d].first = newest'[d]
    BY DEF FirstIsLatestOnceDelivered, Known, Settled
  <2>1. /\ TypeOK /\ rows \in SUBSET Reading /\ newest \in [Devices -> 0..MaxCycle]
    BY DEF Inv, TypeOK
  <2>2. ASSUME NEW D \in SUBSET active \ {{}}, Collect(D)
        PROVE  d \notin D /\ newest'[d] = newest[d] /\ rows \subseteq rows'
    <3>1. /\ rows' = rows \union {[dev |-> e, at |-> cycle + 1] : e \in D}
          /\ newest' = [e \in Devices |-> IF e \in D THEN cycle + 1 ELSE newest[e]]
      BY <2>2 DEF Collect
    <3>2. ASSUME d \in D PROVE FALSE
      <4>1. [dev |-> d, at |-> cycle + 1] \in rows'
        BY <3>1, <3>2
      <4> QED
        BY <4>1
    <3> QED
      BY <3>1, <3>2
  (* The last delivery of d ends with its newest reading. *)
  <2>3. CASE Deliver /\ (\E t \in rows : t.dev = d) /\ (active = {} \/ d \in active)
    <3>1. PICK batch \in Oldest(MaxBatch, rows) :
            Update(batch, <<Status>>) /\ rows' \in {rows, rows \ batch}
      BY <2>3 DEF Deliver
    <3>2. batch \in SUBSET Reading /\ batch \subseteq rows /\ newest' = newest
          /\ <<Status>> \in Statuses
      BY <2>1, <2>3, BatchIsStored DEF Deliver, Statuses
    <3>3. \A t \in rows : t.dev = d => t \in batch
      BY <2>3, <3>1
    <3>4. PICK items \in Readings : /\ items = FilterActive(ByDevice(batch), active, {})
                                    /\ snapshot' = Merge(snapshot, items)
      BY <2>1, <3>1, <3>2, UpdateStep
    <3>5. items[d] = ByDevice(batch)[d] /\ items[d] \in SUBSET Cycles
      BY <2>3, <3>4 DEF FilterActive, Readings, Cycles
    <3>6. PICK t \in rows : t.dev = d
      BY <2>3
    <3>7. [dev |-> d, at |-> newest[d]] \in batch
      BY <3>3, <3>6 DEF QueueInv
    <3>8. newest[d] \in items[d]
      BY <3>5, <3>7 DEF ByDevice
    <3>9. \A k \in items[d] : k <= newest[d]
      <4> TAKE k \in items[d]
      <4>1. PICK row \in batch : row.dev = d /\ row.at = k
        BY <3>5 DEF ByDevice
      <4> QED
        BY <3>2, <4>1 DEF QueueInv
    <3>10. Max(items[d]) \in items[d] /\ newest[d] <= Max(items[d])
      BY <3>5, <3>8, MaxIsGreatest
    <3>11. Max(items[d]) = newest[d]
      BY <3>5, <3>8, <3>9, <3>10, ViewerAssumption DEF Cycles
    <3>12. snapshot \in [Devices -> Entry] /\ items[d] # {}
      BY <2>1, <3>8 DEF TypeOK
    <3>13. Merge(snapshot, items)[d].first = Max(items[d])
      BY <3>12, MergeType
    <3> QED
      BY <3>2, <3>4, <3>11, <3>13
  <2>4. CASE newest'[d] = newest[d] /\ snapshot'[d] = snapshot[d] /\ \A t \in rows : t.dev # d
    BY <2>4 DEF FirstIsLatestOnceDelivered, Known, Settled
  <2>5. CASE snapshot'[d] = snapshot[d]
    <3>1. active = {} \/ d \in active
      BY <2>5 DEF RemovedStaysRemoved, Known
    <3>2. CASE UNCHANGED queue
      BY <2>4, <2>5, <3>2 DEF queue
    <3>3. CASE \E D \in SUBSET active \ {{}} : Collect(D)
      BY <2>2, <2>4, <2>5, <3>3
    <3>4. CASE Deliver
      BY <2>3, <2>4, <2>5, <3>1, <3>4 DEF Deliver
    <3> QED
      BY <3>2, <3>3, <3>4, QueueSteps
  <2>6. CASE SetSnapshot /\ \E t \in rows : t.dev = d
    BY <2>6 DEF SetSnapshot, queue
  <2>7. CASE \E D \in SUBSET active \ {{}} : d \in D /\ Collect(D)
    BY <2>2, <2>7
  <2>8. CASE Deliver /\ (\E t \in rows : t.dev = d) /\ (active = {} \/ d \in active)
    BY <2>3, <2>8
  <2> QED
    BY <2>1, <2>5, <2>6, <2>7, <2>8, SnapshotSteps
<1>3. Spec => [](Inv /\ RemovedStaysRemoved)
  BY InvAlways, RemovedStay, PTL
<1>4. TypeOK /\ QueueInv /\ [Next]_vars => QueueInv'
  BY QueueNext
<1>5. Inv => TypeOK
  BY DEF Inv
<1> HIDE DEF Latest
<1>6. Spec => []Latest
  BY <1>1, <1>2, <1>3, <1>4, <1>5, QueueInit, PTL DEF Spec
<1> QED
  BY <1>6 DEF Latest
=============================================================================

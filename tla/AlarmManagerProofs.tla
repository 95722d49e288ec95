------------------------- MODULE AlarmManagerProofs -------------------------
(***************************************************************************)
(* The safety properties of AlarmManager, for any keys, devices, names and *)
(* ids and whatever calls fail.  AlarmInv is the invariant behind them:    *)
(* what the manager knows of the server at each step, and that the alarm   *)
(* it remembers for a key is one of the device it has found for that key.  *)
(***************************************************************************)
EXTENDS AlarmManager, FiniteSetTheorems, TLAPS

(* The parts of the invariant. *)

(* No two active alarms have the same id. *)
IdsDiffer ==
  \A s, r \in Slots : s # r /\ active[s] # NoAlarm /\ active[r] # NoAlarm =>
                        active[s].id # active[r].id

(* What is remembered for a key may only be active at the slot of that key. *)
CachedAtSlot ==
  \A k \in Keys, s \in Slots :
    cache[k] # NoAlarm /\ active[s] # NoAlarm /\ cache[k].id = active[s].id => s = Slot(k)

(* The device found for a name has a name that contains it, and is known
   before anything else is. *)
Found ==
  /\ \A d \in Devices : known[d] # NoDevice => known[d] \in Matches[d]
  /\ \A k \in Keys : cache[k] # NoAlarm => known[k[1]] # NoDevice
  /\ step \in {"ensure", "clear", "create"} => known[item.key[1]] # NoDevice

StatusHolds(k) == Own(k) => (k \in broken \/ Busy(k) \/ Follows(k))

(* Only between Clear and Create does the cache hold an alarm known to be gone. *)
CacheHolds(k) ==
  Own(k) /\ cache[k] # NoAlarm /\ k \notin broken /\ ~(Busy(k) /\ step = "create") =>
    active[k] = cache[k]

AtClear ==
  step = "clear" =>
    /\ state = cache[item.key]
    /\ item.status \in Severities => state.severity # item.status

AtCreate ==
  step = "create" =>
    /\ item.status \in Severities
    /\ Own(item.key) /\ item.key \notin broken => active[item.key] = NoAlarm

AlarmInv ==
  /\ TypeOK
  /\ IdsDiffer /\ CachedAtSlot /\ Found
  /\ \A k \in Keys : StatusHolds(k) /\ CacheHolds(k)
  /\ AtClear /\ AtCreate

(* Keys and slots are pairs. *)
LEMMA KeyParts ==
  ASSUME NEW k \in Keys
  PROVE  k \in Slots /\ k[1] \in Devices /\ k[2] \in Types /\ k = <<k[1], k[2]>>
  BY AlarmAssumption DEF Slots

(* The slot of a key is one its telemetry may end up at. *)
LEMMA SlotOfKey ==
  ASSUME TypeOK, Found, NEW k \in Keys, known[k[1]] # NoDevice
  PROVE  Slot(k) \in Slots /\ k \in Users(Slot(k))
<1>1. known[k[1]] \in Devices /\ known[k[1]] \in Matches[k[1]]
  BY KeyParts DEF TypeOK, Found
<1> QED
  BY <1>1, KeyParts DEF Slot, Slots, Users

(* Only the calls for a key of its own reach its alarm. *)
LEMMA OwnSlot ==
  ASSUME TypeOK, Found, NEW k \in Keys, NEW j \in Keys, Own(k), known[j[1]] # NoDevice
  PROVE  (Slot(j) = k) <=> (j = k)
<1>1. CASE j = k
  <2>1. known[k[1]] \in {k[1]}
    BY <1>1, KeyParts DEF Own, Found
  <2> QED
    BY <1>1, <2>1, KeyParts DEF Slot
<1>2. CASE j # k
  <2>1. j \in Users(Slot(j))
    BY SlotOfKey
  <2> QED
    BY <1>2, <2>1 DEF Own
<1> QED
  BY <1>1, <1>2

(* While a call is made there is an item. *)
LEMMA BusyItem ==
  ASSUME TypeOK, step # "idle"
  PROVE  /\ item \in Item /\ item.key \in Keys /\ item.status \in Statuses
         /\ item # NoItem
         /\ \A k \in Keys : Busy(k) <=> k = item.key
  BY AlarmAssumption DEF TypeOK, Item, Busy

LEMMA AlarmFields ==
  ASSUME NEW a \in AlarmOrNone, a # NoAlarm
  PROVE  a \in Alarm /\ a.id \in UNION {Ids[s] : s \in Slots} /\ a.severity \in Severities
  BY DEF AlarmOrNone, Alarm

(* There is always an id nobody remembers: one alarm of each slot and key. *)
LEMMA FreshIdExists ==
  ASSUME TypeOK, Slot(item.key) \in Slots
  PROVE  /\ FreshId \in Ids[Slot(item.key)]
         /\ \A s \in Slots : active[s] # NoAlarm => active[s].id # FreshId
         /\ \A k \in Keys : cache[k] # NoAlarm => cache[k].id # FreshId
<1> DEFINE AtServer == {s \in Slots : active[s] # NoAlarm}
           InCache  == {k \in Keys : cache[k] # NoAlarm}
           OnServer == {active[s].id : s \in AtServer}
           Cached   == {cache[k].id : k \in InCache}
           server_id == [s \in AtServer |-> active[s].id]
           cached_id == [k \in InCache |-> cache[k].id]
           pool      == Ids[Slot(item.key)]
<1>1. IsFiniteSet(Keys) /\ IsFiniteSet(Slots)
  BY AlarmAssumption, FS_Subset
<1>2. /\ IsFiniteSet(AtServer) /\ Cardinality(AtServer) <= Cardinality(Slots)
      /\ IsFiniteSet(InCache) /\ Cardinality(InCache) <= Cardinality(Keys)
  BY <1>1, FS_Subset
<1>3. IsFiniteSet(OnServer) /\ Cardinality(OnServer) <= Cardinality(AtServer)
  <2>1. server_id \in Surjection(AtServer, OnServer)
    BY DEF Surjection
  <2> QED
    BY <1>2, <2>1, FS_Surjection
<1>4. IsFiniteSet(Cached) /\ Cardinality(Cached) <= Cardinality(InCache)
  <2>1. cached_id \in Surjection(InCache, Cached)
    BY DEF Surjection
  <2> QED
    BY <1>2, <2>1, FS_Surjection
<1> HIDE DEF AtServer, InCache, OnServer, Cached
<1>5. /\ IsFiniteSet(OnServer \union Cached)
      /\ Cardinality(OnServer \union Cached) <= Cardinality(OnServer) + Cardinality(Cached)
  <2>1. IsFiniteSet(OnServer \intersect Cached)
    BY <1>3, FS_Subset
  <2>2. Cardinality(OnServer) \in Nat /\ Cardinality(Cached) \in Nat
        /\ Cardinality(OnServer \intersect Cached) \in Nat
    BY <1>3, <1>4, <2>1, FS_CardinalityType
  <2>3. IsFiniteSet(OnServer \union Cached)
        /\ Cardinality(OnServer \union Cached) =
             Cardinality(OnServer) + Cardinality(Cached) - Cardinality(OnServer \intersect Cached)
    BY <1>3, <1>4, FS_Union
  <2> QED
    BY <2>2, <2>3
<1>6. Cardinality(OnServer \union Cached) < Cardinality(pool)
  BY <1>1, <1>2, <1>3, <1>4, <1>5, AlarmAssumption, FS_CardinalityType
<1>7. PICK id \in pool : id \notin OnServer \union Cached
  <2>1. ~(pool \subseteq OnServer \union Cached)
    BY <1>5, <1>6, AlarmAssumption, FS_Subset, FS_CardinalityType
  <2> QED
    BY <2>1
<1>8. /\ \A s \in Slots : active[s] # NoAlarm => active[s].id # id
      /\ \A k \in Keys : cache[k] # NoAlarm => cache[k].id # id
  BY <1>7 DEF OnServer, Cached, AtServer, InCache
<1> QED
  BY <1>8 DEF FreshId

(* How the processing of an item ends, with success or without. *)
LEMMA ItemEnds ==
  ASSUME TypeOK, step # "idle", Processed \/ Abort
  PROVE  /\ item' \in Item \union {NoItem}
         /\ step' \in {"idle", "lookup"} /\ (step' = "idle" <=> item' = NoItem)
         /\ state' = NoAlarm
         /\ said' \in [Keys -> Statuses \union {"none"}]
         /\ \A k \in Keys : k # item.key => said'[k] = said[k]
         /\ Processed => said'[item.key] = item.status
         /\ Abort => said'[item.key] = "none" /\ step' = "idle" /\ item' = NoItem
<1>1. item.key \in Keys /\ item.status \in Statuses /\ NoItem \notin Item
  BY BusyItem, AlarmAssumption
<1> QED
  BY <1>1 DEF TypeOK, Processed, Abort, NextItem, Return

LEMMA AlarmInit == Init => AlarmInv
<1> SUFFICES ASSUME Init PROVE AlarmInv
  OBVIOUS
<1>1. TypeOK
  BY DEF Init, TypeOK, Steps, AlarmOrNone
<1>2. IdsDiffer /\ CachedAtSlot /\ Found
  BY DEF Init, IdsDiffer, CachedAtSlot, Found
<1> QED
  BY <1>1, <1>2 DEF Init, AlarmInv, StatusHolds, CacheHolds, AtClear, AtCreate, Follows, Busy

(* What the decision about an alarm leads to. *)
LEMMA DecideEnds ==
  ASSUME TypeOK, step = "ensure", NEW alarm \in AlarmOrNone, Decide(alarm)
  PROVE  /\ item' \in Item \union {NoItem} /\ state' \in AlarmOrNone
         /\ said' \in [Keys -> Statuses \union {"none"}]
         /\ \A k \in Keys : k # item.key => said'[k] = said[k]
         /\ \/ /\ Processed
               /\ step' \in {"idle", "lookup"} /\ (step' = "idle" <=> item' = NoItem)
               /\ said'[item.key] = item.status
               /\ \/ item.status = "normal" /\ alarm = NoAlarm
                  \/ alarm # NoAlarm /\ alarm.severity = item.status
            \/ /\ step' = "clear" /\ item' = item /\ said' = said
               /\ state' = alarm /\ alarm # NoAlarm
               /\ item.status \in Severities => alarm.severity # item.status
            \/ /\ step' = "create" /\ item' = item /\ said' = said
               /\ alarm = NoAlarm /\ item.status \in Severities
<1>1. CASE Processed
  <2>1. \/ item.status = "normal" /\ alarm = NoAlarm
        \/ alarm # NoAlarm /\ alarm.severity = item.status
        \/ step' \in {"clear", "create"}
    BY <1>1, BusyItem DEF Decide, Statuses
  <2> QED
    BY <1>1, <2>1, ItemEnds DEF AlarmOrNone
<1>2. CASE ~Processed
  BY <1>2, BusyItem DEF Decide, TypeOK
<1> QED
  BY <1>1, <1>2

(* The server's alarms keep apart when none is added, or one with an id of its
   own, and so do those remembered when none is or one the server has. *)
LEMMA IdsStayApart ==
  ASSUME TypeOK, IdsDiffer, CachedAtSlot, known' = known,
         \A s \in Slots : active'[s] \in {active[s], NoAlarm},
         \A k \in Keys : cache'[k] \in {cache[k], NoAlarm}
  PROVE  IdsDiffer' /\ CachedAtSlot'
<1>1. IdsDiffer'
  BY DEF IdsDiffer
<1>2. \A k \in Keys : Slot(k)' = Slot(k)
  BY DEF Slot
<1> QED
  BY <1>1, <1>2 DEF CachedAtSlot

(* Clearing an alarm touches none but the one of the key. *)
LEMMA ClearsOwn ==
  ASSUME AlarmInv, step = "clear", ClearOnServer
  PROVE  /\ active' \in [Slots -> AlarmOrNone]
         /\ \A s \in Slots : active'[s] \in {active[s], NoAlarm}
         /\ \A s \in Slots : active'[s] # active[s] => s = Slot(item.key)
         /\ Own(item.key) /\ item.key \notin broken => active'[item.key] = NoAlarm
<1>1. /\ item.key \in Keys /\ Busy(item.key) /\ item.key \in Slots
      /\ state = cache[item.key] /\ state # NoAlarm
  BY BusyItem, KeyParts DEF AlarmInv, AtClear, TypeOK
<1>2. \A s \in Slots : active'[s] = IF active[s] # NoAlarm /\ active[s].id = state.id
                                      THEN NoAlarm ELSE active[s]
  BY DEF ClearOnServer
<1>3. \A s \in Slots : active'[s] # active[s] => s = Slot(item.key)
  BY <1>1, <1>2 DEF AlarmInv, CachedAtSlot
<1>4. Own(item.key) /\ item.key \notin broken => active[item.key] = state
  BY <1>1 DEF AlarmInv, CacheHolds
<1>5. active' \in [Slots -> AlarmOrNone]
  BY DEF ClearOnServer, AlarmInv, TypeOK, AlarmOrNone
<1> QED
  BY <1>1, <1>2, <1>3, <1>4, <1>5

(* What the server has after a creation. *)
LEMMA Creates ==
  ASSUME AlarmInv, step = "create"
  PROVE  /\ item.key \in Keys /\ item.status \in Severities
         /\ Slot(item.key) \in Slots /\ item.key \in Users(Slot(item.key))
         /\ Created \in Alarm /\ Created # NoAlarm /\ Created.severity = item.status
         /\ IF active[Slot(item.key)] = NoAlarm THEN Created.id = FreshId
                                                ELSE Created.id = active[Slot(item.key)].id
<1>1. item.key \in Keys /\ item.status \in Severities
  BY BusyItem DEF AlarmInv, AtCreate
<1>2. Slot(item.key) \in Slots /\ item.key \in Users(Slot(item.key))
  BY <1>1, SlotOfKey DEF AlarmInv, Found
<1> DEFINE old == active[Slot(item.key)]
<1>3. Created = [id |-> IF old = NoAlarm THEN FreshId ELSE old.id, severity |-> item.status]
  BY DEF Created
<1>4. old # NoAlarm => old.id \in UNION {Ids[s] : s \in Slots}
  BY <1>2, AlarmFields DEF AlarmInv, TypeOK
<1>5. Created \in Alarm
  BY <1>1, <1>2, <1>3, <1>4, FreshIdExists DEF Alarm, AlarmInv
<1> QED
  BY <1>1, <1>2, <1>3, <1>5, AlarmAssumption

(* After a creation the alarms are still apart. *)
LEMMA CreatedApart ==
  ASSUME AlarmInv, step = "create", known' = known,
         active' = [active EXCEPT ![Slot(item.key)] = Created],
         cache' \in {cache, [cache EXCEPT ![item.key] = Created]}
  PROVE  IdsDiffer' /\ CachedAtSlot'
<1> DEFINE c == item.key
           t == Slot(item.key)
<1>1. /\ c \in Keys /\ t \in Slots /\ Created \in Alarm /\ Created # NoAlarm
      /\ IF active[t] = NoAlarm THEN Created.id = FreshId ELSE Created.id = active[t].id
  BY Creates
<1>2. active'[t] = Created /\ \A s \in Slots \ {t} : active'[s] = active[s]
  BY <1>1 DEF AlarmInv, TypeOK
<1>3. \A s \in Slots \ {t} : active[s] # NoAlarm => active[s].id # Created.id
  BY <1>1, FreshIdExists DEF AlarmInv, IdsDiffer
<1>4. IdsDiffer'
  BY <1>1, <1>2, <1>3 DEF IdsDiffer, AlarmInv
<1>5. \A k \in Keys : Slot(k)' = Slot(k)
  BY DEF Slot
<1>6. \A k \in Keys : cache[k] # NoAlarm /\ cache[k].id = Created.id => t = Slot(k)
  BY <1>1, FreshIdExists DEF AlarmInv, CachedAtSlot
<1>7. ASSUME NEW k \in Keys, NEW s \in Slots,
             cache'[k] # NoAlarm, active'[s] # NoAlarm, cache'[k].id = active'[s].id
      PROVE  s = Slot(k)
  <2>1. CASE cache'[k] = cache[k]
    BY <1>1, <1>2, <1>6, <1>7, <2>1 DEF AlarmInv, CachedAtSlot
  <2>2. CASE cache'[k] # cache[k]
    <3>1. k = c /\ cache'[k] = Created
      BY <1>1, <2>2 DEF AlarmInv, TypeOK
    <3> QED
      BY <1>2, <1>3, <1>7, <3>1
  <2> QED
    BY <2>1, <2>2
<1> QED
  BY <1>4, <1>5, <1>7 DEF CachedAtSlot

LEMMA AlarmStep == AlarmInv /\ [Next]_vars => AlarmInv'
<1> SUFFICES ASSUME AlarmInv, [Next]_vars PROVE AlarmInv'
  OBVIOUS
<1> DEFINE KeysInv == \A k \in Keys : StatusHolds(k) /\ CacheHolds(k)
           Apart   == IdsDiffer /\ CachedAtSlot
<1>t. TypeOK /\ Apart /\ Found /\ KeysInv /\ AtClear /\ AtCreate
  BY DEF AlarmInv
<1>own. \A k \in Keys : Own(k)' = Own(k)
  BY DEF Own, Users
<1>same. ASSUME UNCHANGED <<active, cache, known>> PROVE Apart'
  BY <1>same, <1>t DEF IdsDiffer, CachedAtSlot, Slot
<1> USE DEF server, caches, history
<1>1. CASE ProcessBatch
  <2>0. step = "idle" /\ NextItem /\ UNCHANGED <<active, cache, known, said, broken>>
    BY <1>1 DEF ProcessBatch
  <2>1. TypeOK'
    BY <2>0, <1>t, AlarmAssumption DEF NextItem, TypeOK, Steps, AlarmOrNone
  <2>2. Found'
    BY <2>0, <1>t DEF Found, NextItem
  <2>3. KeysInv'
    BY <2>0, <1>t, <1>own, AlarmAssumption DEF NextItem, StatusHolds, CacheHolds, Busy, Follows, TypeOK
  <2> QED
    BY <2>0, <1>same, <2>1, <2>2, <2>3 DEF AlarmInv, NextItem, AtClear, AtCreate
<1>2. CASE LookupOriginator
  <2> DEFINE d == item.key[1]
  <2>0. step = "lookup" /\ item.key \in Keys /\ d \in Devices /\ cache[item.key] \in AlarmOrNone
    BY <1>2, <1>t, BusyItem, KeyParts DEF LookupOriginator, TypeOK
  <2>1. PICK found \in Matches[d] : known' = IF known[d] = NoDevice THEN [known EXCEPT ![d] = found] ELSE known
    BY <1>2 DEF LookupOriginator, GetDeviceByName
  <2>2. found \in Devices /\ found # NoDevice
    BY <2>0, AlarmAssumption
  <2>3. /\ known' \in [Devices -> Devices \union {NoDevice}] /\ known'[d] # NoDevice
        /\ \A e \in Devices : known[e] # NoDevice => known'[e] = known[e]
        /\ \A e \in Devices : known'[e] # NoDevice => known'[e] \in Matches[e]
    BY <1>t, <2>0, <2>1, <2>2 DEF TypeOK, Found
  <2>4. /\ step' = "ensure" /\ UNCHANGED <<active, cache, item, state, said, broken>>
    BY <1>2 DEF LookupOriginator, GetDeviceByName
  <2>5. TypeOK'
    BY <1>t, <2>0, <2>3, <2>4 DEF TypeOK, Steps
  <2>6. \A k \in Keys : cache[k] # NoAlarm => Slot(k)' = Slot(k)
    BY <1>t, <2>3, KeyParts DEF Slot, Found
  <2>7. Apart'
    BY <1>t, <2>4, <2>6 DEF IdsDiffer, CachedAtSlot
  <2>8. Found'
    BY <1>t, <2>0, <2>3, <2>4, KeyParts DEF Found
  <2>9. KeysInv'
    BY <1>t, <1>own, <2>0, <2>4 DEF StatusHolds, CacheHolds, Busy, Follows
  <2> QED
    BY <2>4, <2>5, <2>7, <2>8, <2>9 DEF AlarmInv, AtClear, AtCreate
<1>3. CASE LookupFailed \/ EnsureFailed
  <2>0. /\ step \in {"lookup", "ensure"} /\ Abort
        /\ UNCHANGED <<active, cache, known, broken>>
    BY <1>3 DEF LookupFailed, EnsureFailed
  <2>1. TypeOK'
    BY <1>t, <2>0, ItemEnds DEF TypeOK, Steps, AlarmOrNone
  <2>2. Found'
    BY <1>t, <2>0, ItemEnds DEF Found
  <2>3. KeysInv'
    BY <1>t, <1>own, <2>0, ItemEnds, BusyItem DEF StatusHolds, CacheHolds, Busy, Follows
  <2> QED
    BY <2>0, <1>t, <1>same, <2>1, <2>2, <2>3, ItemEnds DEF AlarmInv, AtClear, AtCreate
<1>4. CASE EnsureFromCache
  <2>0. /\ step = "ensure" /\ cache[item.key] # NoAlarm /\ Decide(cache[item.key])
        /\ cache[item.key] \in AlarmOrNone /\ item.key \in Keys
        /\ UNCHANGED <<active, cache, known, broken>>
    BY <1>4, <1>t, BusyItem DEF EnsureFromCache, TypeOK
  <2>1. TypeOK'
    BY <1>t, <2>0, DecideEnds, BusyItem DEF TypeOK, Steps
  <2>2. Found'
    BY <1>t, <2>0, DecideEnds DEF Found
  <2>3. KeysInv'
    BY <1>t, <1>own, <2>0, DecideEnds, BusyItem DEF StatusHolds, CacheHolds, Busy, Follows
  <2>4. AtClear' /\ AtCreate'
    BY <1>t, <1>own, <2>0, DecideEnds DEF AtClear, AtCreate
  <2> QED
    BY <2>0, <1>same, <2>1, <2>2, <2>3, <2>4 DEF AlarmInv
<1>5. CASE EnsureFromServer
  <2> DEFINE c == item.key
             t == Slot(item.key)
  <2>0. step = "ensure" /\ cache[c] = NoAlarm /\ c \in Keys /\ known[c[1]] # NoDevice /\ t \in Slots
    BY <1>5, <1>t, BusyItem, SlotOfKey DEF EnsureFromServer, Found
  <2>1. /\ cache' = [cache EXCEPT ![c] = active[t]] /\ Decide(active[t])
        /\ broken' = broken \ {c} /\ active' = active /\ known' = known
    <3>1. OfType(c[2], ActiveAlarms(known[c[1]])) = IF active[t] = NoAlarm THEN {} ELSE {t}
      <4>1. \A s \in Slots : s[1] = known[c[1]] /\ s[2] = c[2] <=> s = t
        BY <2>0 DEF Slot, Slots
      <4> QED
        BY <2>0, <4>1 DEF OfType, ActiveAlarms
    <3> QED
      BY <1>5, <3>1 DEF EnsureFromServer
  <2>2. /\ active[t] \in AlarmOrNone /\ cache' \in [Keys -> AlarmOrNone] /\ cache'[c] = active[t]
        /\ \A k \in Keys \ {c} : cache'[k] = cache[k]
    BY <1>t, <2>0, <2>1 DEF TypeOK
  <2>3. TypeOK'
    BY <1>t, <2>0, <2>1, <2>2, DecideEnds, BusyItem DEF TypeOK, Steps
  <2>4. Apart'
    <3>1. IdsDiffer' /\ \A k \in Keys : Slot(k)' = Slot(k)
      BY <1>t, <2>1 DEF IdsDiffer, Slot
    <3> QED
      BY <1>t, <2>0, <2>1, <2>2, <3>1 DEF CachedAtSlot, IdsDiffer
  <2>5. Found'
    BY <1>t, <2>0, <2>1, <2>2, DecideEnds DEF Found
  <2>6. Own(c) => t = c
    BY <1>t, <2>0, OwnSlot
  <2>7. KeysInv'
    <3> SUFFICES ASSUME NEW k \in Keys PROVE StatusHolds(k)' /\ CacheHolds(k)'
      OBVIOUS
    <3>1. CASE k = c
      BY <1>t, <1>own, <2>0, <2>1, <2>2, <2>6, <3>1, DecideEnds, BusyItem DEF StatusHolds, CacheHolds, Busy, Follows
    <3>2. CASE k # c
      BY <1>t, <1>own, <2>0, <2>1, <2>2, <3>2, DecideEnds, BusyItem DEF StatusHolds, CacheHolds, Busy, Follows, TypeOK
    <3> QED
      BY <3>1, <3>2
  <2>8. AtClear' /\ AtCreate'
    BY <1>t, <1>own, <2>0, <2>1, <2>2, <2>6, DecideEnds DEF AtClear, AtCreate
  <2> QED
    BY <2>3, <2>4, <2>5, <2>7, <2>8 DEF AlarmInv
<1>6. CASE Clear
  <2> DEFINE c == item.key
  <2>0. step = "clear" /\ ClearOnServer /\ c \in Keys /\ item \in Item /\ known' = known
        /\ known[c[1]] # NoDevice
    BY <1>6, <1>t, BusyItem DEF Clear, Found
  <2>1. /\ active' \in [Slots -> AlarmOrNone]
        /\ \A s \in Slots : active'[s] \in {active[s], NoAlarm}
        /\ \A s \in Slots : active'[s] # active[s] => s = Slot(c)
        /\ Own(c) /\ c \notin broken => active'[c] = NoAlarm
    BY <2>0, ClearsOwn
  <2>2. \A k \in Keys : Own(k) /\ k # c => active'[k] = active[k]
    BY <1>t, <2>0, <2>1, OwnSlot, KeyParts
  <2>3. CASE item.status \in Severities
    <3>1. step' = "create" /\ UNCHANGED <<cache, item, state, said, broken>>
      BY <1>6, <2>3 DEF Clear
    <3>2. TypeOK'
      BY <1>t, <2>0, <2>1, <3>1, BusyItem DEF TypeOK, Steps
    <3>3. Apart'
      BY <1>t, <2>0, <2>1, <3>1, IdsStayApart
    <3>4. Found'
      BY <1>t, <2>0, <3>1 DEF Found
    <3>5. KeysInv'
      BY <1>t, <1>own, <2>0, <2>2, <3>1, BusyItem DEF StatusHolds, CacheHolds, Busy, Follows
    <3>6. AtClear' /\ AtCreate'
      BY <1>own, <2>0, <2>1, <2>3, <3>1 DEF AtClear, AtCreate
    <3> QED
      BY <3>2, <3>3, <3>4, <3>5, <3>6 DEF AlarmInv
  <2>4. CASE item.status \notin Severities
    <3>1. /\ cache' = [cache EXCEPT ![c] = NoAlarm] /\ Processed
          /\ broken' = IF active'[Slot(c)] = NoAlarm THEN broken \ {c} ELSE broken
      BY <1>6, <2>4 DEF Clear
    <3>2. cache' \in [Keys -> AlarmOrNone] /\ cache'[c] = NoAlarm
          /\ \A k \in Keys \ {c} : cache'[k] = cache[k]
      BY <1>t, <2>0, <3>1 DEF TypeOK, AlarmOrNone
    <3>3. TypeOK'
      BY <1>t, <2>0, <2>1, <3>1, <3>2, ItemEnds DEF TypeOK, Steps, AlarmOrNone
    <3>4. Apart'
      <4>1. \A k \in Keys : cache'[k] \in {cache[k], NoAlarm}
        BY <3>2
      <4> QED
        BY <1>t, <2>0, <2>1, <4>1, IdsStayApart
    <3>5. Found'
      BY <1>t, <2>0, <3>1, <3>2, ItemEnds DEF Found
    <3>6. KeysInv'
      <4>1. item.status = "normal"
        BY <1>t, <2>0, <2>4, BusyItem DEF Statuses
      <4>2. Own(c) => Slot(c) = c
        BY <1>t, <2>0, OwnSlot
      <4>3. Own(c) => c \in broken' \/ active'[c] = NoAlarm
        BY <2>1, <3>1, <4>2
      <4>4. \A k \in Keys \ {c} : k \in broken' <=> k \in broken
        BY <3>1
      <4> HIDE DEF c
      <4>5. ASSUME NEW k \in Keys, Own(k)
            PROVE  StatusHolds(k)' /\ CacheHolds(k)'
        <5>1. CASE k = c
          BY <1>t, <2>0, <3>1, <3>2, <4>1, <4>3, <5>1, ItemEnds DEF StatusHolds, CacheHolds, Follows, c
        <5>2. CASE k # c
          BY <1>t, <4>5, <2>0, <2>2, <3>1, <3>2, <4>4, <5>2, ItemEnds, BusyItem DEF StatusHolds, CacheHolds, Busy, Follows, c
        <5> QED
          BY <5>1, <5>2
      <4> QED
        BY <1>own, <4>5 DEF StatusHolds, CacheHolds
    <3> QED
      BY <1>t, <2>0, <3>1, <3>3, <3>4, <3>5, <3>6, ItemEnds DEF AlarmInv, AtClear, AtCreate
  <2> QED
    BY <2>3, <2>4
<1>7. CASE ClearFailed
  <2> DEFINE c == item.key
  <2>0. step = "clear" /\ Abort /\ c \in Keys /\ known[c[1]] # NoDevice /\ UNCHANGED <<cache, known>>
    BY <1>7, <1>t, BusyItem DEF ClearFailed, Found
  <2>1. /\ active' \in [Slots -> AlarmOrNone]
        /\ \A s \in Slots : active'[s] \in {active[s], NoAlarm}
        /\ \A s \in Slots : active'[s] # active[s] => s = Slot(c)
        /\ \/ active' = active /\ broken' = broken
           \/ broken' = broken \union {c}
    BY <1>7, <1>t, ClearsOwn DEF ClearFailed, TypeOK
  <2>2. \A k \in Keys : Own(k) /\ k # c => active'[k] = active[k]
    BY <1>t, <2>0, <2>1, OwnSlot, KeyParts
  <2>3. TypeOK'
    BY <1>t, <2>0, <2>1, ItemEnds DEF TypeOK, Steps, AlarmOrNone
  <2>4. Apart'
    BY <1>t, <2>0, <2>1, IdsStayApart
  <2>5. Found'
    BY <1>t, <2>0, ItemEnds DEF Found
  <2>6. KeysInv'
    BY <1>t, <1>own, <2>0, <2>1, <2>2, ItemEnds, BusyItem DEF StatusHolds, CacheHolds, Busy, Follows
  <2> QED
    BY <1>t, <2>0, <2>3, <2>4, <2>5, <2>6, ItemEnds DEF AlarmInv, AtClear, AtCreate
<1>8. CASE Create
  <2> DEFINE c == item.key
  <2>0. /\ step = "create" /\ Processed /\ known' = known
        /\ active' = [active EXCEPT ![Slot(c)] = Created] /\ cache' = [cache EXCEPT ![c] = Created]
        /\ broken' = broken \ {c}
    BY <1>8 DEF Create
  <2>1. /\ c \in Keys /\ known[c[1]] # NoDevice
        /\ active' \in [Slots -> AlarmOrNone] /\ cache' \in [Keys -> AlarmOrNone]
        /\ active'[Slot(c)] = Created /\ cache'[c] = Created
        /\ \A s \in Slots \ {Slot(c)} : active'[s] = active[s]
        /\ \A k \in Keys \ {c} : cache'[k] = cache[k]
    BY <1>t, <2>0, Creates DEF TypeOK, AlarmOrNone, Found
  <2>2. \A k \in Keys : Own(k) => IF k = c THEN active'[k] = Created ELSE active'[k] = active[k]
    BY <1>t, <2>0, <2>1, OwnSlot, KeyParts
  <2>3. TypeOK'
    BY <1>t, <2>0, <2>1, ItemEnds DEF TypeOK, Steps, AlarmOrNone
  <2>4. Apart'
    BY <2>0, CreatedApart
  <2>5. Found'
    BY <1>t, <2>0, <2>1, ItemEnds DEF Found
  <2>6. KeysInv'
    BY <1>t, <1>own, <2>0, <2>1, <2>2, Creates, ItemEnds, BusyItem DEF StatusHolds, CacheHolds, Busy, Follows
  <2> QED
    BY <1>t, <2>0, <2>3, <2>4, <2>5, <2>6, ItemEnds DEF AlarmInv, AtClear, AtCreate
<1>9. CASE CreateFailed
  <2> DEFINE c == item.key
  <2>0. /\ step = "create" /\ Abort /\ UNCHANGED <<cache, known>>
        /\ active' = active \/ active' = [active EXCEPT ![Slot(c)] = Created]
        /\ broken' = IF cache[c] = NoAlarm THEN broken ELSE broken \union {c}
    BY <1>9 DEF CreateFailed
  <2>1. /\ c \in Keys /\ known[c[1]] # NoDevice /\ active' \in [Slots -> AlarmOrNone]
        /\ \A s \in Slots \ {Slot(c)} : active'[s] = active[s]
    BY <1>t, <2>0, Creates DEF TypeOK, AlarmOrNone, Found
  <2>2. \A k \in Keys : Own(k) /\ k # c => active'[k] = active[k]
    BY <1>t, <2>0, <2>1, OwnSlot, KeyParts
  <2>3. TypeOK'
    BY <1>t, <2>0, <2>1, ItemEnds DEF TypeOK, Steps, AlarmOrNone
  <2>4. Apart'
    BY <1>same, <2>0, CreatedApart
  <2>5. Found'
    BY <1>t, <2>0, <2>1, ItemEnds DEF Found
  <2>6. KeysInv'
    BY <1>t, <1>own, <2>0, <2>1, <2>2, ItemEnds, BusyItem DEF StatusHolds, CacheHolds, Busy, Follows
  <2> QED
    BY <1>t, <2>0, <2>3, <2>4, <2>5, <2>6, ItemEnds DEF AlarmInv, AtClear, AtCreate
<1>10. CASE Restart
  <2>1. TypeOK'
    BY <1>10, <1>t DEF Restart, Return, TypeOK, Steps, AlarmOrNone
  <2>2. Apart' /\ Found'
    BY <1>10, <1>t DEF Restart, Return, IdsDiffer, CachedAtSlot, Found
  <2>3. KeysInv'
    BY <1>10, <1>t, <1>own DEF Restart, Return, StatusHolds, CacheHolds, Busy, Follows
  <2> QED
    BY <1>10, <2>1, <2>2, <2>3 DEF AlarmInv, Restart, Return, AtClear, AtCreate
<1>11. ASSUME NEW t \in Slots, Operator(t)
       PROVE  AlarmInv'
  <2>0. /\ active' = [active EXCEPT ![t] = NoAlarm] /\ broken' = broken \union Users(t)
        /\ said' = [k \in Keys |-> IF k \in Users(t) THEN "none" ELSE said[k]]
        /\ UNCHANGED <<cache, known, item, step, state>>
    BY <1>11 DEF Operator
  <2>1. Users(t) \subseteq Keys /\ \A k \in Keys : Own(k) /\ k \notin Users(t) => active'[k] = active[k]
    <3>1. \A k \in Keys : Own(k) /\ k \notin Users(t) => k # t
      BY DEF Own
    <3> QED
      BY <1>t, <2>0, <3>1, KeyParts DEF TypeOK, Users
  <2>2. TypeOK'
    BY <1>t, <2>0, <2>1 DEF TypeOK, AlarmOrNone
  <2>3. Apart'
    <3>1. \A s \in Slots : active'[s] \in {active[s], NoAlarm}
      BY <1>t, <2>0 DEF TypeOK
    <3> QED
      BY <1>t, <2>0, <3>1, IdsStayApart
  <2>4. Found'
    BY <1>t, <2>0 DEF Found
  <2>5. KeysInv'
    BY <1>t, <1>own, <2>0, <2>1 DEF StatusHolds, CacheHolds, Busy, Follows, TypeOK
  <2>6. AtClear' /\ AtCreate'
    <3>1. step = "create" => item.key \in Keys
      BY <1>t, BusyItem
    <3> QED
      BY <1>t, <1>own, <2>0, <2>1, <3>1 DEF AtClear, AtCreate
  <2> QED
    BY <2>2, <2>3, <2>4, <2>5, <2>6 DEF AlarmInv
<1>12. CASE UNCHANGED vars
  <2>1. TypeOK' /\ Apart' /\ Found'
    BY <1>12, <1>t DEF vars, TypeOK, IdsDiffer, CachedAtSlot, Slot, Found
  <2>2. KeysInv' /\ AtClear' /\ AtCreate'
    BY <1>12, <1>t, <1>own DEF vars, StatusHolds, CacheHolds, Busy, Follows, AtClear, AtCreate
  <2> QED
    BY <2>1, <2>2 DEF AlarmInv
<1> QED
  BY <1>1, <1>2, <1>3, <1>4, <1>5, <1>6, <1>7, <1>8, <1>9, <1>10, <1>11, <1>12 DEF Next, Calls

THEOREM AlarmInvariant == Spec => []AlarmInv
  BY AlarmInit, AlarmStep, PTL DEF Spec

(* Every variable stays in its domain, an item is there exactly while a call is made,
   and what is to be cleared is an alarm. *)
THEOREM AlarmTypeCorrect == Spec => []TypeOK
  BY AlarmInvariant, PTL DEF AlarmInv

(* Between two batches the alarms follow the statuses of their keys, unless an alarm
   changed behind the cache or the key's name is not its own: alarm_manager.go:38-136. *)
THEOREM AlarmsFollow == Spec => []AlarmFollowsUnlessBroken
<1>1. AlarmInv => AlarmFollowsUnlessBroken
  BY DEF AlarmInv, StatusHolds, AlarmFollowsUnlessBroken
<1> QED
  BY <1>1, AlarmInvariant, PTL

(* Between two calls the cache is right about the alarms it holds for keys with a name
   of their own: alarm_manager.go:83-85, 132-134, 175-181. *)
THEOREM CacheTellsTruth == Spec => []CacheIsTrue
<1>1. AlarmInv => CacheIsTrue
  BY DEF AlarmInv, CacheHolds, CacheIsTrue
<1> QED
  BY <1>1, AlarmInvariant, PTL

(* Whatever the text search returns, only telemetry of its type of a device that may be
   taken for its own changes an alarm; if there is one such key, by a status that
   disagrees with the alarm: alarm_manager.go:70-74, 138-155, 171-178. *)
THEOREM AlarmsStaySeparate == Spec => AlarmsAreSeparate
<1>1. AlarmInv /\ [Next]_vars =>
        [\A s \in Slots : active[s] # NoAlarm /\ active'[s] # active[s] =>
           \/ step' = step
           \/ \E k \in Users(s) :
                /\ Busy(k)
                /\ Own(k) /\ k \notin broken' => item.status # active[s].severity]_vars
  <2> SUFFICES ASSUME AlarmInv, Next, NEW s \in Slots, active[s] # NoAlarm, active'[s] # active[s],
                      step' # step
               PROVE  /\ item.key \in Users(s) /\ Busy(item.key)
                      /\ Own(item.key) /\ item.key \notin broken' => item.status # active[s].severity
    BY DEF Users
  <2>0. TypeOK /\ Found /\ active[s] \in Alarm /\ active[s].severity \in Severities
    BY AlarmFields DEF AlarmInv, TypeOK
  <2>1. CASE Clear \/ ClearFailed
    <3> DEFINE c == item.key
    <3>1. step = "clear" /\ ClearOnServer
      BY <2>1 DEF Clear, ClearFailed, server
    <3>2. s = Slot(c) /\ Busy(c) /\ c \in Keys /\ known[c[1]] # NoDevice
      BY <2>0, <3>1, ClearsOwn, BusyItem DEF Found
    <3>3. c \in Users(s) /\ (Own(c) => s = c)
      BY <2>0, <3>2, SlotOfKey, OwnSlot
    <3>4. Own(c) /\ c \notin broken =>
            state = active[s] /\ (item.status \in Severities => state.severity # item.status)
      BY <3>1, <3>2, <3>3, <2>0 DEF AlarmInv, CacheHolds, AtClear, TypeOK
    <3>5. c \in broken /\ item.status \in Severities => c \in broken'
      BY <2>1 DEF Clear, ClearFailed, history
    <3> QED
      BY <2>0, <3>2, <3>3, <3>4, <3>5
  <2>2. CASE Create \/ CreateFailed
    <3>1. step = "create" /\ active' = [active EXCEPT ![Slot(item.key)] = Created]
      BY <2>2 DEF Create, CreateFailed, server
    <3>2. s = Slot(item.key) /\ Busy(item.key) /\ item.key \in Users(s)
      BY <2>0, <3>1, Creates, BusyItem DEF TypeOK
    <3>3. active'[s] = Created
      BY <2>0, <3>1, <3>2 DEF TypeOK
    <3>4. Created.id = active[s].id /\ Created.severity = item.status /\ Created \in Alarm
      BY <3>1, <3>2, Creates
    <3>5. item.status # active[s].severity
      BY <2>0, <3>3, <3>4 DEF Alarm
    <3> QED
      BY <3>2, <3>5
  <2>3. CASE \E t \in Slots : Operator(t)
    BY <2>3 DEF Operator
  <2> QED
    BY <2>1, <2>2, <2>3 DEF Next, Calls, ProcessBatch, LookupOriginator, LookupFailed,
       EnsureFromCache, EnsureFromServer, EnsureFailed, Restart, server
<1> QED
  BY <1>1, AlarmInvariant, PTL DEF Spec, AlarmsAreSeparate
=============================================================================

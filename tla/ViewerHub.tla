----------------------------- MODULE ViewerHub -----------------------------
(***************************************************************************)
(* What `nms-agentctl view` shows: the Hub of internal/viewer keeps a      *)
(* snapshot of telemetry and broadcasts messages to its subscribers, the   *)
(* Server gives each connection the snapshot and then the messages of a    *)
(* bounded channel, and the view command applies them to its own State     *)
(* (internal/adapters/base/state.go).                                      *)
(*                                                                         *)
(* The main goroutine alone writes the hub: RunOnce after it has stored a  *)
(* cycle, the adapter after it has sent a batch, buildPipeline at a start  *)
(* and a reload.  Each of these changes the hub under its lock and         *)
(* broadcasts after it has released it, so the goroutines of the           *)
(* connections run in between.                                             *)
(*                                                                         *)
(* A device has one metric here, so that telemetryKey is the device; the   *)
(* value of a reading is the number of the cycle it was made in.  Retries  *)
(* are disabled: every row is due, the oldest first.                       *)
(*                                                                         *)
(* A slice of telemetry is ordered, but it matters only how the readings   *)
(* of one device follow each other.  A batch is the readings it has of     *)
(* each device, which come in the order of the cycles; the snapshot has    *)
(* of each device a first entry, the one updates replace, and older ones   *)
(* behind it, the newest first, because it is read from the queue so.      *)
(***************************************************************************)
EXTENDS Integers, Sequences, FiniteSetsExt

CONSTANTS
  Devices,
  Viewers,     \* connections
  Alarming,    \* cycles whose readings carry a warning or critical status
  Cap,         \* capacity of a subscriber's channel
  MaxBatch,    \* delivery.max_batch
  SnapLimit,   \* rows of the queue a snapshot takes
  MaxCycle     \* bound: cycles

ASSUME ViewerAssumption ==
  /\ Cap \in Nat \ {0}
  /\ MaxBatch \in Nat \ {0}
  /\ SnapLimit \in Nat \ {0}
  /\ MaxCycle \in Nat
  /\ Alarming \subseteq 1..MaxCycle

VARIABLES
  rows,      \* telemetry in the queue
  cycle,     \* cycles done
  newest,    \* history: the cycle of the newest reading stored of a device
  active,    \* Hub.active
  snapshot,  \* Hub.snapshot
  outbox,    \* messages the running call of the hub has still to broadcast
  building,  \* is buildPipeline between SetActiveDevices and SetSnapshot?
  conn,      \* what each connection does
  chan,      \* the channel of each subscriber
  view,      \* what each viewer shows
  missed     \* history: a message passed the viewer by and no snapshot
             \* message has entered its channel since

hub     == <<active, snapshot, outbox, building>>
viewers == <<conn, chan, view, missed>>
queue   == <<rows, cycle, newest>>
vars    == <<queue, hub, viewers>>

Reading  == [dev : Devices, at : 1..MaxCycle]
Readings == [Devices -> SUBSET (1..MaxCycle)]

(* An entry of the snapshot; first = 0: the device has none.               *)
NoEntry == [first |-> 0, older |-> {}]
Entry   == {e \in [first : 0..MaxCycle, older : SUBSET (1..MaxCycle)] :
              e.first = 0 => e = NoEntry}

(* What a message says of each device: all its readings and the last one.  *)
Content == {c \in [Devices -> [last : 0..MaxCycle, all : SUBSET (1..MaxCycle)]] :
              \A d \in Devices : IF c[d].last = 0 THEN c[d].all = {}
                                 ELSE c[d].last \in c[d].all}
Message == [type : {"snapshot", "telemetry", "status"}, says : Content]

Msg(type, says) == [type |-> type, says |-> says]

ByDevice(T) == [d \in Devices |-> {t.at : t \in {u \in T : u.dev = d}}]
NoTelemetry == [d \in Devices |-> {}]

Known(snap) == {d \in Devices : snap[d].first # 0}
All(e)      == IF e.first = 0 THEN {} ELSE {e.first} \union e.older
LastOf(e)   == IF e.older = {} THEN e.first ELSE Min(e.older)

OfBatch(items) == [d \in Devices |->
  [last |-> IF items[d] = {} THEN 0 ELSE Max(items[d]), all |-> items[d]]]
OfSnapshot(snap) == [d \in Devices |->
  [last |-> LastOf(snap[d]), all |-> All(snap[d])]]

(* ORDER BY created_at, ASC or DESC, LIMIT n: the rows of one cycle have    *)
(* one time and come in any order.                                         *)
Limit(n, S)  == {T \in SUBSET S :
                   Cardinality(T) = IF n < Cardinality(S) THEN n ELSE Cardinality(S)}
Oldest(n, S) == {T \in Limit(n, S) : \A t \in T, u \in S \ T : t.at <= u.at}
Newest(n, S) == {T \in Limit(n, S) : \A t \in T, u \in S \ T : t.at >= u.at}

(* The state of the view command: the reading shown of each device, 0 for  *)
(* a device it does not know, and the alerts that have been seen.          *)
NewState == [shown |-> [d \in Devices |-> 0], alerts |-> {}]

Init ==
  /\ rows = {} /\ cycle = 0 /\ newest = [d \in Devices |-> 0]
  /\ active = {} /\ snapshot = [d \in Devices |-> NoEntry]
  /\ outbox = <<>> /\ building = FALSE
  /\ conn = [w \in Viewers |-> "away"]
  /\ chan = [w \in Viewers |-> <<>>]
  /\ view = [w \in Viewers |-> NewState]
  /\ missed = [w \in Viewers |-> FALSE]
-----------------------------------------------------------------------------
(* The hub *)

(* Mutant of FilterActive: nothing is filtered. *)
FilterActive_All(of, ids, none) == of

(* filterTelemetryByActive, for a batch and for the snapshot: no active     *)
(* device, no filter.                                                      *)
FilterActive(of, ids, none) ==
  [d \in Devices |-> IF ids = {} \/ d \in ids THEN of[d] ELSE none]

(* Mutant of Merge: a reading of a known device goes behind its entry. *)
Merge_Behind(snap, items) ==
  [d \in Devices |->
     CASE items[d] = {} -> snap[d]
       [] items[d] # {} /\ snap[d].first = 0 -> [NoEntry EXCEPT !.first = Max(items[d])]
       [] OTHER -> [snap[d] EXCEPT !.older = @ \union items[d]]]

(* mergeSnapshot: each reading replaces the first entry of its key.        *)
Merge(snap, items) ==
  [d \in Devices |->
     IF items[d] = {} THEN snap[d] ELSE [snap[d] EXCEPT !.first = Max(items[d])]]

(* Update up to its broadcast; "more" follows it.                          *)
Update(batch, more) ==
  LET items == FilterActive(ByDevice(batch), active, {})
  IN  /\ snapshot' = Merge(snapshot, items)
      /\ outbox' = (IF items = NoTelemetry THEN <<>>
                    ELSE <<Msg("telemetry", OfBatch(items))>>) \o more
      /\ UNCHANGED <<active, building>>

Free == outbox = <<>> /\ ~building

(* A send to a full channel is dropped. *)
Hear(q, m) == IF Len(q) < Cap THEN Append(q, m) ELSE q

(* broadcast, which holds the lock for all its subscribers. *)
Broadcast ==
  /\ outbox # <<>>
  /\ LET m == Head(outbox)
         Listens(w) == conn[w] \in {"listening", "gone"}
         Lost(w)    == conn[w] = "greeting" \/ (Listens(w) /\ Len(chan[w]) = Cap)
     IN  /\ chan' = [w \in Viewers |->
                       IF Listens(w) THEN Hear(chan[w], m) ELSE chan[w]]
         /\ missed' = [w \in Viewers |->
                         CASE m.type = "status" -> missed[w]
                           [] m.type # "status" /\ Lost(w) -> TRUE
                           [] OTHER -> missed[w] /\ m.type # "snapshot"]
  /\ outbox' = Tail(outbox)
  /\ UNCHANGED <<queue, active, snapshot, building, conn, view>>
-----------------------------------------------------------------------------
(* The main goroutine *)

(* RunOnce stores what the devices D answered and updates the observer. *)
Collect(D) ==
  LET items == {[dev |-> d, at |-> cycle + 1] : d \in D}
  IN  /\ Free /\ active # {} /\ cycle < MaxCycle
      /\ cycle' = cycle + 1
      /\ rows' = rows \union items
      /\ newest' = [d \in Devices |-> IF d \in D THEN cycle + 1 ELSE newest[d]]
      /\ Update(items, <<>>)
      /\ UNCHANGED viewers

Status == Msg("status", OfBatch(NoTelemetry))

(* The adapter publishes the oldest rows and updates its observer; then    *)
(* MarkDelivered deletes them, or fails.                                   *)
Deliver ==
  /\ Free /\ rows # {}
  /\ \E batch \in Oldest(MaxBatch, rows) :
       /\ Update(batch, <<Status>>)
       /\ rows' \in {rows, rows \ batch}
  /\ UNCHANGED <<cycle, newest, viewers>>

(* The adapter reports that it has no connection. *)
DeliverFails ==
  /\ Free /\ rows # {}
  /\ outbox' = <<Status>>
  /\ UNCHANGED <<queue, active, snapshot, building, viewers>>

(* buildPipeline at a start or a reload: SetActiveDevices ... *)
SetActiveDevices(ids) ==
  /\ Free
  /\ active' = ids
  /\ snapshot' = FilterActive(snapshot, ids, NoEntry)
  /\ outbox' = <<Msg("snapshot", OfSnapshot(snapshot'))>>
  /\ building' = TRUE
  /\ UNCHANGED <<queue, viewers>>

(* A snapshot read from rows of the queue, the newest first.               *)
QueueSnapshot(T) ==
  [d \in Devices |->
     LET at == ByDevice(T)[d]
     IN  IF at = {} THEN NoEntry
         ELSE [first |-> Max(at), older |-> at \ {Max(at)}]]

(* ... and SetSnapshot with what the queue holds of active devices; with   *)
(* no active device buildPipeline passes nothing.                          *)
SetSnapshot ==
  /\ building /\ outbox = <<>>
  /\ \E T \in Newest(SnapLimit, rows) :
       snapshot' = FilterActive(QueueSnapshot({t \in T : t.dev \in active}), active, NoEntry)
  /\ outbox' = <<Msg("snapshot", OfSnapshot(snapshot'))>>
  /\ building' = FALSE
  /\ UNCHANGED <<queue, active, viewers>>

(* The agent ends and starts again: hub and connections are new. *)
Restart ==
  /\ active # {}
  /\ active' = {} /\ snapshot' = [d \in Devices |-> NoEntry]
  /\ outbox' = <<>> /\ building' = FALSE
  /\ conn' = [w \in Viewers |-> "away"]
  /\ chan' = [w \in Viewers |-> <<>>]
  /\ view' = [w \in Viewers |-> NewState]
  /\ missed' = [w \in Viewers |-> FALSE]
  /\ UNCHANGED queue
-----------------------------------------------------------------------------
(* Server.handle and the view command *)

(* ApplyBatch: of several readings of a device the last is shown; an       *)
(* alert stays.                                                            *)
ApplyBatch(st, says) ==
  [shown  |-> [d \in Devices |->
                 IF says[d].last = 0 THEN st.shown[d] ELSE says[d].last],
   alerts |-> st.alerts \union {d \in Devices : says[d].all \intersect Alarming # {}}]

(* Mutant of Show: a snapshot is applied like telemetry. *)
Show_NoReset(st, m) == IF m.type = "status" THEN st ELSE ApplyBatch(st, m.says)

Show(st, m) ==
  CASE m.type = "snapshot"  -> ApplyBatch(NewState, m.says)
    [] m.type = "telemetry" -> ApplyBatch(st, m.says)
    [] m.type = "status"    -> st

(* A viewer connects and is sent the snapshot ... *)
Connect(w) ==
  /\ conn[w] = "away"
  /\ conn' = [conn EXCEPT ![w] = "greeting"]
  /\ view' = [view EXCEPT ![w] = Show(NewState, Msg("snapshot", OfSnapshot(snapshot)))]
  /\ missed' = [missed EXCEPT ![w] = FALSE]
  /\ UNCHANGED <<queue, hub, chan>>

(* ... and subscribed after that. *)
Subscribe(w) ==
  /\ conn[w] = "greeting"
  /\ conn' = [conn EXCEPT ![w] = "listening"]
  /\ UNCHANGED <<queue, hub, chan, view, missed>>

Receive(w) ==
  /\ conn[w] = "listening" /\ chan[w] # <<>>
  /\ view' = [view EXCEPT ![w] = Show(view[w], Head(chan[w]))]
  /\ chan' = [chan EXCEPT ![w] = Tail(chan[w])]
  /\ UNCHANGED <<queue, hub, conn, missed>>

(* The viewer is closed, which the server does not see ... *)
Close(w) ==
  /\ conn[w] = "listening"
  /\ conn' = [conn EXCEPT ![w] = "gone"]
  /\ view' = [view EXCEPT ![w] = NewState]
  /\ UNCHANGED <<queue, hub, chan, missed>>

(* ... until it has a message to write. *)
Unsubscribe(w) ==
  /\ conn[w] = "gone" /\ chan[w] # <<>>
  /\ conn' = [conn EXCEPT ![w] = "away"]
  /\ chan' = [chan EXCEPT ![w] = <<>>]
  /\ missed' = [missed EXCEPT ![w] = FALSE]
  /\ UNCHANGED <<queue, hub, view>>

Main ==
  \/ \E D \in SUBSET active \ {{}} : Collect(D)
  \/ Deliver \/ DeliverFails
  \/ \E ids \in SUBSET Devices : SetActiveDevices(ids)
  \/ SetSnapshot \/ Broadcast \/ Restart

Connection(w) ==
  Connect(w) \/ Subscribe(w) \/ Receive(w) \/ Close(w) \/ Unsubscribe(w)

Next == Main \/ \E w \in Viewers : Connection(w)
Spec == Init /\ [][Next]_vars
-----------------------------------------------------------------------------
(* Every variable stays in its domain; in particular a viewer that does not
   read holds at most Cap messages in memory (make(chan Message, 8)). *)
TypeOK ==
  /\ rows \subseteq Reading /\ cycle \in 0..MaxCycle
  /\ newest \in [Devices -> 0..MaxCycle]
  /\ active \subseteq Devices /\ snapshot \in [Devices -> Entry]
  /\ outbox \in Seq(Message) /\ building \in BOOLEAN
  /\ conn \in [Viewers -> {"away", "greeting", "listening", "gone"}]
  /\ chan \in [Viewers -> Seq(Message)]
  /\ \A w \in Viewers : Len(chan[w]) <= Cap
  /\ view \in [Viewers -> [shown : [Devices -> 0..MaxCycle], alerts : SUBSET Devices]]
  /\ missed \in [Viewers -> BOOLEAN]

(* A device that has been removed does not come back into the snapshot,    *)
(* whatever the queue still holds of it (SetActiveDevices and the filter   *)
(* of Update and SetSnapshot), unless the agent has no device left.        *)
RemovedStaysRemoved == active # {} => Known(snapshot) \subseteq active

(* What a viewer shows of a device is an entry the snapshot has of it.     *)
Agrees(shown, e) == IF shown = 0 THEN e.first = 0 ELSE shown \in All(e)

(* A viewer that has read all its messages and missed none since the last  *)
(* snapshot shows the devices of the hub's snapshot and no other, each     *)
(* with a reading the snapshot has of it, and no alert is missing,         *)
(* although snapshot and subscription are two steps, and a change of the   *)
(* hub and its broadcast are two others (handle, mergeSnapshot, view).     *)
ViewAgreesWithSnapshot ==
  \A w \in Viewers :
    conn[w] = "listening" /\ chan[w] = <<>> /\ ~missed[w] /\ outbox = <<>> =>
      \A d \in Devices :
        /\ Agrees(view[w].shown[d], snapshot[d])
        /\ view[w].shown[d] \in Alarming => d \in view[w].alerts

(* Everything that was stored of the device has been delivered. *)
Settled(d) == \A t \in rows : t.dev # d

(* Deliveries repeat older readings to the hub after newer ones, and a     *)
(* reload rebuilds the snapshot from the rows; once nothing of a device is *)
(* left to deliver, the entry updates go to is its newest reading.         *)
FirstIsLatestOnceDelivered ==
  \A d \in Known(snapshot) : Settled(d) => snapshot[d].first = newest[d]
=============================================================================

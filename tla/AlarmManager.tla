---------------------------- MODULE AlarmManager ----------------------------
(***************************************************************************)
(* The alarms nms-agent keeps on a ThingsBoard server, AlarmManager of     *)
(* internal/integrations/thingsboard/alarm_manager.go with the REST client *)
(* of client.go.  After each batch of telemetry that was published, the    *)
(* adapter hands the batch to ProcessBatch, which for each item with a     *)
(* threshold status                                                        *)
(*                                                                         *)
(*   looks the device up -> takes the alarm from its cache, or asks the    *)
(*       server -> clears it, creates it, or both                          *)
(*                                                                         *)
(* and stops at the first call that fails; the adapter only logs the error.*)
(* Every call is a round trip of its own: it may fail before it reaches    *)
(* the server, or after it took effect there.  The caches die with the     *)
(* process, or with the adapter when the configuration is reloaded.        *)
(*                                                                         *)
(* A key is the pair "device::alarmType"; several metrics, and the same    *)
(* metric of several interfaces, may share one.  The items of a batch are  *)
(* chosen as the loop gets to them, so a batch is of any length; those     *)
(* without a threshold status are skipped and left out.                    *)
(*                                                                         *)
(* The server keeps at most one active alarm of a device and a type.  The  *)
(* device of a key is found by a text search for its name, of which the    *)
(* first hit is taken: it may be any device whose name contains the one    *)
(* searched for, and what is done for the key is then done to its alarms.  *)
(***************************************************************************)
EXTENDS Naturals, FiniteSets

CONSTANTS
  Devices,         \* devices the server has
  Types,           \* alarm types
  Keys,            \* device::alarmType, those there is telemetry for
  Matches,         \* the devices whose names contain the name of a device
  Ids,             \* alarm ids the server may hand out for a device and a type
  NoAlarm, NoItem, NoDevice,
  CallsFail,       \* may a REST call fail?
  OperatorClears,  \* may an operator clear an alarm on the server?
  PagedAnswer      \* is the list of alarms wrapped in a PageData object, as
                   \* docs/thingsboard.json says?

Severities == {"warning", "critical"}
Statuses   == Severities \union {"normal"}

(* Where the server keeps alarms: a device and a type. *)
Slots == Devices \X Types

Alarm == [id : UNION {Ids[s] : s \in Slots}, severity : Severities]
Item  == [key : Keys, status : Statuses]

ASSUME AlarmAssumption ==
  /\ Keys \subseteq Slots
  /\ Matches \in [Devices -> SUBSET Devices] /\ \A d \in Devices : d \in Matches[d]
  /\ IsFiniteSet(Slots)
  /\ \A s \in Slots : IsFiniteSet(Ids[s]) /\ Cardinality(Ids[s]) > Cardinality(Slots) + Cardinality(Keys)
  /\ NoAlarm \notin Alarm /\ NoItem \notin Item /\ NoDevice \notin Devices
  /\ {CallsFail, OperatorClears, PagedAnswer} \subseteq BOOLEAN

VARIABLES
  active,   \* the server: the active alarm of each device and type, if any
  cache,    \* cache: the alarm the manager believes to be active for a key
  known,    \* originatorCache: the device found for each name, if any
  item,     \* the item ProcessBatch is at
  step,     \* where it is, "idle" between two batches
  state,    \* the alarmState of the item being processed
  said,     \* history: status last processed for a key without an error
  broken    \* history: keys whose alarm changed while the cache did not

server  == <<active>>
caches  == <<cache, known>>
history == <<said, broken>>
vars    == <<server, caches, item, step, state, history>>

Steps == {"idle", "lookup", "ensure", "clear", "create"}
(* An item of k is being processed. *)
Busy(k) == item # NoItem /\ item.key = k

(* The alarm the calls for a key are about: of the device found for its name. *)
Slot(k) == <<known[k[1]], k[2]>>

(* The keys whose telemetry may end up at an alarm. *)
Users(s) == {k \in Keys : k[2] = s[2] /\ s[1] \in Matches[k[1]]}

(* Nothing but its device answers to the name of k, which is part of no other
   name there is telemetry of the same type for. *)
Own(k) == Matches[k[1]] = {k[1]} /\ Users(k) = {k}

Init ==
  /\ active = [s \in Slots |-> NoAlarm]
  /\ cache = [k \in Keys |-> NoAlarm]
  /\ known = [d \in Devices |-> NoDevice]
  /\ item = NoItem
  /\ step = "idle"
  /\ state = NoAlarm
  /\ said = [k \in Keys |-> "none"]
  /\ broken = {}
-----------------------------------------------------------------------------
(* The loop of ProcessBatch *)

Return    == item' = NoItem /\ step' = "idle" /\ state' = NoAlarm
NextItem  == item' \in Item /\ step' = "lookup" /\ state' = NoAlarm

(* The item has been processed: on to the next one, or return nil. *)
Processed ==
  /\ NextItem \/ Return
  /\ said' = [said EXCEPT ![item.key] = item.status]

(* A call failed: ProcessBatch returns, the items left are dropped. *)
Abort ==
  /\ Return
  /\ said' = [said EXCEPT ![item.key] = "none"]

ProcessBatch ==
  /\ step = "idle"
  /\ NextItem
  /\ UNCHANGED <<server, caches, history>>

(* The devices GetDeviceByName may return: the first hit of a text search. *)
GetDeviceByName(d) == Matches[d]

(* lookupOriginator: from its cache, or GetDeviceByName. *)
LookupOriginator ==
  /\ step = "lookup"
  /\ \E found \in GetDeviceByName(item.key[1]) :
        known' = IF known[item.key[1]] = NoDevice
                   THEN [known EXCEPT ![item.key[1]] = found] ELSE known
  /\ step' = "ensure"
  /\ UNCHANGED <<server, cache, item, state, history>>

LookupFailed ==
  /\ CallsFail
  /\ step = "lookup"
  /\ known[item.key[1]] = NoDevice
  /\ Abort
  /\ UNCHANGED <<server, caches, broken>>

(* upsertAlarm and clearAlarm once the alarm is known: nothing to do, or
   clear it first, or create one. *)
Decide(alarm) ==
  LET raise == item.status \in Severities
  IN  \/ /\ IF raise THEN alarm # NoAlarm /\ alarm.severity = item.status
                     ELSE alarm = NoAlarm
         /\ Processed
      \/ /\ alarm # NoAlarm
         /\ raise => alarm.severity # item.status
         /\ step' = "clear"
         /\ state' = alarm
         /\ UNCHANGED <<item, said>>
      \/ /\ alarm = NoAlarm /\ raise
         /\ step' = "create"
         /\ state' = alarm
         /\ UNCHANGED <<item, said>>

EnsureFromCache ==
  /\ step = "ensure"
  /\ cache[item.key] # NoAlarm
  /\ Decide(cache[item.key])
  /\ UNCHANGED <<server, caches, broken>>

(* GetAlarmsByEntity lists the active alarms of the device. *)
ActiveAlarms(d) == {s \in Slots : s[1] = d /\ active[s] # NoAlarm}

(* Mutant of OfType: the type of the alarm is not compared. *)
OfType_Any(type, alarms) == alarms

OfType(type, alarms) == {s \in alarms : s[2] = type}

(* Mutant of EnsureFromServer: the server is asked only to raise an alarm. *)
EnsureFromServer_ToRaise ==
  /\ step = "ensure"
  /\ cache[item.key] = NoAlarm
  /\ ~PagedAnswer
  /\ LET alarms == OfType(item.key[2], ActiveAlarms(known[item.key[1]]))
         alarm  == IF alarms = {} \/ item.status = "normal" THEN NoAlarm
                   ELSE active[CHOOSE s \in alarms : TRUE]
     IN  /\ cache' = [cache EXCEPT ![item.key] = alarm]
         /\ Decide(alarm)
  /\ broken' = broken \ {item.key}
  /\ UNCHANGED <<server, known>>

EnsureFromServer ==
  /\ step = "ensure"
  /\ cache[item.key] = NoAlarm
  /\ ~PagedAnswer
  /\ LET alarms == OfType(item.key[2], ActiveAlarms(known[item.key[1]]))
         alarm  == IF alarms = {} THEN NoAlarm ELSE active[CHOOSE s \in alarms : TRUE]
     IN  /\ cache' = [cache EXCEPT ![item.key] = alarm]
         /\ Decide(alarm)
  /\ broken' = broken \ {item.key}
  /\ UNCHANGED <<server, known>>

(* The call fails, or its answer does not decode: the client expects a bare
   array and a PageData object is none. *)
EnsureFailed ==
  /\ step = "ensure"
  /\ cache[item.key] = NoAlarm
  /\ CallsFail \/ PagedAnswer
  /\ Abort
  /\ UNCHANGED <<server, caches, broken>>
-----------------------------------------------------------------------------
(* ClearAlarm and CreateAlarm *)

(* The server clears the alarm with that id; clearing it again is no error. *)
ClearOnServer ==
  active' = [s \in Slots |-> IF active[s] # NoAlarm /\ active[s].id = state.id
                               THEN NoAlarm ELSE active[s]]

(* Mutant of Clear: the cache keeps the alarm cleared on a normal status. *)
Clear_KeepsCache ==
  /\ step = "clear"
  /\ ClearOnServer
  /\ IF item.status \in Severities
       THEN step' = "create" /\ UNCHANGED <<item, state, history>>
       ELSE Processed /\ broken' = broken \ {item.key}
  /\ UNCHANGED caches

(* Mutant of Clear: a change of severity clears and creates nothing. *)
Clear_Only ==
  /\ step = "clear"
  /\ ClearOnServer
  /\ cache' = [cache EXCEPT ![item.key] = NoAlarm]
  /\ Processed
  /\ broken' = broken \ {item.key}
  /\ UNCHANGED known

Clear ==
  /\ step = "clear"
  /\ ClearOnServer
  /\ IF item.status \in Severities
       THEN /\ step' = "create"
            /\ UNCHANGED <<cache, item, state, history>>
       ELSE /\ cache' = [cache EXCEPT ![item.key] = NoAlarm]
            /\ Processed
            /\ broken' = IF active'[Slot(item.key)] = NoAlarm THEN broken \ {item.key} ELSE broken
  /\ UNCHANGED known

(* Lost before the server cleared the alarm, or after. *)
ClearFailed ==
  /\ CallsFail
  /\ step = "clear"
  /\ Abort
  /\ \/ UNCHANGED <<server, broken>>
     \/ ClearOnServer /\ broken' = broken \union {item.key}
  /\ UNCHANGED caches

(* An id nobody remembers. *)
FreshId == CHOOSE id \in Ids[Slot(item.key)] :
  /\ \A s \in Slots : active[s] # NoAlarm => active[s].id # id
  /\ \A k \in Keys : cache[k] # NoAlarm => cache[k].id # id

(* The server creates an alarm, or updates the active one of the same
   originator and type. *)
Created ==
  LET old == active[Slot(item.key)]
  IN  [id |-> IF old = NoAlarm THEN FreshId ELSE old.id, severity |-> item.status]

Create ==
  /\ step = "create"
  /\ active' = [active EXCEPT ![Slot(item.key)] = Created]
  /\ cache' = [cache EXCEPT ![item.key] = Created]
  /\ Processed
  /\ broken' = broken \ {item.key}
  /\ UNCHANGED known

(* The cache keeps the alarm that has just been cleared. *)
CreateFailed ==
  /\ CallsFail
  /\ step = "create"
  /\ Abort
  /\ \/ UNCHANGED server
     \/ active' = [active EXCEPT ![Slot(item.key)] = Created]
  /\ broken' = IF cache[item.key] = NoAlarm THEN broken ELSE broken \union {item.key}
  /\ UNCHANGED caches
-----------------------------------------------------------------------------
(* A crash and a new start, or a reload: a new adapter with empty caches. *)
Restart ==
  /\ cache' = [k \in Keys |-> NoAlarm]
  /\ known' = [d \in Devices |-> NoDevice]
  /\ Return
  /\ said' = [k \in Keys |-> IF k \in broken \/ Busy(k) THEN "none" ELSE said[k]]
  /\ broken' = {}
  /\ UNCHANGED server

Operator(s) ==
  /\ OperatorClears
  /\ active[s] # NoAlarm
  /\ active' = [active EXCEPT ![s] = NoAlarm]
  /\ broken' = broken \union Users(s)
  /\ said' = [k \in Keys |-> IF k \in Users(s) THEN "none" ELSE said[k]]
  /\ UNCHANGED <<caches, item, step, state>>
-----------------------------------------------------------------------------
Calls ==
  \/ LookupOriginator \/ LookupFailed
  \/ EnsureFromCache \/ EnsureFromServer \/ EnsureFailed
  \/ Clear \/ ClearFailed
  \/ Create \/ CreateFailed

Next ==
  \/ ProcessBatch
  \/ Calls
  \/ Restart
  \/ \E s \in Slots : Operator(s)

Spec == Init /\ [][Next]_vars

(* ProcessBatch runs to its end, and the calls that look up a device, list its
   alarms or clear one do not fail for ever, for the keys whose name is their
   own; nothing is assumed of the others. *)
Fairness ==
  /\ WF_vars(Calls)
  /\ \A k \in {x \in Keys : Own(x)} :
       /\ SF_vars(LookupOriginator /\ Busy(k))
       /\ SF_vars(EnsureFromServer /\ Busy(k)) /\ SF_vars(Clear /\ Busy(k))

FairSpec == Spec /\ Fairness
-----------------------------------------------------------------------------
(* Properties *)

AlarmOrNone == Alarm \union {NoAlarm}

TypeOK ==
  /\ active \in [Slots -> AlarmOrNone]
  /\ cache \in [Keys -> AlarmOrNone]
  /\ known \in [Devices -> Devices \union {NoDevice}]
  /\ item \in Item \union {NoItem}
  /\ step \in Steps /\ (step = "idle" <=> item = NoItem)
  /\ state \in AlarmOrNone /\ (step = "clear" => state # NoAlarm)
  /\ said \in [Keys -> Statuses \union {"none"}]
  /\ broken \subseteq Keys

(* The alarm on the server says what the last status of the key said. *)
Follows(k) ==
  \/ said[k] = "none"
  \/ said[k] = "normal" /\ active[k] = NoAlarm
  \/ active[k] # NoAlarm /\ active[k].severity = said[k]

(* "create/update saat critical/warning, clear saat normal"
   (docs/KNOWLEDGE.md): between two batches, a key whose last status was
   processed without an error has an alarm of that severity, or none after a
   normal one, through any batches, failures and restarts, as long as its
   alarm has not changed behind the cache and only its device answers to its
   name: alarm_manager.go:38-136. *)
AlarmFollowsUnlessBroken ==
  \A k \in Keys : Own(k) /\ k \notin broken /\ ~Busy(k) => Follows(k)

(* The cache is right about every alarm it holds, between two calls, unless a
   call failed for its key or another device answers to its name:
   alarm_manager.go:83-85, 132-134, 175-181. *)
CacheIsTrue ==
  \A k \in Keys : Own(k) /\ cache[k] # NoAlarm /\ k \notin broken /\ ~Busy(k) =>
                    active[k] = cache[k]

(* Unless by an operator, an alarm is closed or changed only by telemetry of
   its type of a device whose name is part of the name of the alarm's device,
   and, if no other telemetry may end up there and no call failed half way,
   only by a status that disagrees with it: alarm_manager.go:70-74, 138-155,
   171-178. *)
AlarmsAreSeparate ==
  [][\A s \in Slots : active[s] # NoAlarm /\ active'[s] # active[s] =>
        \/ step' = step
        \/ \E k \in Users(s) :
              /\ Busy(k)
              /\ Own(k) /\ k \notin broken' => item.status # active[s].severity]_vars

(* From some moment on, every item of k has one of these statuses, and the
   loop keeps getting to items of k (a call that fails for another key before
   it in the batch keeps it from that). *)
OnlyReports(k, statuses) ==
  /\ <>[](Busy(k) => item.status \in statuses)
  /\ []<>Busy(k)
  /\ <>[][~Restart]_vars

(* "so alarms can auto-clear" (docs/DEVELOPMENT_STAGES.md): once a key reports
   only normal values its alarm is closed and stays closed, whatever failed,
   restarted or was cleared by an operator before, if only its device answers
   to its name. *)
AutoClears ==
  \A k \in Keys : Own(k) /\ OnlyReports(k, {"normal"}) => <>[](active[k] = NoAlarm)

=============================================================================

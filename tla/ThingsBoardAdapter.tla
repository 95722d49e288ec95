------------------------- MODULE ThingsBoardAdapter -------------------------
(***************************************************************************)
(* SendBatch of the thingsboard_mqtt adapter                               *)
(* (internal/adapters/thingsboard_mqtt/adapter.go).  For each device of    *)
(* the batch                                                               *)
(*                                                                         *)
(*   token from the database, or provisioned and saved -> connect ->       *)
(*       publish telemetry -> publish attributes not sent yet              *)
(*                                                                         *)
(* and the first error is returned.  When all were published, the          *)
(* management path works on the site's asset over REST, its errors only    *)
(* logged: RelationReconciler (relation_reconciler.go) ensures a relation  *)
(* to every device, TopologyPublisher (topology_publisher.go) saves the    *)
(* topology of the batch's route snapshots if it differs from the last     *)
(* one, and AlarmManager follows (a module of its own).                    *)
(*                                                                         *)
(* Any call may fail before or after it took effect.  The adapter is made  *)
(* anew, with empty caches, when the agent starts or reloads; the tokens   *)
(* are in the database.  A topology is the set of devices whose snapshots  *)
(* it was built from.  The intervals between synchronisations are a choice *)
(* of each SendBatch.  The reconciler finds a device by a text search for  *)
(* its name, of which it takes the first hit: any device whose name        *)
(* contains the one searched for.                                          *)
(***************************************************************************)
EXTENDS FiniteSets

CONSTANTS
  Devices,
  Matches,     \* the devices whose names contain the name of a device
  Addresses,   \* values of ip_address
  Configurations,  \* the addresses of the devices a start may find configured
  None,
  SaveFails    \* may saving the topology fail?

ASSUME AddressAssumption == None \notin Addresses
ASSUME NameAssumption ==
  /\ Matches \in [Devices -> SUBSET Devices] /\ \A d \in Devices : d \in Matches[d]
  /\ None \notin Devices
ASSUME ConfigurationAssumption == Configurations \subseteq [Devices -> Addresses]

VARIABLES
  registered,  \* the server: devices provisioned
  address,     \* the server: attribute ip_address of each device
  contains,    \* the server: devices the asset has a relation to
  topology,    \* the server: topology saved with the asset
  tokens,      \* the database: devices whose token is saved
  configured,  \* deviceAddresses
  sent,        \* sentDeviceAddresses
  ids,         \* RelationReconciler.deviceIDByName: the device found for a name
  related,     \* RelationReconciler.cache
  refreshed,   \* has it been filled since the start?
  seen,        \* seenRelationDevices
  lastFP,      \* TopologyPublisher.lastFP
  loaded,      \* TopologyPublisher.loaded
  phase,       \* where SendBatch is
  todo,        \* devices of the batch not yet published
  batch,       \* devices of the batch
  routes,      \* those with a route snapshot in the batch
  outcome,     \* what the last SendBatch returned: "none", "ok" or "error"
  got,         \* history: devices whose telemetry of the batch was published
  unsaved      \* history: did the last save of a topology fail?

server   == <<registered, address, contains, topology>>
durable  == <<server, tokens>>
adapter  == <<configured, sent, ids, related, refreshed, seen, lastFP, loaded>>
call     == <<todo, batch, routes>>
history  == <<got, unsaved>>
vars     == <<durable, adapter, phase, call, outcome, history>>

Phases == {"idle", "next", "token", "save", "publish", "attributes", "relations",
           "topology"}

Init ==
  /\ registered = {} /\ contains = {} /\ topology = None /\ tokens = {}
  /\ address = [d \in Devices |-> None]
  /\ configured \in Configurations
  /\ sent = [d \in Devices |-> None]
  /\ ids = [d \in Devices |-> None]
  /\ related = {} /\ refreshed = FALSE /\ seen = {}
  /\ lastFP = None /\ loaded = FALSE
  /\ phase = "idle" /\ todo = {} /\ batch = {} /\ routes = {}
  /\ outcome = "none" /\ got = {} /\ unsaved = FALSE
-----------------------------------------------------------------------------
Goto(p) == phase' = p

(* SendBatch returns an error. *)
Fail ==
  /\ Goto("idle")
  /\ outcome' = "error"
  /\ todo' = {} /\ got' = {}
  /\ UNCHANGED <<batch, routes, unsaved>>

(* buildPayloads rejects the batch for one invalid item. *)
Reject ==
  /\ phase = "idle"
  /\ batch' = {} /\ routes' = {}
  /\ outcome' = "error" /\ got' = {}
  /\ UNCHANGED <<durable, adapter, phase, todo, unsaved>>

SendBatch(b, r) ==
  /\ phase = "idle"
  /\ batch' = b /\ todo' = b /\ routes' = r
  /\ outcome' = "none" /\ got' = {}
  /\ Goto("next")
  /\ UNCHANGED <<durable, adapter, unsaved>>

(* The devices are taken in the order of the batch. *)
Device == CHOOSE d \in todo : TRUE

NextDevice ==
  /\ phase = "next"
  /\ IF todo = {} THEN Goto("relations") ELSE Goto("token")
  /\ UNCHANGED <<durable, adapter, call, outcome, history>>

Done == todo' = todo \ {Device} /\ Goto("next") /\ UNCHANGED <<batch, routes, outcome>>

(* tokenForDevice *)
SavedToken ==
  /\ phase = "token"
  /\ Device \in tokens
  /\ Goto("publish")
  /\ UNCHANGED <<durable, adapter, call, outcome, history>>

ProvisionDevice ==
  /\ phase = "token"
  /\ Device \notin tokens
  /\ registered' = registered \union {Device}
  /\ Goto("save")
  /\ UNCHANGED <<address, contains, topology, tokens, adapter, call, outcome, history>>

ProvisionFailed ==
  /\ phase = "token"
  /\ Fail
  /\ \/ UNCHANGED registered
     \/ Device \notin tokens /\ registered' = registered \union {Device}
  /\ UNCHANGED <<address, contains, topology, tokens, adapter>>

SaveToken ==
  /\ phase = "save"
  /\ tokens' = tokens \union {Device}
  /\ Goto("publish")
  /\ UNCHANGED <<server, adapter, call, outcome, history>>

SaveTokenFailed ==
  /\ phase = "save"
  /\ Fail
  /\ UNCHANGED <<durable, adapter>>

(* mergeDeviceAddressAttributes *)
MustSend(d) == sent[d] # configured[d]

(* buildPayloads puts routes among the attributes too. *)
HasAttributes(d) == MustSend(d) \/ d \in routes

(* Connect if needed, then publish the telemetry of the device. *)
PublishTelemetry ==
  /\ phase = "publish"
  /\ got' = got \union {Device}
  /\ IF HasAttributes(Device)
       THEN Goto("attributes") /\ UNCHANGED <<call, outcome>>
       ELSE Done
  /\ UNCHANGED <<durable, adapter, unsaved>>

(* Mutant of PublishFailed: a device that cannot be reached is skipped. *)
PublishFailed_Skips ==
  /\ phase = "publish"
  /\ Done
  /\ UNCHANGED <<durable, adapter, history>>

(* No connection, or a publish that times out and may have arrived. *)
PublishFailed ==
  /\ phase = "publish"
  /\ Fail
  /\ UNCHANGED <<durable, adapter>>

(* The address of the device is among its attributes unless marked as sent. *)
WithAddress(f) == IF MustSend(Device) THEN [f EXCEPT ![Device] = configured[Device]] ELSE f

PublishAttributes ==
  /\ phase = "attributes"
  /\ address' = WithAddress(address)
  /\ sent' = WithAddress(sent)
  /\ Done
  /\ UNCHANGED <<registered, contains, topology, tokens, configured, ids, related, refreshed,
                 seen, lastFP, loaded, history>>

(* Mutant of AttributesFailed: marked as sent before the error is known. *)
AttributesFailed_Marks ==
  /\ phase = "attributes"
  /\ Fail
  /\ sent' = WithAddress(sent)
  /\ UNCHANGED <<durable, configured, ids, related, refreshed, seen, lastFP, loaded>>

AttributesFailed ==
  /\ phase = "attributes"
  /\ Fail
  /\ address' \in {address, WithAddress(address)}
  /\ UNCHANGED <<registered, contains, topology, tokens, adapter>>
-----------------------------------------------------------------------------
(* runManagementSideEffects *)

Return == Goto("idle") /\ outcome' = "ok" /\ UNCHANGED call

(* All devices of the batch are seen and the interval is not over. *)
SkipRelations ==
  /\ phase = "relations"
  /\ batch \subseteq seen
  /\ Goto("topology")
  /\ UNCHANGED <<durable, adapter, call, outcome, history>>

(* Mutant of RefreshFailed: the error is returned. *)
RefreshFailed_Returns ==
  /\ phase = "relations"
  /\ Fail
  /\ UNCHANGED <<durable, adapter>>

(* GetRelations fails: nothing is marked, the next batch tries again. *)
RefreshFailed ==
  /\ phase = "relations"
  /\ Goto("topology")
  /\ UNCHANGED <<durable, adapter, call, outcome, history>>

(* The devices GetDeviceByName may return: the first hit of a text search. *)
GetDeviceByName(d) == Matches[d] \intersect registered

(* lookupDeviceID for each device of the batch: the one found before, or the
   one the server finds, unless the call fails. *)
Lookups ==
  {found \in [Devices -> Devices \union {None}] : \A d \in Devices :
     IF d \in batch /\ ids[d] = None
       THEN found[d] \in GetDeviceByName(d) \union {None}
       ELSE found[d] = ids[d]}

(* Mutant of EnsureContainsRelations: a failed creation is cached too. *)
EnsureContainsRelations_CachesAll(refresh, found) ==
  LET cache   == IF refresh THEN related \union contains ELSE related
      targets == {found[d] : d \in batch} \ {None}
  IN  /\ phase = "relations"
      /\ ~refreshed => refresh
      /\ refreshed' = TRUE
      /\ ids' = found
      /\ \E made \in SUBSET (targets \ cache) : \E lost \in SUBSET (targets \ (cache \union made)) :
            /\ contains' = contains \union made \union lost
            /\ related' = cache \union targets
      /\ seen' = seen \union batch
      /\ Goto("topology")
      /\ UNCHANGED <<registered, address, topology, tokens, configured, sent, lastFP,
                     loaded, call, outcome, history>>

(* refreshRelationsIfNeeded, then a relation to each device found that the cache
   lacks, which is made, or fails before or after it took effect.  A device
   whose lookup or whose creation fails is skipped, and all devices are marked
   as seen nevertheless. *)
EnsureContainsRelations(refresh, found) ==
  LET cache   == IF refresh THEN related \union contains ELSE related
      targets == {found[d] : d \in batch} \ {None}
  IN  /\ phase = "relations"
      /\ ~refreshed => refresh
      /\ refreshed' = TRUE
      /\ ids' = found
      /\ \E made \in SUBSET (targets \ cache) : \E lost \in SUBSET (targets \ (cache \union made)) :
            /\ contains' = contains \union made \union lost
            /\ related' = cache \union made
      /\ seen' = seen \union batch
      /\ Goto("topology")
      /\ UNCHANGED <<registered, address, topology, tokens, configured, sent, lastFP,
                     loaded, call, outcome, history>>

(* Mutant of SkipTopology: the topology counts as published. *)
SkipTopology_Records ==
  /\ phase = "topology"
  /\ Return
  /\ lastFP' = routes
  /\ UNCHANGED <<durable, configured, sent, ids, related, refreshed, seen, loaded, history>>

(* No snapshot in the batch, or the interval is not over. *)
SkipTopology ==
  /\ phase = "topology"
  /\ Return
  /\ UNCHANGED <<durable, adapter, history>>

(* ensureLoaded: the fingerprint the server has, or none if the call fails;
   either way it is not asked again. *)
LoadedFP(fetched) ==
  IF ~loaded /\ lastFP = None /\ fetched THEN topology ELSE lastFP

PublishUnchanged(fetched) ==
  /\ phase = "topology"
  /\ routes # {}
  /\ LoadedFP(fetched) = routes
  /\ lastFP' = routes
  /\ loaded' = TRUE
  /\ Return
  /\ UNCHANGED <<durable, configured, sent, ids, related, refreshed, seen, history>>

(* The topology differs: it becomes the last one, then it is saved. *)
PublishChanged(fetched) ==
  /\ phase = "topology"
  /\ routes # {}
  /\ LoadedFP(fetched) # routes
  /\ lastFP' = routes
  /\ loaded' = TRUE
  /\ topology' = routes
  /\ unsaved' = FALSE
  /\ Return
  /\ UNCHANGED <<registered, address, contains, tokens, configured, sent, ids, related,
                 refreshed, seen, got>>

SaveFailed(fetched) ==
  /\ SaveFails
  /\ phase = "topology"
  /\ routes # {}
  /\ LoadedFP(fetched) # routes
  /\ lastFP' = routes
  /\ loaded' = TRUE
  /\ topology' \in {topology, routes}
  /\ unsaved' = TRUE
  /\ Return
  /\ UNCHANGED <<registered, address, contains, tokens, configured, sent, ids, related,
                 refreshed, seen, got>>

(* A crash and a new start, or a reload: a new adapter. *)
NewAdapter ==
  /\ configured' \in Configurations
  /\ sent' = [d \in Devices |-> None]
  /\ ids' = [d \in Devices |-> None]
  /\ related' = {} /\ refreshed' = FALSE /\ seen' = {}
  /\ lastFP' = None /\ loaded' = FALSE
  /\ Goto("idle") /\ todo' = {} /\ batch' = {} /\ routes' = {}
  /\ outcome' = "none" /\ got' = {} /\ unsaved' = FALSE
  /\ UNCHANGED durable
-----------------------------------------------------------------------------
Management ==
  \/ SkipRelations \/ RefreshFailed
  \/ \E refresh \in BOOLEAN, found \in Lookups : EnsureContainsRelations(refresh, found)
  \/ SkipTopology
  \/ \E fetched \in BOOLEAN :
        PublishUnchanged(fetched) \/ PublishChanged(fetched) \/ SaveFailed(fetched)

Step ==
  \/ NextDevice
  \/ SavedToken \/ ProvisionDevice \/ ProvisionFailed \/ SaveToken \/ SaveTokenFailed
  \/ PublishTelemetry \/ PublishFailed
  \/ PublishAttributes \/ AttributesFailed
  \/ Management

Next ==
  \/ Reject
  \/ \E b \in SUBSET Devices \ {{}} : \E r \in SUBSET b : SendBatch(b, r)
  \/ Step
  \/ NewAdapter

Spec == Init /\ [][Next]_vars

(* SendBatch runs to its end; a device whose name is its own is not sought in
   vain, nor its relation refused, for ever; the interval of the topology ends. *)
Fairness ==
  /\ WF_vars(Step)
  /\ \A d \in {x \in Devices : Matches[x] = {x}} :
       SF_vars(\E refresh \in BOOLEAN, found \in Lookups :
                 d \in batch /\ EnsureContainsRelations(refresh, found) /\ found[d] \in contains')
  /\ SF_vars(\E fetched \in BOOLEAN : PublishUnchanged(fetched) \/ PublishChanged(fetched))

FairSpec == Spec /\ Fairness
-----------------------------------------------------------------------------
(* Properties *)

TypeOK ==
  /\ registered \subseteq Devices /\ tokens \subseteq registered
  /\ address \in [Devices -> Addresses \union {None}]
  /\ contains \subseteq Devices
  /\ topology \in (SUBSET Devices) \union {None}
  /\ lastFP \in (SUBSET Devices) \union {None}
  /\ configured \in Configurations
  /\ sent \in [Devices -> Addresses \union {None}]
  /\ ids \in [Devices -> Devices \union {None}]
  /\ related \subseteq Devices /\ seen \subseteq Devices
  /\ refreshed \in BOOLEAN /\ loaded \in BOOLEAN /\ unsaved \in BOOLEAN
  /\ phase \in Phases
  /\ batch \subseteq Devices /\ todo \subseteq batch /\ routes \subseteq batch
  /\ phase \in {"token", "save", "publish", "attributes"} => todo # {}
  /\ outcome \in {"none", "ok", "error"}
  /\ got \subseteq batch

(* What the delivery pipeline relies on before it deletes a batch: SendBatch
   returns nil only when the telemetry of every device has been received, and
   by then every device has the configured address: adapter.go:338-387. *)
OkMeansReceived ==
  outcome = "ok" => /\ batch \subseteq got
                    /\ \A d \in batch : address[d] = configured[d]

(* Neither cache claims what the server does not have: an attribute marked as
   sent is there, a relation in the cache exists: adapter.go:468-481,
   relation_reconciler.go:55-60. *)
CachesAreTrue ==
  /\ \A d \in Devices : sent[d] # None => address[d] = sent[d]
  /\ related \subseteq contains

(* "Gagal pada jalur management tidak boleh mematikan telemetry utama"
   (docs/CONFIG_SCHEMA.md): once the telemetry of the batch is published, no
   failure of the management path makes SendBatch return an error, so the
   batch is not sent again: adapter.go:385, 483-520. *)
ManagementCannotFail ==
  [][(phase \in {"relations", "topology"} /\ phase' = "idle") => outcome' # "error"]_vars

(* "ensure ASSET(site) --Contains--> DEVICE relations"
   (docs/DEVELOPMENT_STAGES.md): a device whose batches keep being published
   gets its relation, however often the calls failed before, if no other device
   answers to its name. *)
RelationIsEnsured ==
  \A d \in {x \in Devices : Matches[x] = {x}} :
    []<>(phase = "relations" /\ d \in batch) => <>(d \in contains)

(* "publish site-local topology snapshot to SERVER_SCOPE asset attributes"
   (docs/DEVELOPMENT_STAGES.md): once the site's routes are the same in every
   batch, and the management path keeps running, the topology on the server
   comes to be theirs and stays so, unless a save failed and the topology has
   not changed since. *)
TopologyIsPublishedUnlessUnsaved ==
  /\ <>[][UNCHANGED routes]_vars
  /\ <>[](routes # {} /\ ~unsaved)
  /\ []<>(phase = "topology")
  => <>[](topology = routes)
=============================================================================

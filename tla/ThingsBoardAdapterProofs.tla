---------------------- MODULE ThingsBoardAdapterProofs ----------------------
(***************************************************************************)
(* The safety properties of ThingsBoardAdapter, for any devices, addresses *)
(* and configurations.  AdapterInv is the invariant behind them: it says   *)
(* how far SendBatch has come with the devices of its batch.               *)
(***************************************************************************)
EXTENDS ThingsBoardAdapter, TLAPS

Returned == outcome # "none"

(* Telemetry and address of device d are with the server. *)
Served(d) == d \in got /\ address[d] = configured[d]

(* The parts of the invariant. *)
StepIsSound    == /\ phase = "save" => Device \in registered
                  /\ phase \in {"idle", "relations", "topology"} => todo = {}
OnlyOwnAddress == \A d \in Devices : sent[d] \in {None, configured[d]}
SentIsThere    == \A d \in Devices : sent[d] # None => address[d] = sent[d]
TodoIsLeft     == /\ Returned => phase = "idle"
                  /\ phase # "idle" => \A d \in batch \ todo : Served(d)
                  /\ phase = "attributes" => Device \in got
OkIsServed     == outcome = "ok" => \A d \in batch : Served(d)

AdapterInv ==
  /\ TypeOK /\ StepIsSound
  /\ OnlyOwnAddress /\ SentIsThere
  /\ related \subseteq contains
  /\ TodoIsLeft /\ OkIsServed

(* While a device is worked on, it is one of the batch. *)
LEMMA DeviceInBatch ==
  ASSUME TypeOK, phase \in {"token", "save", "publish", "attributes"}
  PROVE  Device \in todo /\ Device \in batch /\ Device \in Devices
  BY DEF TypeOK, Device

(* Configured addresses are addresses. *)
LEMMA ConfiguredAddress ==
  ASSUME NEW c \in Configurations, NEW d \in Devices
  PROVE  c \in [Devices -> Addresses] /\ c[d] \in Addresses /\ c[d] # None
  BY AddressAssumption, ConfigurationAssumption

(* What WithAddress does to either of the maps it is applied to. *)
LEMMA WithAddressMap ==
  ASSUME TypeOK, Device \in Devices, NEW f \in [Devices -> Addresses \union {None}]
  PROVE  /\ WithAddress(f) \in [Devices -> Addresses \union {None}]
         /\ \A d \in Devices : WithAddress(f)[d] = IF MustSend(Device) /\ d = Device THEN configured[d] ELSE f[d]
  BY ConfiguredAddress DEF TypeOK, WithAddress

(* A lookup finds devices, and nothing else. *)
LEMMA FoundAreDevices ==
  ASSUME NEW found \in Lookups
  PROVE  /\ found \in [Devices -> Devices \union {None}]
         /\ {found[d] : d \in batch \intersect Devices} \ {None} \subseteq Devices
  BY DEF Lookups

LEMMA AdapterInit == Init => AdapterInv
  BY DEF Init, AdapterInv, TypeOK, OnlyOwnAddress, SentIsThere, TodoIsLeft, OkIsServed,
         StepIsSound, Returned, Phases, Served

(* The type invariant is inductive, together with StepIsSound: a saved token is that
   of a registered device, and nothing is left to do when the loop is not running. *)
LEMMA AdapterTypes == TypeOK /\ StepIsSound /\ [Next]_vars => TypeOK' /\ StepIsSound'
<1> SUFFICES ASSUME TypeOK, StepIsSound, [Next]_vars PROVE TypeOK' /\ StepIsSound'
  OBVIOUS
<1> USE DEF TypeOK, StepIsSound, Phases, Goto, call, durable, server, adapter, history
<1>1. CASE Reject
  BY <1>1 DEF Reject
<1>2. ASSUME NEW b \in SUBSET Devices, NEW r \in SUBSET b, SendBatch(b, r)
      PROVE  TypeOK' /\ StepIsSound'
  BY <1>2 DEF SendBatch
<1>3. CASE NextDevice
  BY <1>3 DEF NextDevice
<1>4. CASE SavedToken
  BY <1>4 DEF SavedToken
<1>5. CASE ProvisionDevice
  BY <1>5, DeviceInBatch DEF ProvisionDevice, Device
<1>6. CASE ProvisionFailed
  BY <1>6, DeviceInBatch DEF ProvisionFailed, Fail
<1>7. CASE SaveToken
  BY <1>7 DEF SaveToken
<1>8. CASE SaveTokenFailed
  BY <1>8 DEF SaveTokenFailed, Fail
<1>9. CASE PublishTelemetry
  BY <1>9, DeviceInBatch DEF PublishTelemetry, Done
<1>10. CASE PublishFailed
  BY <1>10 DEF PublishFailed, Fail
<1>11. CASE PublishAttributes
  BY <1>11, DeviceInBatch, WithAddressMap DEF PublishAttributes, Done
<1>12. CASE AttributesFailed
  BY <1>12, DeviceInBatch, WithAddressMap DEF AttributesFailed, Fail
<1>13. CASE SkipRelations \/ RefreshFailed \/ SkipTopology
  BY <1>13 DEF SkipRelations, RefreshFailed, SkipTopology, Return
<1>14. ASSUME NEW refresh \in BOOLEAN, NEW found \in Lookups, EnsureContainsRelations(refresh, found)
       PROVE  TypeOK' /\ StepIsSound'
  BY <1>14, FoundAreDevices DEF EnsureContainsRelations
<1>15. ASSUME NEW fetched \in BOOLEAN,
              PublishUnchanged(fetched) \/ PublishChanged(fetched) \/ SaveFailed(fetched)
       PROVE  TypeOK' /\ StepIsSound'
  <2>1. routes \in SUBSET Devices
    OBVIOUS
  <2> QED
    BY <1>15, <2>1 DEF PublishUnchanged, PublishChanged, SaveFailed, Return
<1>16. CASE NewAdapter
  BY <1>16 DEF NewAdapter
<1>17. CASE UNCHANGED vars
  BY <1>17 DEF vars, Device
<1> QED
  BY <1>1, <1>2, <1>3, <1>4, <1>5, <1>6, <1>7, <1>8, <1>9, <1>10, <1>11, <1>12, <1>13,
     <1>14, <1>15, <1>16, <1>17 DEF Next, Step, Management

(* A device for which the loop is done has been served. *)
LEMMA Loop ==
  ASSUME AdapterInv, TypeOK',
         \/ PublishTelemetry \/ PublishFailed \/ PublishAttributes \/ AttributesFailed
  PROVE  OnlyOwnAddress' /\ SentIsThere' /\ (related \subseteq contains)'
           /\ TodoIsLeft' /\ OkIsServed'
<1> USE DEF AdapterInv, OnlyOwnAddress, SentIsThere, TodoIsLeft, OkIsServed, Returned, Served,
            Goto, call, durable, server, adapter, history
<1>1. phase \in {"publish", "attributes"} /\ Device \in todo /\ Device \in batch /\ Device \in Devices
  BY DeviceInBatch DEF PublishTelemetry, PublishFailed, PublishAttributes, AttributesFailed
<1>2. batch \subseteq Devices /\ configured[Device] # None
  BY <1>1, ConfiguredAddress DEF TypeOK
<1>3. CASE PublishTelemetry
  <2>1. CASE HasAttributes(Device)
    BY <1>1, <1>3, <2>1 DEF PublishTelemetry, Device
  <2>2. CASE ~HasAttributes(Device)
    <3>1. address[Device] = configured[Device]
      BY <1>1, <1>2, <2>2 DEF HasAttributes, MustSend
    <3> QED
      BY <1>1, <1>3, <2>2, <3>1 DEF PublishTelemetry, Done
  <2> QED
    BY <2>1, <2>2
<1>4. CASE PublishFailed
  BY <1>4 DEF PublishFailed, Fail
<1>5. CASE PublishAttributes
  <2>1. \A d \in Devices :
          /\ address'[d] = IF MustSend(Device) /\ d = Device THEN configured[d] ELSE address[d]
          /\ sent'[d] = IF MustSend(Device) /\ d = Device THEN configured[d] ELSE sent[d]
    BY <1>1, <1>5, WithAddressMap DEF PublishAttributes, TypeOK
  <2>2. address'[Device] = configured[Device]
    BY <1>1, <1>2, <2>1 DEF MustSend
  <2> QED
    BY <1>1, <1>2, <1>5, <2>1, <2>2 DEF PublishAttributes, Done
<1>6. CASE AttributesFailed
  <2>1. \A d \in Devices : sent[d] # None => address'[d] = address[d]
    BY <1>1, <1>6, WithAddressMap DEF AttributesFailed, TypeOK, MustSend
  <2> QED
    BY <1>6, <2>1 DEF AttributesFailed, Fail
<1> QED
  BY <1>3, <1>4, <1>5, <1>6

LEMMA AdapterNext == AdapterInv /\ [Next]_vars => AdapterInv'
<1> SUFFICES ASSUME AdapterInv, [Next]_vars PROVE AdapterInv'
  OBVIOUS
<1>0. TypeOK' /\ StepIsSound'
  BY AdapterTypes DEF AdapterInv
<1> SUFFICES OnlyOwnAddress' /\ SentIsThere' /\ (related \subseteq contains)'
               /\ TodoIsLeft' /\ OkIsServed'
  BY <1>0 DEF AdapterInv
<1> DEFINE Goal == OnlyOwnAddress' /\ SentIsThere' /\ (related \subseteq contains)'
                     /\ TodoIsLeft' /\ OkIsServed'
<1> USE DEF AdapterInv, OnlyOwnAddress, SentIsThere, TodoIsLeft, OkIsServed, Returned, Served,
            Goto, call, durable, server, adapter, history
<1>1. CASE Reject
  BY <1>1 DEF Reject
<1>2. ASSUME NEW b \in SUBSET Devices, NEW r \in SUBSET b, SendBatch(b, r)
      PROVE  Goal
  BY <1>2 DEF SendBatch
<1>3. CASE NextDevice
  BY <1>3 DEF NextDevice
<1>4. CASE SavedToken \/ ProvisionDevice \/ SaveToken
  BY <1>4 DEF SavedToken, ProvisionDevice, SaveToken
<1>5. CASE ProvisionFailed \/ SaveTokenFailed
  BY <1>5 DEF ProvisionFailed, SaveTokenFailed, Fail
<1>6. CASE PublishTelemetry \/ PublishFailed \/ PublishAttributes \/ AttributesFailed
  BY <1>0, <1>6, Loop
<1>7. CASE SkipRelations \/ RefreshFailed
  BY <1>7 DEF SkipRelations, RefreshFailed
<1>8. ASSUME NEW refresh \in BOOLEAN, NEW found \in Lookups, EnsureContainsRelations(refresh, found)
      PROVE  Goal
  BY <1>8 DEF EnsureContainsRelations
<1>9. CASE SkipTopology
  BY <1>9 DEF SkipTopology, Return, StepIsSound
<1>10. ASSUME NEW fetched \in BOOLEAN,
              PublishUnchanged(fetched) \/ PublishChanged(fetched) \/ SaveFailed(fetched)
       PROVE  Goal
  BY <1>10 DEF PublishUnchanged, PublishChanged, SaveFailed, Return, StepIsSound
<1>11. CASE NewAdapter
  BY <1>11 DEF NewAdapter, TypeOK
<1>12. CASE UNCHANGED vars
  BY <1>12 DEF vars, Device
<1> QED
  BY <1>1, <1>2, <1>3, <1>4, <1>5, <1>6, <1>7, <1>8, <1>9, <1>10, <1>11, <1>12
  DEF Next, Step, Management

THEOREM AdapterInvariant == Spec => []AdapterInv
  BY AdapterInit, AdapterNext, PTL DEF Spec

(* Every variable stays in its domain, tokens are those of registered devices, and
   the loop has a device whenever it works on one. *)
THEOREM AdapterTypeCorrect == Spec => []TypeOK
  BY AdapterInvariant, PTL DEF AdapterInv

(* SendBatch returns nil only when the server has the telemetry and the configured
   address of every device of the batch: adapter.go:338-387. *)
THEOREM OkIsReceived == Spec => []OkMeansReceived
<1>1. AdapterInv => OkMeansReceived
  BY DEF AdapterInv, OkIsServed, Served, OkMeansReceived
<1> QED
  BY <1>1, AdapterInvariant, PTL

(* What the caches of an adapter say is on the server: adapter.go:468-481,
   relation_reconciler.go:55-60. *)
THEOREM CachesTellTruth == Spec => []CachesAreTrue
<1>1. AdapterInv => CachesAreTrue
  BY DEF AdapterInv, SentIsThere, CachesAreTrue
<1> QED
  BY <1>1, AdapterInvariant, PTL

(* No failure on the management path becomes an error of SendBatch:
   adapter.go:483-520. *)
THEOREM ManagementIsHarmless == Spec => ManagementCannotFail
<1>1. AdapterInv /\ [Next]_vars =>
        [(phase \in {"relations", "topology"} /\ phase' = "idle") => outcome' # "error"]_vars
  <2> SUFFICES ASSUME AdapterInv, Next, phase \in {"relations", "topology"}, phase' = "idle"
               PROVE  outcome' # "error"
    BY DEF vars
  <2>1. CASE Management
    BY <2>1 DEF Management, SkipRelations, RefreshFailed, EnsureContainsRelations, SkipTopology,
       PublishUnchanged, PublishChanged, SaveFailed, Return, Goto
  <2>2. CASE NewAdapter
    BY <2>2 DEF NewAdapter
  <2> QED
    BY <2>1, <2>2 DEF Next, Step, Reject, SendBatch, NextDevice, SavedToken, ProvisionDevice,
       ProvisionFailed, SaveToken, SaveTokenFailed, PublishTelemetry, PublishFailed,
       PublishAttributes, AttributesFailed
<1> QED
  BY <1>1, AdapterInvariant, PTL DEF Spec, ManagementCannotFail
=============================================================================

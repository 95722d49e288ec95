---------------------------- MODULE SiteTopology ----------------------------
(***************************************************************************)
(* BuildSiteTopology of internal/integrations/thingsboard/topology_builder *)
(* the graph of devices, subnets and gateways that the thingsboard_mqtt    *)
(* adapter derives from the route snapshots of a batch.  Snapshots are     *)
(* records with the fields device, supported and shown, the entries that   *)
(* went into the JSON.  Nodes and edges are sets: what the code sorts has  *)
(* no order, and an edge that comes twice is one.                          *)
(***************************************************************************)
EXTENDS RouteTable

DeviceNode(d)   == <<"device", d>>
SubnetNode(r)   == <<"subnet", r[1], r[2]>>
ExternalNode(h) == <<"external", h>>

IsConnected(r) == r[6] = connected
HasGateway(r)  == IsDefault(r) /\ r[3] \notin {NoHop, 0}

(* Is the device of a snapshot attached to the subnet of an address? *)
Attached(snap, address) ==
  /\ snap.supported
  /\ \E i \in DOMAIN snap.shown :
       /\ IsConnected(snap.shown[i])
       /\ PrefixContains(snap.shown[i][1], snap.shown[i][2], address)

(* Mutant of Gateway: a device may be its own gateway. *)
Gateway_Own(d, hop, snaps) ==
  LET fits == {i \in DOMAIN snaps : Attached(snaps[i], hop)}
  IN  IF fits = {} THEN ExternalNode(hop)
      ELSE DeviceNode(snaps[CHOOSE i \in fits : \A j \in fits : i <= j].device)

(* Where the default route of d by way of hop leads: to the first other device
   with a connected subnet that contains hop, or out of the site. *)
Gateway(d, hop, snaps) ==
  LET fits == {i \in DOMAIN snaps : snaps[i].device # d /\ Attached(snaps[i], hop)}
  IN  IF fits = {} THEN ExternalNode(hop)
      ELSE DeviceNode(snaps[CHOOSE i \in fits : \A j \in fits : i <= j].device)

BuildSiteTopology(snaps) ==
  LET all       == {snaps[i] : i \in DOMAIN snaps}
      supported == {s \in all : s.supported}
      entries(s) == {s.shown[i] : i \in DOMAIN s.shown}
      subnets   == UNION {{<<DeviceNode(s.device), SubnetNode(r)>> :
                             r \in {e \in entries(s) : IsConnected(e)}} : s \in supported}
      gateways  == UNION {{<<DeviceNode(s.device), Gateway(s.device, r[3], snaps)>> :
                             r \in {e \in entries(s) : HasGateway(e)}} : s \in all}
      edges     == subnets \union gateways
  IN  [nodes |-> {DeviceNode(s.device) : s \in supported}
                   \union {n \in {e[2] : e \in edges} : n[1] \in {"subnet", "external"}},
       edges |-> edges]
=============================================================================

--------------------------- MODULE ObservedState ---------------------------
(* What one Service remembers about its CMP resources between two passes of  *)
(* svc-lb-bridge: the lb-service-id / vip-port-id / *-mode / repair          *)
(* annotations and the observed graph (pkg/model/model.go), with the pure    *)
(* functions the bridge and the deployer apply to them.                      *)
(*                                                                           *)
(* A graph bucket is a map keyed by logical name.  The LBServices bucket can *)
(* hold the Service's own key, the key of a sibling whose parent was copied  *)
(* (vip-group), and "legacy/lb-service"; Ownership.SourceName of an entry is *)
(* its key, because only its owner ever writes it.  The VIPs bucket holds    *)
(* the stack's VIP name, whose ownership may be a sibling's, and             *)
(* "legacy/vip".  The VirtualServers bucket is keyed by a name that is       *)
(* a hash of Service and frontend port, here the port.  Pools, members,      *)
(* monitors, rules and certificates are empty on the aggregate Service path. *)
EXTENDS Naturals, FiniteSets

CONSTANTS Services,   \* Services of one shoot namespace
          LbIds,      \* provider ids of LBServices
          VipIds,     \* provider ids of VIP ports
          VsIds,      \* provider ids of virtual servers
          Ports,      \* frontend ports
          Digests     \* canonical hashes of listener configuration and backends

NoId     == 0
NoDigest == 0
NoOwner  == "nobody"
Legacy   == "legacy/lb-service"

ASSUME IdAssumption ==
    /\ LbIds \subseteq Nat \ {NoId}
    /\ VipIds \subseteq Nat \ {NoId}
    /\ VsIds \subseteq Nat \ {NoId}
    /\ Ports \subseteq Nat
    /\ Digests \subseteq Nat \ {NoDigest}

ASSUME NameAssumption == Legacy \notin Services /\ NoOwner \notin Services

Modes == {"", "provided", "managed"}

Listener == [id : VsIds \cup {NoId}, hash : Digests \cup {NoDigest}]
Graph ==
    [has       : BOOLEAN,
     lb        : [Services \cup {Legacy} -> LbIds \cup {NoId}],
     vip       : VipIds \cup {NoId},
     vipOwner  : Services \cup {NoOwner},
     legacyVip : VipIds \cup {NoId},
     vs        : [Ports -> Listener]]

Annotations ==
    [lb         : LbIds \cup {NoId},
     lbMode     : Modes,
     vip        : VipIds \cup {NoId},
     vipMode    : Modes,
     repairID   : LbIds \cup {NoId},
     repairs    : Nat,
     graph      : Graph]

NoListener == [id |-> NoId, hash |-> NoDigest]
NoGraph ==
    [has |-> FALSE, lb |-> [k \in Services \cup {Legacy} |-> NoId], vip |-> NoId,
     vipOwner |-> NoOwner, legacyVip |-> NoId, vs |-> [p \in Ports |-> NoListener]]
NoAnnotations ==
    [lb |-> NoId, lbMode |-> "", vip |-> NoId, vipMode |-> "",
     repairID |-> NoId, repairs |-> 0, graph |-> NoGraph]

-----------------------------------------------------------------------------
(* EnsureGraph: the scalar ids are mirrored under the legacy keys, unless a  *)
(* legacy entry is already there.                                            *)
EnsureGraph(g, lb, vip) ==
    [g EXCEPT !.has = TRUE,
              !.lb[Legacy] = IF @ = NoId THEN lb ELSE @,
              !.legacyVip = IF @ = NoId THEN vip ELSE @]

(* dropMigratedLegacyAliases: an alias goes only once another key names the  *)
(* same provider id.                                                         *)
DropMigratedLegacyAliases(g) ==
    [g EXCEPT !.lb[Legacy] = IF \E k \in Services : g.lb[k] = g.lb[Legacy] THEN NoId ELSE @,
              !.legacyVip = IF g.vip = g.legacyVip THEN NoId ELSE @]

(* cleanupLBServiceID: every LBService a cleanup could be asked to delete.   *)
CleanupLBs(lb, g) == ({lb} \cup {g.lb[k] : k \in Services \cup {Legacy}}) \ {NoId}

CleanupVIPs(g) == {g.vip, g.legacyVip} \ {NoId}
CleanupListeners(g) == {g.vs[p].id : p \in Ports} \ {NoId}

(* resourceOwnedByService over the two parent buckets. *)
OwnsLB(s, g)  == g.lb[s] # NoId
OwnsVIP(s, g) == g.vip # NoId /\ g.vipOwner = s

(* strictProvidedResourcePolicies: may the LBService / the VIP be replaced?  *)
StrictLB(s, a, g) ==
    \/ a.lbMode = "provided"
    \/ a.vipMode # "provided" /\ a.lb # NoId /\ ~OwnsLB(s, g)
StrictVIP(s, a, g) ==
    \/ a.vipMode = "provided"
    \/ a.lbMode # "provided" /\ a.vip # NoId /\ ~OwnsVIP(s, g)

(* client.MergeFrom: the patch carries only the annotations that differ from *)
(* the snapshot it was computed from; the server keeps the others.           *)
MergeField(server, base, new) == IF new # base THEN new ELSE server
MergePatch(server, base, new) ==
    [lb       |-> MergeField(server.lb, base.lb, new.lb),
     lbMode   |-> MergeField(server.lbMode, base.lbMode, new.lbMode),
     vip      |-> MergeField(server.vip, base.vip, new.vip),
     vipMode  |-> MergeField(server.vipMode, base.vipMode, new.vipMode),
     repairID |-> MergeField(server.repairID, base.repairID, new.repairID),
     repairs  |-> MergeField(server.repairs, base.repairs, new.repairs),
     graph    |-> MergeField(server.graph, base.graph, new.graph)]
=============================================================================

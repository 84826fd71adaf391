-------------------------------- MODULE CMP --------------------------------
(* The CMP LBaaS provider as the deployer sees it through                    *)
(* pkg/deploy/lbaas/types.go: asynchronous LBServices and virtual servers,   *)
(* VIP ports, names that are not unique, ids that are never reused while     *)
(* something still refers to them.  External: CMP is not in the repository.  *)
(*                                                                           *)
(* "hidden" is accepted by CMP but not yet readable (404), "deleting" is an  *)
(* accepted DELETE that GET and LIST still show.  Deleting an LBService      *)
(* takes its VIPs and virtual servers with it.                               *)
EXTENDS ObservedState

CONSTANTS Born,       \* statuses an LBService or virtual server may have right after its create
          UserLBs,    \* LBServices the user made and offers through lb-service-id
          UserVIPs    \* VIPs the user made, each under UserVIPParent
CONSTANT  UserVIPParent

VARIABLES lbs, vips, vss
cmpVars == <<lbs, vips, vss>>

Statuses == {"absent", "hidden", "pending", "ready", "failed", "deleting"}
User == "user"

ASSUME BornAssumption == Born \subseteq {"hidden", "pending", "ready", "failed"} /\ "ready" \in Born
ASSUME UserAssumption ==
    /\ UserLBs \subseteq LbIds /\ UserVIPs \subseteq VipIds
    /\ UserVIPs # {} => UserVIPParent \in UserLBs
    /\ User \notin Services

LBRecord  == [st : Statuses, name : Services \cup {User, NoOwner}]
VIPRecord == [st : {"absent", "pending", "active", "failed"}, lb : LbIds \cup {NoId},
              by : Services \cup {User, NoOwner}]
VSRecord  == [st : Statuses, lb : LbIds \cup {NoId}, vip : VipIds \cup {NoId},
              by : Services \cup {NoOwner}, port : Ports \cup {NoId},
              hash : Digests \cup {NoDigest}]

NoLB  == [st |-> "absent", name |-> NoOwner]
NoVIP == [st |-> "absent", lb |-> NoId, by |-> NoOwner]
NoVS  == [st |-> "absent", lb |-> NoId, vip |-> NoId, by |-> NoOwner, port |-> NoId,
          hash |-> NoDigest]

CMPTypeOK ==
    /\ lbs \in [LbIds -> LBRecord]
    /\ vips \in [VipIds -> VIPRecord]
    /\ vss \in [VsIds -> VSRecord]

CMPInit ==
    /\ lbs = [l \in LbIds |-> IF l \in UserLBs THEN [st |-> "ready", name |-> User] ELSE NoLB]
    /\ vips = [v \in VipIds |-> IF v \in UserVIPs
                                THEN [st |-> "active", lb |-> UserVIPParent, by |-> User]
                                ELSE NoVIP]
    /\ vss = [v \in VsIds |-> NoVS]

(* GET succeeds and LIST shows the resource. *)
Visible(st) == st \in {"pending", "ready", "failed", "deleting"}
(* The resource exists and nobody has asked for its deletion. *)
Live(st) == st \in {"hidden", "pending", "ready", "failed"}

LBVisible(l) == l # NoId /\ Visible(lbs[l].st)
LBsNamed(s)  == {l \in LbIds : Visible(lbs[l].st) /\ lbs[l].name = s}
VIPsUnder(l) == {v \in VipIds : vips[v].st # "absent" /\ vips[v].lb = l}
ListenersOn(l) == {v \in VsIds : Visible(vss[v].st) /\ vss[v].lb = l}

(* The lowest unused id: ids are interchangeable, so one choice is enough. *)
Next0(S, id) == id \in S /\ \A x \in S : id <= x

(* One-call effects.  The caller conjoins UNCHANGED for the rest. *)
LBAccepted(l, s)  == \E st \in Born : lbs' = [lbs EXCEPT ![l] = [st |-> st, name |-> s]]
LBDeleteAccepted(l) ==
    lbs' = IF LBVisible(l) THEN [lbs EXCEPT ![l].st = "deleting"] ELSE lbs
VIPAccepted(v, l, s) ==
    \E st \in {"active"} \cup (Born \cap {"pending"}) :
        vips' = [vips EXCEPT ![v] = [st |-> st, lb |-> l, by |-> s]]
VIPDeleteAccepted(v) == vips' = [vips EXCEPT ![v] = NoVIP]
VSAccepted(v, r) == \E st \in Born : vss' = [vss EXCEPT ![v] = [r EXCEPT !.st = st]]
VSDeleteAccepted(v) ==
    vss' = IF Visible(vss[v].st) THEN [vss EXCEPT ![v].st = "deleting"] ELSE vss

(* The provider's own progress. *)
LBBecomes(l, from, to) == /\ lbs[l].st = from
                          /\ lbs' = [lbs EXCEPT ![l].st = to]
                          /\ UNCHANGED <<vips, vss>>
VSBecomes(v, from, to) == /\ vss[v].st = from
                          /\ vss' = [vss EXCEPT ![v].st = to]
                          /\ UNCHANGED <<lbs, vips>>
VIPBecomes(v, from, to) == /\ vips[v].st = from
                           /\ vips' = [vips EXCEPT ![v].st = to]
                           /\ UNCHANGED <<lbs, vss>>
LBGone(l) ==
    /\ lbs' = [lbs EXCEPT ![l] = NoLB]
    /\ vips' = [v \in VipIds |-> IF vips[v].lb = l THEN NoVIP ELSE vips[v]]
    /\ vss' = [v \in VsIds |-> IF vss[v].lb = l THEN NoVS ELSE vss[v]]
VSGone(v) == vss' = [vss EXCEPT ![v] = NoVS] /\ UNCHANGED <<lbs, vips>>
=============================================================================

---------------------------- MODULE ControlPlaneLB ----------------------------
(* The control-plane load balancers of the Shoots at CMP, and the f5client   *)
(* calls that make and delete them (pkg/f5/client.go): LB service, then VIP, *)
(* then virtual server, each found before it is created; deleted in reverse  *)
(* order, best effort.                                                       *)
(*                                                                           *)
(* CMP scopes its lists by project.  Every Shoot of a project runs in one    *)
(* organisation, so "cp-lb-" + partition is one name per project: "cp" here. *)
(* The virtual server's name "cp-apiserver-vs" is the constant "cp" too.     *)
(* Everything of another name is "other" and belongs to somebody else.       *)
EXTENDS Naturals, FiniteSets

CONSTANTS Shoots, Projects,
          Project,      \* the CMP project of each Shoot
          Ids,          \* ids CMP can give to LB services, VIPs and virtual servers
          AppIds,       \* i \in AppIds: an application LB service i with VIP i and listener i
          AppProject,   \* ... in this project, made by some svc-lb-bridge
          NoId, NoShoot

ASSUME CPAssumption ==
    /\ Project \in [Shoots -> Projects]
    /\ Ids \subseteq Nat /\ IsFiniteSet(Ids) /\ AppIds \subseteq Ids /\ AppProject \in Projects
    /\ NoId \notin Ids /\ NoShoot \notin Shoots

VARIABLES lbs, vips, vss,
          cmpUp   \* CMP answers
cpVars == <<lbs, vips, vss, cmpUp>>

LBRecord  == [st : {"absent", "live", "deleting"}, project : Projects, name : {"cp", "other"}]
VIPRecord == [st : {"absent", "live"}, lb : Ids \cup {NoId}]
(* by: the Shoot whose kube-apiserver the listener forwards to. *)
VSRecord  == [st : {"absent", "pending", "ready", "deleting"}, lb : Ids \cup {NoId},
              name : {"cp", "other"}, by : Shoots \cup {NoShoot}]

NoLB  == [st |-> "absent", project |-> AppProject, name |-> "other"]
NoVIP == [st |-> "absent", lb |-> NoId]
NoVS  == [st |-> "absent", lb |-> NoId, name |-> "other", by |-> NoShoot]

CPTypeOK ==
    /\ lbs \in [Ids -> LBRecord] /\ vips \in [Ids -> VIPRecord] /\ vss \in [Ids -> VSRecord]
    /\ cmpUp \in BOOLEAN

CPInit ==
    /\ lbs  = [i \in Ids |-> IF i \in AppIds THEN [NoLB EXCEPT !.st = "live"] ELSE NoLB]
    /\ vips = [i \in Ids |-> IF i \in AppIds THEN [st |-> "live", lb |-> i] ELSE NoVIP]
    /\ vss  = [i \in Ids |-> IF i \in AppIds THEN [NoVS EXCEPT !.st = "ready", !.lb = i] ELSE NoVS]
    /\ cmpUp = TRUE

(* What LIST shows: everything CMP holds, deletions in progress included. *)
LBsIn(p)   == {l \in Ids : lbs[l].st # "absent" /\ lbs[l].project = p}
VIPsOf(l)  == {v \in Ids : vips[v].st # "absent" /\ vips[v].lb = l}
VSsOf(l)   == {v \in Ids : vss[v].st # "absent" /\ vss[v].lb = l}

(* The one by our name; failing that the only one there is, whatever its     *)
(* name.  The list is in CMP's order, so any of our name may be first.       *)
Reusable(list, named) ==
    IF named # {} THEN named
    ELSE IF Cardinality(list) = 1 THEN list ELSE {}
(* Mutant of ReusableLBs: a list that failed counts as an empty one. *)
NoneReusable(s) == {}
ReusableLBs(s) == Reusable(LBsIn(Project[s]), {l \in LBsIn(Project[s]) : lbs[l].name = "cp"})
ReusableVSs(l) == Reusable(VSsOf(l), {v \in VSsOf(l) : vss[v].name = "cp"})

Smallest(S, i) == i \in S /\ \A j \in S : i <= j

(* ensureOrFindLBService / ensureOrFindVIP / ensureOrFindVirtualServer: the  *)
(* id i that comes back, from an existing resource or a new one with an id   *)
(* out of `fresh`.  Nothing looks at the status of what it finds; CMP makes  *)
(* nothing under an LB service it is deleting.                               *)
EnsureLBService(s, fresh, i) ==
    /\ UNCHANGED <<vips, vss, cmpUp>>
    /\ \/ i \in ReusableLBs(s) /\ UNCHANGED lbs
       \/ /\ ReusableLBs(s) = {}
          /\ Smallest({f \in fresh : lbs[f].st = "absent"}, i)
          /\ lbs' = [lbs EXCEPT ![i] = [st |-> "live", project |-> Project[s], name |-> "cp"]]

EnsureVIP(l, fresh, i) ==
    /\ UNCHANGED <<lbs, vss, cmpUp>>
    /\ \/ i \in VIPsOf(l) /\ UNCHANGED vips
       \/ /\ VIPsOf(l) = {} /\ lbs[l].st = "live"
          /\ Smallest({f \in fresh : vips[f].st = "absent"}, i)
          /\ vips' = [vips EXCEPT ![i] = [st |-> "live", lb |-> l]]

EnsureVirtualServer(s, l, fresh, i) ==
    /\ UNCHANGED <<lbs, vips, cmpUp>>
    /\ \/ i \in ReusableVSs(l) /\ UNCHANGED vss
       \/ /\ ReusableVSs(l) = {} /\ lbs[l].st = "live"
          /\ Smallest({f \in fresh : vss[f].st = "absent"}, i)
          /\ vss' = [vss EXCEPT ![i] = [st |-> "pending", lb |-> l, name |-> "cp", by |-> s]]

(* DeleteControlPlaneVirtualServer, one call each; an id that was never      *)
(* recorded is skipped and a refused call changes nothing.                   *)
DeleteVS(ids) ==
    /\ UNCHANGED <<lbs, vips, cmpUp>>
    /\ vss' = IF ids.vs # NoId /\ ids.lb # NoId /\ vss[ids.vs].st # "absent"
              THEN [vss EXCEPT ![ids.vs].st = "deleting"] ELSE vss
DeleteVIP(ids) ==
    /\ UNCHANGED <<lbs, vss, cmpUp>>
    /\ vips' = IF ids.vip # NoId /\ ids.lb # NoId THEN [vips EXCEPT ![ids.vip] = NoVIP] ELSE vips
DeleteLB(ids) ==
    /\ UNCHANGED <<vips, vss, cmpUp>>
    /\ lbs' = IF ids.lb # NoId /\ lbs[ids.lb].st # "absent"
              THEN [lbs EXCEPT ![ids.lb].st = "deleting"] ELSE lbs

(* CMP on its own: a virtual server becomes ready, deletions complete, and   *)
(* an LB service takes what hangs under it along.                            *)
VSReady(v) ==
    /\ vss[v].st = "pending"
    /\ vss' = [vss EXCEPT ![v].st = "ready"]
    /\ UNCHANGED <<lbs, vips, cmpUp>>
VSGone(v) ==
    /\ vss[v].st = "deleting"
    /\ vss' = [vss EXCEPT ![v] = NoVS]
    /\ UNCHANGED <<lbs, vips, cmpUp>>
LBGone(l) ==
    /\ lbs[l].st = "deleting"
    /\ lbs' = [lbs EXCEPT ![l] = NoLB]
    /\ vips' = [v \in Ids |-> IF vips[v].lb = l THEN NoVIP ELSE vips[v]]
    /\ vss' = [v \in Ids |-> IF vss[v].lb = l THEN NoVS ELSE vss[v]]
    /\ UNCHANGED cmpUp
CMPRecovers == ~cmpUp /\ cmpUp' = TRUE /\ UNCHANGED <<lbs, vips, vss>>

CMPStep == CMPRecovers \/ \E i \in Ids : VSReady(i) \/ VSGone(i) \/ LBGone(i)
=============================================================================

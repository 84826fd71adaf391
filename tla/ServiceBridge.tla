--------------------------- MODULE ServiceBridge ---------------------------
(* svc-lb-bridge: the reconciler of Services of type LoadBalancer in a shoot *)
(* (cmd/svc-lb-bridge/main.go) with the stack deployer it drives             *)
(* (pkg/deploy/lbaas: EnsureStack, CleanupStack and the LBService, VIP and   *)
(* virtual-server managers).                                                 *)
(*                                                                           *)
(* One worker (MaxConcurrentReconciles 1) runs one pass at a time.  `pc` is  *)
(* the API call it makes next and `w` its local variables.  An action is one *)
(* call to CMP or to the API server together with the local code up to the   *)
(* next call, so users, CMP and the informer move between any two calls.     *)
(*                                                                           *)
(* Abstractions.  A listener's configuration and backends are one digest, as *)
(* in DesiredVirtualServerHash.  A VIP's address is its id.  Placement,      *)
(* network and backend look-ups only ever turn a pass into an error return,  *)
(* which FailedCall allows at every call.  CMP takes a create whose name is  *)
(* taken, which is what the code's checks for several LBServices of a name   *)
(* are for; the look-up that `create` makes after a 409 is left out.         *)
(* Events, metrics, the legacy per-port annotations and the best-effort      *)
(* NetworkPolicy are left out, too.                                          *)
EXTENDS CMP

CONSTANTS VIPGroup,       \* the Services that carry one and the same vip-group annotation
          StaleReads,     \* TRUE: reads come from an informer cache that may lag
          Faults,         \* which disturbances the environment may cause
          MaxFaults,      \* bound on their number
          MaxRepairs      \* maxManagedLBRepairAttempts

VARIABLES obj,      \* Service objects on the API server: lifecycle and desired state
          ann,      \* their annotations
          status,   \* the VIP in status.loadBalancer.ingress
          seen,     \* the informer's copy of obj and ann
          queue,    \* Services waiting in the workqueue
          pc, w,    \* the worker's next call and its local variables
          faults    \* disturbances so far

k8sVars == <<obj, ann, status, seen>>
vars == <<obj, ann, status, seen, queue, pc, w, faults, lbs, vips, vss>>

FaultKinds == {"failed-call", "lb-fails", "vip-fails", "vs-fails", "lb-lost", "vip-lost",
               "vs-lost", "type-change", "port-change", "backend-change", "delete"}

ASSUME BridgeAssumption ==
    /\ IsFiniteSet(Services) /\ VIPGroup \subseteq Services
    /\ StaleReads \in BOOLEAN
    /\ Faults \subseteq FaultKinds
    /\ MaxFaults \in Nat /\ MaxRepairs \in Nat
    /\ Digests # {} /\ Ports # {}

EnsurePCs  == {"finalizer", "load", "lb-get", "lb-delete", "lb-find", "lb-create", "lb-check",
               "checkpoint", "bump", "recover", "vip", "vip-delete", "vip-create", "listener",
               "vs-delete", "vs-create", "vs-check", "publish"}
CleanupPCs == {"clean-vs", "clean-vs-get", "clean-vip", "clean-lb", "clean-lb-get",
               "unfinalize"}

Object == [there : BOOLEAN, del : BOOLEAN, eligible : BOOLEAN, fin : BOOLEAN,
           ports : SUBSET Ports, hash : Digests]
Work ==
    [svc : Services \cup {NoOwner}, base : Annotations, ports : SUBSET Ports,
     hash : Digests \cup {NoDigest}, lb : LbIds \cup {NoId}, vip : VipIds \cup {NoId},
     addressed : BOOLEAN, graph : Graph, strictLB : BOOLEAN, strictVIP : BOOLEAN,
     todo : SUBSET Ports, vs : VsIds \cup {NoId}, outcome : {"ok", "pending", "terminal"},
     deleteVIP : BOOLEAN, deleteLB : BOOLEAN]
IdleWork ==
    [svc |-> NoOwner, base |-> NoAnnotations, ports |-> {}, hash |-> NoDigest, lb |-> NoId,
     vip |-> NoId, addressed |-> FALSE, graph |-> NoGraph, strictLB |-> FALSE,
     strictVIP |-> FALSE, todo |-> {}, vs |-> NoId, outcome |-> "ok", deleteVIP |-> FALSE,
     deleteLB |-> FALSE]

TypeOK ==
    /\ CMPTypeOK
    /\ obj \in [Services -> Object]
    /\ ann \in [Services -> Annotations]
    /\ status \in [Services -> VipIds \cup {NoId}]
    /\ seen \in [Services -> [obj : Object, ann : Annotations]]
    /\ queue \in SUBSET Services
    /\ pc \in {"idle"} \cup EnsurePCs \cup CleanupPCs
    /\ w \in Work
    /\ pc # "idle" => w.svc \in Services
    /\ faults \in Nat

(* A Service is created with no annotations of ours, or with the ids of an   *)
(* LBService, of a VIP, or of both that the user brings along, marked as     *)
(* provided or not.                                                          *)
OnlyVIP(v) == [NoAnnotations EXCEPT !.vip = v]
OnlyLB(l, m) == [NoAnnotations EXCEPT !.lb = l, !.lbMode = m]
LBAndVIP(v, m) == [OnlyLB(UserVIPParent, m) EXCEPT !.vip = v, !.vipMode = m]
Supplied(m) == {OnlyLB(l, m) : l \in UserLBs} \cup {LBAndVIP(v, m) : v \in UserVIPs}
InitialAnnotations ==
    {NoAnnotations} \cup {OnlyVIP(v) : v \in UserVIPs} \cup Supplied("") \cup Supplied("provided")

Init ==
    /\ CMPInit
    /\ \E P \in (SUBSET Ports) \ {{}} :
          obj = [s \in Services |-> [there |-> TRUE, del |-> FALSE, eligible |-> TRUE,
                                     fin |-> FALSE, ports |-> P,
                                     hash |-> CHOOSE h \in Digests : TRUE]]
    /\ ann \in [Services -> InitialAnnotations]
    /\ status = [s \in Services |-> NoId]
    /\ seen = [s \in Services |-> [obj |-> obj[s], ann |-> ann[s]]]
    /\ queue = Services
    /\ pc = "idle" /\ w = IdleWork
    /\ faults = 0

-----------------------------------------------------------------------------
(* Reads, writes and the workqueue.                                          *)
View(s) == IF StaleReads THEN seen[s] ELSE [obj |-> obj[s], ann |-> ann[s]]

(* A changed object reaches the workqueue through the informer: at once, or  *)
(* when the lagging cache catches up (InformerSync).                         *)
Enqueued(S, changed) == queue \cup (IF changed /\ ~StaleReads THEN S ELSE {})

Continue(next, work) ==
    /\ pc' = next /\ w' = work
    /\ UNCHANGED <<obj, ann, status, seen, queue, faults>>

(* The pass returns; `again` is RequeueAfter or a returned error.            *)
Return(again) ==
    /\ pc' = "idle" /\ w' = IdleWork
    /\ queue' = IF again THEN queue \cup {w.svc} ELSE queue
    /\ UNCHANGED <<obj, ann, status, seen, faults>>

(* r.Patch of annotations; the response becomes the worker's new snapshot.   *)
Patched(new) == MergePatch(ann[w.svc], w.base, new)
PatchAnnotations(new) ==
    /\ obj[w.svc].there
    /\ ann' = [ann EXCEPT ![w.svc] = Patched(new)]
    /\ UNCHANGED <<obj, status, seen, faults, lbs, vips, vss>>

NamesLB(a, l)  == a.lb = l \/ a.repairID = l \/ \E k \in Services \cup {Legacy} : a.graph.lb[k] = l
NamesVIP(a, v) == a.vip = v \/ a.graph.vip = v \/ a.graph.legacyVip = v
NamesVS(a, v)  == \E p \in Ports : a.graph.vs[p].id = v
UnusedLBs ==
    {l \in LbIds \ UserLBs :
        /\ lbs[l].st = "absent"
        /\ \A s \in Services : ~NamesLB(ann[s], l) /\ ~NamesLB(seen[s].ann, l)
        /\ ~NamesLB(w.base, l)
        /\ \A k \in Services \cup {Legacy} : w.graph.lb[k] # l}
UnusedVIPs ==
    {v \in VipIds \ UserVIPs :
        /\ vips[v].st = "absent"
        /\ \A s \in Services : status[s] # v /\ ~NamesVIP(ann[s], v) /\ ~NamesVIP(seen[s].ann, v)
        /\ ~NamesVIP(w.base, v) /\ w.graph.vip # v /\ w.graph.legacyVip # v
        /\ \A x \in VsIds : vss[x].vip # v}
UnusedVSs ==
    {v \in VsIds :
        /\ vss[v].st = "absent"
        /\ \A s \in Services : ~NamesVS(ann[s], v) /\ ~NamesVS(seen[s].ann, v)
        /\ ~NamesVS(w.base, v)
        /\ \A p \in Ports : w.graph.vs[p].id # v}

-----------------------------------------------------------------------------
(* Start of a pass.                                                          *)
Dequeue(s) == pc = "idle" /\ s \in queue /\ queue' = queue \ {s}
Managed(o) == ~o.del /\ o.eligible
ProvidedVIPAlone(a) == a.vip # NoId /\ a.lb = NoId

(* Nothing to do: no object, an unmanaged one without our finalizer, or a    *)
(* vip-port-id without an lb-service-id.                                     *)
IgnoreService(s) ==
    /\ Dequeue(s)
    /\ LET o == View(s).obj IN
       \/ ~o.there
       \/ o.there /\ ~Managed(o) /\ ~o.fin
       \/ o.there /\ Managed(o) /\ ProvidedVIPAlone(View(s).ann)
    /\ UNCHANGED <<obj, ann, status, seen, pc, w, faults, lbs, vips, vss>>

(* The desired stack is built from this snapshot of the Service.             *)
BeginEnsure(s) ==
    /\ Dequeue(s)
    /\ View(s).obj.there /\ Managed(View(s).obj)
    /\ ~ProvidedVIPAlone(View(s).ann)
    /\ pc' = IF View(s).obj.fin THEN "load" ELSE "finalizer"
    /\ w' = [IdleWork EXCEPT !.svc = s, !.base = View(s).ann, !.ports = View(s).obj.ports,
                             !.hash = View(s).obj.hash]
    /\ UNCHANGED <<obj, ann, status, seen, faults, lbs, vips, vss>>

EnsureFinalizer ==
    /\ pc = "finalizer" /\ obj[w.svc].there
    /\ obj' = [obj EXCEPT ![w.svc].fin = TRUE]
    /\ queue' = Enqueued({w.svc}, ~obj[w.svc].fin)
    /\ pc' = "load" /\ w' = [w EXCEPT !.base = ann[w.svc]]
    /\ UNCHANGED <<ann, status, seen, faults, lbs, vips, vss>>

(* sharedParentObservedState: the LBService and VIP of a sibling of the      *)
(* vip-group that has recorded both under the group.                         *)
SharedParent(s, t, k) ==
    /\ s \in VIPGroup /\ t # s /\ View(t).obj.there
    /\ View(t).ann.graph.has /\ View(t).ann.graph.lb[k] # NoId
    /\ View(t).ann.graph.vip # NoId
ParentGraph(t, k) ==
    LET g == View(t).ann.graph IN
    [NoGraph EXCEPT !.has = TRUE, !.lb[k] = g.lb[k], !.vip = g.vip, !.vipOwner = g.vipOwner]

(* EnsureStack begins with these ids and this graph; the strict flags are    *)
(* computed before EnsureGraph adds the legacy keys.                         *)
Loaded(lb, vip, g) ==
    [w EXCEPT !.lb = lb, !.vip = vip, !.graph = EnsureGraph(g, lb, vip),
              !.strictLB = StrictLB(w.svc, w.base, g), !.strictVIP = StrictVIP(w.svc, w.base, g)]
LoadObserved ==
    /\ pc = "load"
    /\ \/ /\ w.base.lb # NoId \/ \A t, k \in VIPGroup : ~SharedParent(w.svc, t, k)
          /\ Continue(IF w.base.lb = NoId THEN "lb-find" ELSE "lb-get",
                      Loaded(w.base.lb, w.base.vip, w.base.graph))
       \/ /\ w.base.lb = NoId
          /\ \E t, k \in VIPGroup :
                /\ SharedParent(w.svc, t, k)
                /\ LET g == ParentGraph(t, k) IN Continue("lb-get", Loaded(g.lb[k], g.vip, g))
    /\ UNCHANGED <<lbs, vips, vss>>

-----------------------------------------------------------------------------
(* LBServiceManager.Ensure and the checkpoint hook.                          *)
(* Mutant of LBOutcome: CMP's status is passed on unclassified. *)
LBOutcomeRaw(st) == st
LBOutcome(st) == CASE st = "ready" -> "ok" [] st = "failed" -> "terminal" [] OTHER -> "pending"

GetRecordedLB ==
    /\ pc = "lb-get"
    /\ \/ /\ LBVisible(w.lb) /\ (lbs[w.lb].st # "failed" \/ w.strictLB)
          /\ Continue("checkpoint", [w EXCEPT !.outcome = LBOutcome(lbs[w.lb].st)])
       \/ /\ LBVisible(w.lb) /\ lbs[w.lb].st = "failed" /\ ~w.strictLB
          /\ Continue("lb-delete", w)
       \/ ~LBVisible(w.lb) /\ w.strictLB /\ Return(TRUE)
       \/ ~LBVisible(w.lb) /\ ~w.strictLB /\ Continue("lb-find", [w EXCEPT !.lb = NoId])
    /\ UNCHANGED <<lbs, vips, vss>>

DeleteFailedLB ==
    /\ pc = "lb-delete"
    /\ LBDeleteAccepted(w.lb)
    /\ Continue("checkpoint", [w EXCEPT !.outcome = "pending"])
    /\ UNCHANGED <<vips, vss>>

(* Mutant of FindLBByName: no look-up before the create. *)
CreateWithoutLookup ==
    pc = "lb-find" /\ Continue("lb-create", w) /\ UNCHANGED <<lbs, vips, vss>>
FindLBByName ==
    /\ pc = "lb-find"
    /\ \/ Cardinality(LBsNamed(w.svc)) > 1 /\ Return(TRUE)
       \/ /\ Cardinality(LBsNamed(w.svc)) = 1
          /\ \E l \in LBsNamed(w.svc) : Continue("lb-check", [w EXCEPT !.lb = l])
       \/ LBsNamed(w.svc) = {} /\ Continue("lb-create", w)
    /\ UNCHANGED <<lbs, vips, vss>>

CreateLB ==
    /\ pc = "lb-create"
    /\ \E l \in LbIds : /\ Next0(UnusedLBs, l)
                        /\ LBAccepted(l, w.svc)
                        /\ Continue("lb-check", [w EXCEPT !.lb = l])
    /\ UNCHANGED <<vips, vss>>

CheckCreatedLB ==
    /\ pc = "lb-check"
    /\ Continue("checkpoint",
                [w EXCEPT !.outcome = IF LBVisible(w.lb) THEN LBOutcome(lbs[w.lb].st)
                                      ELSE "pending"])
    /\ UNCHANGED <<lbs, vips, vss>>

(* persistLBCheckpoint, run for a ready LBService and for a pending or failed *)
(* one; only then does the pass go on, wait, or count a repair.              *)
WithLB(g) == [g EXCEPT !.lb[w.svc] = w.lb]
CheckpointOf(a) ==
    [a EXCEPT !.lb = w.lb, !.graph = WithLB(w.graph),
              !.lbMode = IF @ # "" THEN @ ELSE IF w.strictLB THEN "provided" ELSE "managed"]
CheckpointNext ==
    CASE w.outcome = "ok" -> "recover"
      [] w.outcome = "terminal" /\ ~w.strictLB -> "bump"
      [] OTHER -> "idle"
PersistCheckpoint ==
    /\ pc = "checkpoint"
    /\ PatchAnnotations(CheckpointOf(w.base))
    /\ pc' = CheckpointNext
    /\ w' = IF CheckpointNext = "idle" THEN IdleWork
            ELSE [w EXCEPT !.base = ann'[w.svc], !.graph = WithLB(w.graph)]
    /\ queue' = Enqueued({w.svc}, ann'[w.svc] # ann[w.svc])
                  \cup (IF w.outcome = "pending" THEN {w.svc} ELSE {})

(* A managed LBService found failed right after its creation: at most        *)
(* MaxRepairs passes are retried for one and the same id.                    *)
RepairsOf(a) == IF a.repairID = w.lb THEN a.repairs ELSE 0
BumpRepairs ==
    /\ pc = "bump"
    /\ \/ RepairsOf(w.base) >= MaxRepairs /\ Return(FALSE) /\ UNCHANGED <<lbs, vips, vss>>
       \/ /\ RepairsOf(w.base) < MaxRepairs
          /\ PatchAnnotations([w.base EXCEPT !.repairID = w.lb,
                                             !.repairs = RepairsOf(w.base) + 1])
          /\ pc' = "idle" /\ w' = IdleWork
          /\ queue' = queue \cup {w.svc}

-----------------------------------------------------------------------------
(* recoverVirtualServersByName, when no VIP is recorded: the listeners that  *)
(* carry our deterministic names prove which VIP is ours.                    *)
(* Mutant of ListenersNamed: a listener on the right port is taken for ours. *)
ListenersOnPort(s, p) == {v \in ListenersOn(w.lb) : vss[v].port = p}
ListenersNamed(s, p) == {v \in ListenersOn(w.lb) : vss[v].by = s /\ vss[v].port = p}
FoundPorts == {p \in w.ports : ListenersNamed(w.svc, p) # {}}
Ambiguous(p) == Cardinality(ListenersNamed(w.svc, p)) > 1
Recovered ==
    [w.graph EXCEPT !.vs = [p \in Ports |->
        IF p \in FoundPorts
        THEN [id |-> CHOOSE v \in ListenersNamed(w.svc, p) : TRUE, hash |-> w.hash]
        ELSE @[p]]]

RecoverByName ==
    /\ pc = "recover" /\ LBVisible(w.lb)
    /\ \/ w.vip # NoId /\ Continue("vip", w)
       \/ w.vip = NoId /\ (\E p \in w.ports : Ambiguous(p)) /\ Return(TRUE)
       \/ w.vip = NoId /\ FoundPorts = {} /\ Continue("vip", w)
       \/ /\ w.vip = NoId /\ \A p \in w.ports : ~Ambiguous(p)
          /\ \E p \in FoundPorts : \E v \in ListenersNamed(w.svc, p) :
                \/ /\ vss[v].vip \in VIPsUnder(w.lb)
                   /\ Continue("vip", [w EXCEPT !.vip = vss[v].vip, !.graph = Recovered])
                \/ vss[v].vip \notin VIPsUnder(w.lb) /\ Return(TRUE)
    /\ UNCHANGED <<lbs, vips, vss>>

(* VIPManager.Ensure. *)
WithVIP(g, v) == [g EXCEPT !.vip = v, !.vipOwner = w.svc]
UseVIP(v, addressed) ==
    Continue("listener", [w EXCEPT !.vip = v, !.addressed = addressed, !.todo = w.ports,
                                   !.graph = WithVIP(w.graph, v)])
EnsureVIP ==
    /\ pc = "vip" /\ LBVisible(w.lb)
    /\ IF w.vip \in VIPsUnder(w.lb)
       THEN \/ vips[w.vip].st = "active" /\ UseVIP(w.vip, TRUE)
            \/ vips[w.vip].st = "failed" /\ ~w.strictVIP /\ Continue("vip-delete", w)
            \/ vips[w.vip].st = "failed" /\ w.strictVIP /\ Return(TRUE)
            \/ vips[w.vip].st = "pending" /\ Return(TRUE)
       ELSE \/ w.strictVIP /\ Return(TRUE)
            \/ ~w.strictVIP /\ Continue("vip-create", w)
    /\ UNCHANGED <<lbs, vips, vss>>

DeleteFailedVIP ==
    /\ pc = "vip-delete"
    /\ VIPDeleteAccepted(w.vip) /\ Return(TRUE)
    /\ UNCHANGED <<lbs, vss>>

CreateVIP ==
    /\ pc = "vip-create" /\ LBVisible(w.lb)
    /\ \E v \in VipIds : /\ Next0(UnusedVIPs, v)
                         /\ VIPAccepted(v, w.lb, w.svc)
                         /\ UseVIP(v, vips'[v].st = "active")
    /\ UNCHANGED <<lbs, vss>>

-----------------------------------------------------------------------------
(* VirtualServerManager.Ensure, for the ports in turn.                       *)
FrontendTaken(p, id) ==
    \E v \in ListenersOn(w.lb) :
        v # id /\ ~(vss[v].by = w.svc /\ vss[v].port = p) /\ vss[v].port = p /\ vss[v].vip = w.vip

(* The listener the pass works with: the recorded id while CMP still lists   *)
(* it, else the one found under the deterministic name.                      *)
RecordedListener(p) == IF w.graph.vs[p].id \in ListenersOn(w.lb) THEN w.graph.vs[p].id ELSE NoId
(* Mutant of CurrentListener: a listener is never recovered by its name. *)
RecordedOnly(p) == RecordedListener(p)
CurrentListener(p) ==
    IF RecordedListener(p) # NoId \/ ListenersNamed(w.svc, p) = {} THEN RecordedListener(p)
    ELSE CHOOSE v \in ListenersNamed(w.svc, p) : TRUE

(* A recorded digest decides; without one, only adoption by name keeps it.   *)
(* Mutant of Keeps: a listener adopted by name is never kept. *)
KeepsRecorded(p) == w.graph.vs[p].hash = w.hash
Keeps(p) == LET h == w.graph.vs[p].hash IN h = w.hash \/ (h = NoDigest /\ RecordedListener(p) = NoId)

DoneWith(p, v) == [w EXCEPT !.graph.vs[p] = [id |-> v, hash |-> w.hash], !.todo = @ \ {p},
                            !.vs = NoId]
EnsureListener(p) ==
    /\ pc = "listener" /\ LBVisible(w.lb)
    /\ p \in w.todo /\ \A q \in w.todo : p <= q
    /\ LET v == CurrentListener(p) IN
       \/ FrontendTaken(p, w.graph.vs[p].id) /\ Return(TRUE)
       \/ /\ ~FrontendTaken(p, w.graph.vs[p].id)
          /\ \/ RecordedListener(p) = NoId /\ Ambiguous(p) /\ Return(TRUE)
             \/ RecordedListener(p) = NoId /\ ~Ambiguous(p) /\ v = NoId /\ Continue("vs-create", w)
             \/ /\ v # NoId /\ ~(RecordedListener(p) = NoId /\ Ambiguous(p))
                /\ \/ vss[v].vip # w.vip /\ Return(TRUE)
                   \/ vss[v].vip = w.vip /\ vss[v].st \in {"pending", "deleting"} /\ Return(TRUE)
                   \/ /\ vss[v].vip = w.vip
                      /\ (vss[v].st = "failed") \/ (vss[v].st = "ready" /\ ~Keeps(p))
                      /\ Continue("vs-delete", [w EXCEPT !.vs = v])
                   \/ /\ vss[v].vip = w.vip /\ vss[v].st = "ready" /\ Keeps(p)
                      /\ Continue("listener", DoneWith(p, v))
    /\ UNCHANGED <<lbs, vips, vss>>

DeleteListener ==
    /\ pc = "vs-delete"
    /\ VSDeleteAccepted(w.vs) /\ Return(TRUE)
    /\ UNCHANGED <<lbs, vips>>

NextPort == CHOOSE p \in w.todo : \A q \in w.todo : p <= q
CreateListener ==
    /\ pc = "vs-create" /\ LBVisible(w.lb)
    /\ \E v \in VsIds :
          /\ Next0(UnusedVSs, v)
          /\ VSAccepted(v, [NoVS EXCEPT !.lb = w.lb, !.vip = w.vip, !.by = w.svc,
                                        !.port = NextPort, !.hash = w.hash])
          /\ Continue("vs-check", [w EXCEPT !.vs = v])
    /\ UNCHANGED <<lbs, vips>>

(* Mutant of CheckCreatedListener: an accepted create counts as a listener. *)
TrustCreatedListener ==
    /\ pc = "vs-check" /\ Continue("listener", DoneWith(NextPort, w.vs))
    /\ UNCHANGED <<lbs, vips, vss>>
CheckCreatedListener ==
    /\ pc = "vs-check"
    /\ \/ vss[w.vs].st = "ready" /\ Continue("listener", DoneWith(NextPort, w.vs))
       \/ vss[w.vs].st = "failed" /\ Continue("vs-delete", w)
       \/ vss[w.vs].st \notin {"ready", "failed"} /\ Return(TRUE)
    /\ UNCHANGED <<lbs, vips, vss>>

(* deleteObsoleteVirtualServers: listeners recorded for ports that are gone. *)
Obsolete == {p \in Ports \ w.ports : w.graph.vs[p].id # NoId}
DeleteObsoleteListener ==
    /\ pc = "listener" /\ w.todo = {}
    /\ \E p \in Obsolete :
          /\ VSDeleteAccepted(w.graph.vs[p].id)
          /\ Continue("listener", [w EXCEPT !.graph.vs[p] = NoListener])
    /\ UNCHANGED <<lbs, vips>>

(* The pass succeeded: one patch records everything, then the VIP is shown.  *)
ResultOf(a) ==
    [a EXCEPT !.lb = w.lb, !.vip = w.vip, !.repairID = NoId, !.repairs = 0,
              !.lbMode = IF @ # "" THEN @ ELSE IF w.strictLB THEN "provided" ELSE "managed",
              !.vipMode = IF @ # "" THEN @ ELSE IF w.strictVIP THEN "provided" ELSE "managed",
              !.graph = DropMigratedLegacyAliases(w.graph)]
PersistResult ==
    /\ pc = "listener" /\ w.todo = {} /\ Obsolete = {}
    /\ PatchAnnotations(ResultOf(w.base))
    /\ pc' = IF w.addressed THEN "publish" ELSE "idle"
    /\ w' = IF w.addressed THEN [w EXCEPT !.base = ann'[w.svc]] ELSE IdleWork
    /\ queue' = Enqueued({w.svc}, ann'[w.svc] # ann[w.svc])
                  \cup (IF w.addressed THEN {} ELSE {w.svc})

PublishVIP ==
    /\ pc = "publish" /\ obj[w.svc].there
    /\ status' = [status EXCEPT ![w.svc] = w.vip]
    /\ queue' = Enqueued({w.svc}, status[w.svc] # w.vip)
    /\ pc' = "idle" /\ w' = IdleWork
    /\ UNCHANGED <<obj, ann, seen, faults, lbs, vips, vss>>

-----------------------------------------------------------------------------
(* Cleanup: deletion, type change or class change.                           *)
KeepsParent(t, l) ==
    LET a == View(t).ann IN
    /\ View(t).obj.there /\ View(t).obj.fin
    /\ IF a.graph.has THEN a.graph.lb[t] = l ELSE a.lb = l
(* Mutant of IsLBShared: a sibling that is itself being deleted does not count. *)
IsLBSharedByLiving(s, l) ==
    l # NoId /\ \E t \in Services \ {s} : KeepsParent(t, l) /\ ~View(t).obj.del
IsLBShared(s, l) == l # NoId /\ \E t \in Services \ {s} : KeepsParent(t, l)
IsVIPShared(s, l, v) ==
    /\ l # NoId /\ v # NoId
    /\ \E t \in Services \ {s} : /\ View(t).obj.there /\ View(t).obj.fin
                                 /\ View(t).ann.lb = l /\ View(t).ann.vip = v

BeginCleanup(s) ==
    /\ Dequeue(s)
    /\ View(s).obj.there /\ ~Managed(View(s).obj) /\ View(s).obj.fin
    /\ LET a == View(s).ann
           g == EnsureGraph(a.graph, a.lb, a.vip) IN
       /\ pc' = IF CleanupLBs(a.lb, g) = {} THEN "unfinalize" ELSE "clean-vs"
       /\ w' = [IdleWork EXCEPT
                    !.svc = s, !.base = a, !.graph = g,
                    !.lb = IF CleanupLBs(a.lb, g) = {} THEN NoId
                           ELSE CHOOSE l \in CleanupLBs(a.lb, g) : TRUE,
                    !.deleteVIP = ~IsVIPShared(s, a.lb, a.vip) /\ a.vipMode # "provided",
                    !.deleteLB = ~IsLBShared(s, a.lb) /\ a.lbMode # "provided"]
    /\ UNCHANGED <<obj, ann, status, seen, faults, lbs, vips, vss>>

(* cleanupLBServiceID: two parent ids are refused, not guessed at.           *)
RefuseAmbiguousCleanup ==
    /\ pc = "clean-vs" /\ Cardinality(CleanupLBs(w.base.lb, w.graph)) > 1
    /\ Return(TRUE)
    /\ UNCHANGED <<lbs, vips, vss>>

(* Mutant of CleanListener: every listener of the LBService goes. *)
CleanWholeLB ==
    /\ pc = "clean-vs" /\ Cardinality(CleanupLBs(w.base.lb, w.graph)) = 1
    /\ \/ ListenersOn(w.lb) = {} /\ Continue("clean-vip", w) /\ UNCHANGED vss
       \/ \E v \in ListenersOn(w.lb) :
             VSDeleteAccepted(v) /\ Continue("clean-vs-get", [w EXCEPT !.vs = v])
    /\ UNCHANGED <<lbs, vips>>
CleanListener ==
    /\ pc = "clean-vs" /\ Cardinality(CleanupLBs(w.base.lb, w.graph)) = 1
    /\ \/ /\ CleanupListeners(w.graph) = {}
          /\ Continue("clean-vip", w) /\ UNCHANGED vss
       \/ \E v \in CleanupListeners(w.graph) :
             VSDeleteAccepted(v) /\ Continue("clean-vs-get", [w EXCEPT !.vs = v])
    /\ UNCHANGED <<lbs, vips>>

(* Mutant of WithoutListener: the deleted listener stays in the graph. *)
WithListenerKept(g, v) == g
WithoutListener(g, v) ==
    [g EXCEPT !.vs = [p \in Ports |-> IF @[p].id = v THEN NoListener ELSE @[p]]]
(* Mutant of ConfirmListenerGone: an accepted DELETE counts as deleted. *)
AssumeListenerGone ==
    /\ pc = "clean-vs-get"
    /\ Continue("clean-vs", [w EXCEPT !.graph = WithoutListener(w.graph, w.vs), !.vs = NoId])
    /\ UNCHANGED <<lbs, vips, vss>>
ConfirmListenerGone ==
    /\ pc = "clean-vs-get"
    /\ \/ Visible(vss[w.vs].st) /\ Return(TRUE)
       \/ /\ ~Visible(vss[w.vs].st)
          /\ Continue("clean-vs", [w EXCEPT !.graph = WithoutListener(w.graph, w.vs),
                                            !.vs = NoId])
    /\ UNCHANGED <<lbs, vips, vss>>

WithoutVIP(g, v) == [g EXCEPT !.vip = IF @ = v THEN NoId ELSE @,
                              !.legacyVip = IF @ = v THEN NoId ELSE @]
AfterVIPs == IF w.deleteLB THEN "clean-lb" ELSE "unfinalize"
CleanVIP ==
    /\ pc = "clean-vip"
    /\ \/ /\ ~w.deleteVIP \/ CleanupVIPs(w.graph) = {}
          /\ Continue(AfterVIPs, w) /\ UNCHANGED vips
       \/ /\ w.deleteVIP
          /\ \E v \in CleanupVIPs(w.graph) :
                VIPDeleteAccepted(v) /\ Continue("clean-vip", [w EXCEPT !.graph = WithoutVIP(@, v)])
    /\ UNCHANGED <<lbs, vss>>

CleanLB ==
    /\ pc = "clean-lb"
    /\ LBDeleteAccepted(w.lb) /\ Continue("clean-lb-get", w)
    /\ UNCHANGED <<vips, vss>>

(* Mutant of ConfirmLBGone: an accepted DELETE counts as deleted. *)
AssumeLBGone ==
    /\ pc = "clean-lb-get" /\ Continue("unfinalize", w) /\ UNCHANGED <<lbs, vips, vss>>
ConfirmLBGone ==
    /\ pc = "clean-lb-get"
    /\ \/ LBVisible(w.lb) /\ Return(TRUE)
       \/ ~LBVisible(w.lb) /\ Continue("unfinalize", w)
    /\ UNCHANGED <<lbs, vips, vss>>

(* The last finalizer of a deleted object takes the object with it.          *)
RemoveFinalizer ==
    /\ pc = "unfinalize" /\ obj[w.svc].there
    /\ LET gone == obj[w.svc].del IN
       /\ obj' = [obj EXCEPT ![w.svc].fin = FALSE, ![w.svc].there = ~gone]
       /\ ann' = IF gone THEN [ann EXCEPT ![w.svc] = NoAnnotations] ELSE ann
       /\ status' = IF gone THEN [status EXCEPT ![w.svc] = NoId] ELSE status
    /\ queue' = Enqueued({w.svc}, TRUE)
    /\ pc' = "idle" /\ w' = IdleWork
    /\ UNCHANGED <<seen, faults, lbs, vips, vss>>

(* A call whose parent LBService or Service object is gone fails, and so does *)
(* a create when the quota (the ids of this instance) is used up.            *)
CallRefused ==
    /\ \/ /\ pc \in {"finalizer", "checkpoint", "bump", "publish", "unfinalize"}
          /\ ~obj[w.svc].there
       \/ pc = "listener" /\ w.todo = {} /\ Obsolete = {} /\ ~obj[w.svc].there
       \/ pc \in {"recover", "vip", "vip-create", "vs-create"} /\ ~LBVisible(w.lb)
       \/ pc = "listener" /\ w.todo # {} /\ ~LBVisible(w.lb)
       \/ pc = "lb-create" /\ UnusedLBs = {}
       \/ pc = "vip-create" /\ UnusedVIPs = {}
       \/ pc = "vs-create" /\ UnusedVSs = {}
    /\ Return(TRUE)
    /\ UNCHANGED <<lbs, vips, vss>>
-----------------------------------------------------------------------------
(* The environment.                                                          *)
Disturb(kind) == kind \in Faults /\ faults < MaxFaults /\ faults' = faults + 1

(* A call times out, is refused, is rate limited or loses its answer, or the *)
(* process dies: the pass ends here and the local variables are lost.        *)
FailedCall ==
    /\ Disturb("failed-call") /\ pc # "idle"
    /\ pc' = "idle" /\ w' = IdleWork /\ queue' = queue \cup {w.svc}
    /\ UNCHANGED <<obj, ann, status, seen, lbs, vips, vss>>

UnchangedBridge == UNCHANGED <<obj, ann, status, seen, queue, pc, w>>
LBSettles(l) ==
    /\ LBBecomes(l, "hidden", "pending") \/ LBBecomes(l, "pending", "ready")
    /\ UnchangedBridge /\ UNCHANGED faults
VIPSettles(v) == VIPBecomes(v, "pending", "active") /\ UnchangedBridge /\ UNCHANGED faults
VSSettles(v) ==
    /\ VSBecomes(v, "hidden", "pending") \/ VSBecomes(v, "pending", "ready")
    /\ UnchangedBridge /\ UNCHANGED faults
LBDeleted(l) == lbs[l].st = "deleting" /\ LBGone(l) /\ UnchangedBridge /\ UNCHANGED faults
VSDeleted(v) == vss[v].st = "deleting" /\ VSGone(v) /\ UnchangedBridge /\ UNCHANGED faults

LBFails(l) ==
    /\ Disturb("lb-fails") /\ UnchangedBridge
    /\ \E st \in {"pending", "ready"} : LBBecomes(l, st, "failed")
VIPFails(v) ==
    /\ Disturb("vip-fails") /\ UnchangedBridge
    /\ \E st \in {"pending", "active"} : VIPBecomes(v, st, "failed")
VSFails(v) ==
    /\ Disturb("vs-fails") /\ UnchangedBridge
    /\ \E st \in {"pending", "ready"} : VSBecomes(v, st, "failed")
LBLost(l)  == Disturb("lb-lost") /\ Live(lbs[l].st) /\ LBGone(l) /\ UnchangedBridge
VIPLost(v) == /\ Disturb("vip-lost") /\ vips[v].st # "absent" /\ VIPDeleteAccepted(v)
              /\ UnchangedBridge /\ UNCHANGED <<lbs, vss>>
VSLost(v)  == Disturb("vs-lost") /\ Live(vss[v].st) /\ VSGone(v) /\ UnchangedBridge

UserChange(s, o) ==
    /\ obj[s].there /\ ~obj[s].del
    /\ obj' = [obj EXCEPT ![s] = o]
    /\ queue' = Enqueued({s}, TRUE)
    /\ UNCHANGED <<seen, pc, w, lbs, vips, vss>>
ChangeType(s) ==
    /\ Disturb("type-change") /\ UserChange(s, [obj[s] EXCEPT !.eligible = ~@])
    /\ UNCHANGED <<ann, status>>
ChangePorts(s) ==
    /\ Disturb("port-change")
    /\ \E P \in (SUBSET Ports) \ {{}, obj[s].ports} : UserChange(s, [obj[s] EXCEPT !.ports = P])
    /\ UNCHANGED <<ann, status>>
ChangeBackends(s) ==
    /\ Disturb("backend-change")
    /\ \E h \in Digests \ {obj[s].hash} : UserChange(s, [obj[s] EXCEPT !.hash = h])
    /\ UNCHANGED <<ann, status>>
DeleteService(s) ==
    /\ "delete" \in Faults /\ UNCHANGED faults
    /\ UserChange(s, [obj[s] EXCEPT !.del = TRUE, !.there = obj[s].fin])
    /\ ann' = IF obj[s].fin THEN ann ELSE [ann EXCEPT ![s] = NoAnnotations]
    /\ status' = IF obj[s].fin THEN status ELSE [status EXCEPT ![s] = NoId]

(* The lagging cache catches up, and the event is delivered.                 *)
InformerSync(s) ==
    /\ StaleReads /\ seen[s] # [obj |-> obj[s], ann |-> ann[s]]
    /\ seen' = [seen EXCEPT ![s] = [obj |-> obj[s], ann |-> ann[s]]]
    /\ queue' = queue \cup {s}
    /\ UNCHANGED <<obj, ann, status, pc, w, faults, lbs, vips, vss>>

(* Node and EndpointSlice events, the periodic resync and a restart enqueue  *)
(* every managed Service.                                                    *)
Resync(s) ==
    /\ s \notin queue /\ View(s).obj.there
    /\ queue' = queue \cup {s}
    /\ UNCHANGED <<obj, ann, status, seen, pc, w, faults, lbs, vips, vss>>
-----------------------------------------------------------------------------
StartPass(s) == IgnoreService(s) \/ BeginEnsure(s) \/ BeginCleanup(s)
Ensure ==
    \/ EnsureFinalizer \/ LoadObserved
    \/ GetRecordedLB \/ DeleteFailedLB \/ FindLBByName \/ CreateLB \/ CheckCreatedLB
    \/ PersistCheckpoint \/ BumpRepairs
    \/ RecoverByName \/ EnsureVIP \/ DeleteFailedVIP \/ CreateVIP
    \/ (\E p \in Ports : EnsureListener(p))
    \/ DeleteListener \/ CreateListener \/ CheckCreatedListener
    \/ DeleteObsoleteListener \/ PersistResult \/ PublishVIP
Cleanup ==
    \/ RefuseAmbiguousCleanup \/ CleanListener \/ ConfirmListenerGone \/ CleanVIP
    \/ CleanLB \/ ConfirmLBGone \/ RemoveFinalizer
Worker == (\E s \in Services : StartPass(s)) \/ Ensure \/ Cleanup \/ CallRefused

Provider ==
    \/ \E l \in LbIds : LBSettles(l) \/ LBDeleted(l)
    \/ \E v \in VipIds : VIPSettles(v)
    \/ \E v \in VsIds : VSSettles(v) \/ VSDeleted(v)
Disturbance ==
    \/ FailedCall
    \/ \E l \in LbIds : LBFails(l) \/ LBLost(l)
    \/ \E v \in VipIds : VIPFails(v) \/ VIPLost(v)
    \/ \E v \in VsIds : VSFails(v) \/ VSLost(v)
    \/ \E s \in Services : ChangeType(s) \/ ChangePorts(s) \/ ChangeBackends(s)
    \/ \E s \in Services : DeleteService(s)

Next == Worker \/ Provider \/ Disturbance \/ (\E s \in Services : InformerSync(s) \/ Resync(s))

Spec == Init /\ [][Next]_vars

(* The worker is a goroutine that takes its next step; the workqueue is FIFO *)
(* so no Service waits for ever; CMP finishes what it accepted.              *)
Fairness ==
    /\ WF_vars(Ensure \/ Cleanup \/ CallRefused)
    /\ \A s \in Services : SF_vars(StartPass(s))
    /\ \A s \in Services : WF_vars(InformerSync(s)) /\ WF_vars(Resync(s))
    /\ \A l \in LbIds : WF_vars(LBSettles(l) \/ LBDeleted(l))
    /\ \A v \in VipIds : WF_vars(VIPSettles(v))
    /\ \A v \in VsIds : WF_vars(VSSettles(v) \/ VSDeleted(v))
FairSpec == Spec /\ Fairness
-----------------------------------------------------------------------------
(* What the bridge promises.                                                 *)

(* However passes are cut short or read a stale cache, CMP never holds two   *)
(* LBServices of one Service that nobody asked to delete: the deterministic  *)
(* name is looked up before every create.  Needs reads after a create to see *)
(* it ("hidden" not in Born).                                                *)
OneLBPerService ==
    \A s \in Services : Cardinality({l \in LbIds : Live(lbs[l].st) /\ lbs[l].name = s}) <= 1

(* Likewise a Service never has two listeners for one frontend port of an    *)
(* LBService: what an aborted pass created is found again by name.           *)
OneListenerPerPort ==
    \A s \in Services, l \in LbIds, p \in Ports :
        Cardinality({v \in VsIds : /\ Live(vss[v].st) /\ vss[v].lb = l
                                   /\ vss[v].by = s /\ vss[v].port = p}) <= 1

(* A VIP is shown in status.loadBalancer only after it was recorded and a    *)
(* listener that CMP had reported ready was recorded on it for every port of *)
(* the pass, whatever has become of that listener since.                     *)
PublishedServes ==
    [][\A s \in Services : status'[s] \notin {NoId, status[s]} =>
          /\ ann[s].vip = status'[s]
          /\ \A p \in w.ports : LET v == ann[s].graph.vs[p].id IN
                /\ v # NoId /\ vss[v].st \notin {"hidden", "pending"}
                /\ vss[v].st # "absent" => vss[v].vip = status'[s] /\ vss[v].port = p]_vars

(* The worker asks CMP to delete a listener only if the Service of the pass  *)
(* created it, on a shared or a supplied LBService too.                      *)
ListenerIsolation ==
    [][\A v \in VsIds : vss'[v].st = "deleting" /\ vss[v].st # "deleting" => vss[v].by = w.svc]_vars

(* Every listener id a Service has recorded, and every one the worker holds  *)
(* for it, is gone, or was created by that Service for the port it is        *)
(* recorded under and has been seen at CMP: adoption by name, the copied     *)
(* vip-group parents and patches from stale copies never bring in a          *)
(* sibling's listener, another port's, or one nobody has looked at.          *)
OwnListeners(table, s, g) ==
    \A p \in Ports : LET v == g.vs[p].id IN
        v # NoId => \/ table[v].st = "absent"
                    \/ table[v].st # "hidden" /\ table[v].by = s /\ table[v].port = p
WorkOwned(table, work) ==
    OwnListeners(table, work.svc, work.graph) /\ OwnListeners(table, work.svc, work.base.graph)
RecordedOwned ==
    /\ \A s \in Services : /\ OwnListeners(vss, s, ann[s].graph)
                          /\ OwnListeners(vss, s, seen[s].ann.graph)
    /\ WorkOwned(vss, w)

(* A working LBService is never deleted while a sibling of the vip-group     *)
(* that still holds the finalizer has it recorded as its own parent.         *)
SharedParentKept ==
    [][\A l \in LbIds : lbs[l].st = "ready" /\ lbs'[l].st = "deleting" =>
          \A t \in Services \ {w.svc} : obj[t].fin => ann[t].lb # l]_vars

(* The finalizer goes only when CMP has confirmed that every listener the    *)
(* Service has recorded is gone, and a managed LBService no other Service    *)
(* uses with them.                                                           *)
CleanBeforeRelease ==
    [][\A s \in Services : obj[s].fin /\ ~obj'[s].fin =>
          /\ \A p \in Ports : LET v == ann[s].graph.vs[p].id IN v # NoId => vss[v].st = "absent"
          /\ ann[s].lb # NoId /\ ann[s].lbMode = "managed" =>
                \/ lbs[ann[s].lb].st = "absent"
                \/ \E t \in Services \ {s} : obj[t].fin /\ ann[t].lb = ann[s].lb]_vars

(* Deletion of a Service is eventually carried out.                          *)
DeletedServiceGone == \A s \in Services : obj[s].del ~> ~obj[s].there

(* Once users, CMP and the network stop interfering, a managed Service ends  *)
(* up served and stays so: a VIP in its status, the listeners of its spec    *)
(* ready on it with the configuration and backends of now, and no listener   *)
(* recorded for a port it no longer has.                                     *)
Served(s) ==
    /\ status[s] # NoId /\ vips[status[s]].st = "active"
    /\ \A p \in obj[s].ports : LET v == ann[s].graph.vs[p].id IN
          v # NoId /\ vss[v].st = "ready" /\ vss[v].vip = status[s] /\ vss[v].hash = obj[s].hash
    /\ \A p \in Ports \ obj[s].ports : ann[s].graph.vs[p].id = NoId
Converges ==
    \A s \in Services : <>[](obj[s].there /\ Managed(obj[s]) /\ ~ProvidedVIPAlone(ann[s]) => Served(s))

-----------------------------------------------------------------------------
(* What the repository says and the code does not do.                        *)

(* PRODUCTION-READINESS.md C-3: a change of backends costs each listener one *)
(* delete-create gap of seconds, after which it is ready again and stays so. *)
Settles ==
    \A s \in Services :
        <>[](obj[s].there /\ Managed(obj[s]) /\ ~ProvidedVIPAlone(ann[s]) =>
                \A p \in obj[s].ports : LET v == ann[s].graph.vs[p].id IN
                    v # NoId /\ vss[v].st = "ready")
=============================================================================

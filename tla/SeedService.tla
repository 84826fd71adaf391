---------------------------- MODULE SeedService ----------------------------
(* seed-service-lb-controller: the reconciler of the Seed's own Services of  *)
(* type LoadBalancer (cmd/seed-service-lb-controller/main.go).  It drives    *)
(* the same stack deployer as svc-lb-bridge, so the deployer's actions are   *)
(* those of ServiceBridge; this module has the controller's own and leaves   *)
(* out what the bridge alone asks for: it passes no checkpoint hook, so that *)
(* nothing is recorded before a pass has succeeded as a whole, no strict     *)
(* policies, no repair counter, and no shared parents.                       *)
(*                                                                           *)
(* Reading `eligible` here: the type is LoadBalancer, the class is ours, the *)
(* Seed has a node and a stack can be built; without one of them a Service   *)
(* that is not being deleted is left as it is.  Only the first port of the   *)
(* spec is served, so `ports` holds that one.  The virtual-server-id         *)
(* annotation is written by the patch that writes the graph, and names the   *)
(* graph's one listener (VirtualServerID); as legacy/virtual-server it comes *)
(* apart from it only when CMP no longer lists the old one, whose DELETE     *)
(* then finds nothing.  lbMode, vipMode, repairID and repairs stay empty,    *)
(* and nobody reads the ownership in the graph.                              *)
EXTENDS ServiceBridge

SeedInit == Init /\ \A s \in Services : \E p \in Ports : obj[s].ports = {p}

(* Reconcile: the deletion branch comes first. *)
SeedIgnore(s) ==
    /\ Dequeue(s)
    /\ LET o == View(s).obj IN
       \/ ~o.there
       \/ o.there /\ o.del /\ ~o.fin
       \/ o.there /\ ~o.del /\ ~o.eligible
    /\ UNCHANGED <<obj, ann, status, seen, pc, w, faults, lbs, vips, vss>>

SeedBeginEnsure(s) ==
    /\ Dequeue(s)
    /\ View(s).obj.there /\ Managed(View(s).obj)
    /\ pc' = IF View(s).obj.fin THEN "load" ELSE "finalizer"
    /\ w' = [IdleWork EXCEPT !.svc = s, !.base = View(s).ann, !.ports = View(s).obj.ports,
                             !.hash = View(s).obj.hash]
    /\ UNCHANGED <<obj, ann, status, seen, faults, lbs, vips, vss>>

(* ensureCMPResources: the annotations are the observed state. *)
SeedLoad ==
    /\ pc = "load"
    /\ Continue(IF w.base.lb = NoId THEN "lb-find" ELSE "lb-get",
                [w EXCEPT !.lb = w.base.lb, !.vip = w.base.vip,
                          !.graph = EnsureGraph(w.base.graph, w.base.lb, w.base.vip)])
    /\ UNCHANGED <<lbs, vips, vss>>

(* EnsureStack without a hook: an LBService that is not ready ends the pass. *)
(* Mutant of WithoutCheckpoint: no listener is looked for by its name. *)
WithoutRecovery ==
    /\ pc = "checkpoint"
    /\ IF w.outcome = "ok" THEN Continue("vip", [w EXCEPT !.graph = WithLB(w.graph)])
                           ELSE Return(TRUE)
    /\ UNCHANGED <<lbs, vips, vss>>
WithoutCheckpoint ==
    /\ pc = "checkpoint"
    /\ IF w.outcome = "ok" THEN Continue("recover", [w EXCEPT !.graph = WithLB(w.graph)])
                           ELSE Return(TRUE)
    /\ UNCHANGED <<lbs, vips, vss>>

-----------------------------------------------------------------------------
(* VirtualServerManager.Ensure for the one listener, whose id is taken from  *)
(* the virtual-server-id annotation if the graph has none under its name.    *)
ScalarID(g) == IF CleanupListeners(g) = {} THEN NoId ELSE CHOOSE v \in CleanupListeners(g) : TRUE
VirtualServerID == ScalarID(w.base.graph)
CurrentID(p) == IF w.graph.vs[p].id # NoId THEN w.graph.vs[p].id ELSE VirtualServerID
SeedRecorded(p) == IF CurrentID(p) \in ListenersOn(w.lb) THEN CurrentID(p) ELSE NoId
(* Mutant of SeedListener: a listener is never recovered by its name. *)
SeedRecordedOnly(p) == SeedRecorded(p)
SeedListener(p) ==
    IF SeedRecorded(p) # NoId \/ ListenersNamed(w.svc, p) = {} THEN SeedRecorded(p)
    ELSE CHOOSE v \in ListenersNamed(w.svc, p) : TRUE

(* Mutant of SeedKeeps: a listener adopted by name is never kept. *)
SeedKeepsRecorded(p) == w.graph.vs[p].hash = w.hash
SeedKeeps(p) ==
    LET h == w.graph.vs[p].hash IN h = w.hash \/ (h = NoDigest /\ SeedRecorded(p) = NoId)
SeedAmbiguous(p) == SeedRecorded(p) = NoId /\ Ambiguous(p)

(* Another listener's frontend, two listeners of our name, or one with       *)
(* another VIP or port: an error, which the next pass meets again.           *)
SeedListenerRefused(p) ==
    LET v == SeedListener(p) IN
    \/ FrontendTaken(p, CurrentID(p))
    \/ SeedAmbiguous(p)
    \/ v # NoId /\ (vss[v].vip # w.vip \/ vss[v].port # p)
SeedEnsureListener(p) ==
    /\ pc = "listener" /\ LBVisible(w.lb) /\ p \in w.todo
    /\ LET v == SeedListener(p) IN
       \/ SeedListenerRefused(p) /\ Return(TRUE)
       \/ ~SeedListenerRefused(p) /\ v = NoId /\ Continue("vs-create", w)
       \/ /\ ~SeedListenerRefused(p) /\ v # NoId
          /\ \/ vss[v].st \in {"pending", "deleting"} /\ Return(TRUE)
             \/ /\ (vss[v].st = "failed") \/ (vss[v].st = "ready" /\ ~SeedKeeps(p))
                /\ Continue("vs-delete", [w EXCEPT !.vs = v])
             \/ vss[v].st = "ready" /\ SeedKeeps(p) /\ Continue("listener", DoneWith(p, v))
    /\ UNCHANGED <<lbs, vips, vss>>

-----------------------------------------------------------------------------
(* The pass succeeded: one patch records every id and the graph, then the    *)
(* VIP is shown; without an address the pass just ends.                      *)
SeedResultOf(a) ==
    [a EXCEPT !.lb = w.lb, !.vip = w.vip, !.graph = DropMigratedLegacyAliases(w.graph)]
SeedPersist ==
    /\ pc = "listener" /\ w.todo = {} /\ Obsolete = {}
    /\ PatchAnnotations(SeedResultOf(w.base))
    /\ pc' = IF w.addressed THEN "publish" ELSE "idle"
    /\ w' = IF w.addressed THEN [w EXCEPT !.base = ann'[w.svc]] ELSE IdleWork
    /\ queue' = Enqueued({w.svc}, ann'[w.svc] # ann[w.svc])

(* cleanupCMPResources: everything recorded goes, the LBService with it.     *)
(* Mutant of SeedDeleting: type and class are looked at first. *)
SeedDeletingOurs(o) == o.there /\ o.del /\ o.fin /\ o.eligible
SeedDeleting(o) == o.there /\ o.del /\ o.fin
SeedBeginCleanup(s) ==
    /\ Dequeue(s) /\ SeedDeleting(View(s).obj)
    /\ LET a == View(s).ann
           g == EnsureGraph(a.graph, a.lb, a.vip) IN
       /\ pc' = IF CleanupLBs(a.lb, g) = {} THEN "unfinalize" ELSE "clean-vs"
       /\ w' = [IdleWork EXCEPT
                    !.svc = s, !.base = a, !.graph = g, !.deleteVIP = TRUE, !.deleteLB = TRUE,
                    !.lb = IF CleanupLBs(a.lb, g) = {} THEN NoId
                           ELSE CHOOSE l \in CleanupLBs(a.lb, g) : TRUE]
    /\ UNCHANGED <<obj, ann, status, seen, faults, lbs, vips, vss>>

-----------------------------------------------------------------------------
SeedChangePort(s) ==
    /\ Disturb("port-change")
    /\ \E p \in Ports \ obj[s].ports : UserChange(s, [obj[s] EXCEPT !.ports = {p}])
    /\ UNCHANGED <<ann, status>>

SeedStartPass(s) == SeedIgnore(s) \/ SeedBeginEnsure(s) \/ SeedBeginCleanup(s)
SeedEnsure ==
    \/ EnsureFinalizer \/ SeedLoad
    \/ GetRecordedLB \/ DeleteFailedLB \/ FindLBByName \/ CreateLB \/ CheckCreatedLB
    \/ WithoutCheckpoint
    \/ RecoverByName \/ EnsureVIP \/ DeleteFailedVIP \/ CreateVIP
    \/ (\E p \in Ports : SeedEnsureListener(p))
    \/ DeleteListener \/ CreateListener \/ CheckCreatedListener
    \/ DeleteObsoleteListener \/ SeedPersist \/ PublishVIP
SeedWorker == (\E s \in Services : SeedStartPass(s)) \/ SeedEnsure \/ Cleanup \/ CallRefused
SeedDisturbance ==
    \/ FailedCall
    \/ \E l \in LbIds : LBFails(l) \/ LBLost(l)
    \/ \E v \in VipIds : VIPFails(v) \/ VIPLost(v)
    \/ \E v \in VsIds : VSFails(v) \/ VSLost(v)
    \/ \E s \in Services : ChangeType(s) \/ SeedChangePort(s) \/ ChangeBackends(s)
    \/ \E s \in Services : DeleteService(s)
SeedNext ==
    SeedWorker \/ Provider \/ SeedDisturbance \/ (\E s \in Services : InformerSync(s) \/ Resync(s))
SeedSpec == SeedInit /\ [][SeedNext]_vars

(* As for ServiceBridge. *)
SeedFairness ==
    /\ WF_vars(SeedEnsure \/ Cleanup \/ CallRefused)
    /\ \A s \in Services : SF_vars(SeedStartPass(s))
    /\ \A s \in Services : WF_vars(InformerSync(s)) /\ WF_vars(Resync(s))
    /\ \A l \in LbIds : WF_vars(LBSettles(l) \/ LBDeleted(l))
    /\ \A v \in VipIds : WF_vars(VIPSettles(v))
    /\ \A v \in VsIds : WF_vars(VSSettles(v) \/ VSDeleted(v))
SeedFairSpec == SeedSpec /\ SeedFairness
-----------------------------------------------------------------------------
(* What the controller promises.                                             *)

(* Nothing is recorded before the end, yet no pass starts from nothing: the  *)
(* LBService, the listener and through the listener the VIP are found again. *)
(* Only a pass that is disturbed can leave a VIP behind, and one at most.    *)
OneVIPPerDisturbance ==
    \A s \in Services : Cardinality({v \in VipIds : vips[v].by = s}) <= 1 + faults

(* What is recorded when the finalizer goes is gone from CMP: the LBService, *)
(* which takes its VIPs along, and the listener.                             *)
RecordedGoneBeforeRelease ==
    [][\A s \in Services : obj[s].fin /\ ~obj'[s].fin =>
          /\ ann[s].lb # NoId => lbs[ann[s].lb].st = "absent"
          /\ \A p \in Ports : LET v == ann[s].graph.vs[p].id IN v # NoId => vss[v].st = "absent"]_vars

(* A Service of ours ends up served and stays so once nobody interferes,     *)
(* unless its port or its backends are no longer those that a listener was   *)
(* made for, or that are recorded: CMP cannot change a listener (Settles).   *)
SameSpec(s) ==
    /\ \A p \in Ports : ann[s].graph.vs[p].hash \in {NoDigest, obj[s].hash}
    /\ \A v \in VsIds : vss[v].by = s => vss[v].hash = obj[s].hash /\ vss[v].port \in obj[s].ports
SeedConverges ==
    \A s \in Services : <>[](obj[s].there /\ Managed(obj[s]) /\ SameSpec(s) => Served(s))

=============================================================================

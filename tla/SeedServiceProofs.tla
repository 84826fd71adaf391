-------------------------- MODULE SeedServiceProofs --------------------------
(* What TLAPS proves of SeedService.  The controller drives the deployer of  *)
(* svc-lb-bridge, so a step of it is a step of ServiceBridge or one of its   *)
(* own few (SeedOnly): the lemmas about ServiceBridge's steps carry over, and *)
(* the controller's own are added here.                                      *)
EXTENDS SeedService, ServiceBridgeCleanupProofs

(* The steps svc-lb-bridge does not have.                                    *)
SeedBegins == \E s \in Services : SeedBeginEnsure(s) \/ SeedBeginCleanup(s)
SeedPassStep ==
    SeedLoad \/ WithoutCheckpoint \/ (\E p \in Ports : SeedEnsureListener(p)) \/ SeedPersist
SeedOnly == (\E s \in Services : SeedIgnore(s)) \/ SeedBegins \/ SeedPassStep

(* Every step is the bridge's or one of those.                               *)
LEMMA SeedSteps ==
    ASSUME [SeedNext]_vars
    PROVE  [Next]_vars \/ SeedOnly
<1>1. ASSUME NEW s \in Services, SeedChangePort(s) PROVE ChangePorts(s)
  BY <1>1 DEF SeedChangePort, ChangePorts
<1>2. CASE SeedWorker
  BY <1>2 DEF SeedWorker, SeedStartPass, SeedEnsure, SeedOnly, SeedBegins, SeedPassStep, Next,
              Worker, Ensure
<1>3. CASE SeedDisturbance
  BY <1>1, <1>3 DEF SeedDisturbance, Next, Disturbance
<1> QED
  BY <1>2, <1>3 DEF SeedNext, Next

-----------------------------------------------------------------------------
(* One port.                                                                 *)

(* A Service is served on the first port of its spec only, so a pass has one *)
(* port, and that is the least of those it has still to do.                  *)
OnePort ==
    /\ \A s \in Services : (\E p \in Ports : obj[s].ports = {p})
                           /\ (\E p \in Ports : seen[s].obj.ports = {p})
    /\ pc \in EnsurePCs => \E p \in Ports : w.ports = {p} /\ w.todo \subseteq {p}

(* A step that only ends the pass or goes on with its ports keeps them.      *)
LEMMA PassKeepsPorts ==
    ASSUME OnePort, pc \in EnsurePCs, UNCHANGED <<obj, seen>>,
           pc' = "idle" \/ (w'.ports = w.ports /\ w'.todo \subseteq w.todo \cup w.ports)
    PROVE  OnePort'
BY DEF OnePort, EnsurePCs

(* Users change the port for another one, and nothing but the port.          *)
LEMMA UserKeepsPorts ==
    ASSUME TypeOK, OnePort, NEW s \in Services,
           ChangeType(s) \/ SeedChangePort(s) \/ ChangeBackends(s) \/ DeleteService(s)
    PROVE  OnePort'
<1>1. obj \in [Services -> Object] /\ obj[s] \in Object
  BY DEF TypeOK
<1>2. UNCHANGED <<seen, pc, w>>
  BY DEF ChangeType, SeedChangePort, ChangeBackends, DeleteService, UserChange
<1>3. \E p \in Ports : obj[s].ports = {p}
  BY DEF OnePort
<1>4. ASSUME NEW o, \E p \in Ports : o.ports = {p}, obj' = [obj EXCEPT ![s] = o]
      PROVE  OnePort'
  BY <1>1, <1>2, <1>4 DEF OnePort
<1>5. \E o : (\E p \in Ports : o.ports = {p}) /\ obj' = [obj EXCEPT ![s] = o]
  <2>1. CASE ChangeType(s)
    <3>1. [obj[s] EXCEPT !.eligible = ~@].ports = obj[s].ports
      BY <1>1 DEF Object
    <3> QED
      BY <1>3, <2>1, <3>1 DEF ChangeType, UserChange
  <2>2. CASE SeedChangePort(s)
    <3>1. \A p : [obj[s] EXCEPT !.ports = {p}].ports = {p}
      BY <1>1 DEF Object
    <3> QED
      BY <2>2, <3>1 DEF SeedChangePort, UserChange
  <2>3. CASE ChangeBackends(s)
    <3>1. \A h : [obj[s] EXCEPT !.hash = h].ports = obj[s].ports
      BY <1>1 DEF Object
    <3> QED
      BY <1>3, <2>3, <3>1 DEF ChangeBackends, UserChange
  <2>4. CASE DeleteService(s)
    <3>1. [obj[s] EXCEPT !.del = TRUE, !.there = obj[s].fin].ports = obj[s].ports
      BY <1>1 DEF Object
    <3> QED
      BY <1>3, <2>4, <3>1 DEF DeleteService, UserChange
  <2> QED
    BY <2>1, <2>2, <2>3, <2>4
<1> QED
  BY <1>4, <1>5

(* The steps of a pass.                                                      *)
LEMMA PassStepKeepsPorts ==
    ASSUME TypeOK, OnePort,
           \/ SeedPassStep \/ GetRecordedLB \/ DeleteFailedLB \/ FindLBByName \/ CreateLB
           \/ CheckCreatedLB \/ VIPStep \/ DeleteListener \/ CreateListener
           \/ CheckCreatedListener \/ DeleteObsoleteListener \/ PublishVIP
    PROVE  OnePort'
<1>1. w \in Work
  BY DEF TypeOK
<1>2. ASSUME NEW next, NEW work, pc \in EnsurePCs, Continue(next, work), work.ports = w.ports,
             work.todo \subseteq w.todo \cup w.ports
      PROVE  OnePort'
  BY <1>2, PassKeepsPorts DEF Continue
<1>3. ASSUME NEW again, pc \in EnsurePCs, Return(again) PROVE OnePort'
  BY <1>3, PassKeepsPorts DEF Return
<1>4. CASE SeedPassStep
  <2>1. CASE SeedLoad
    <3>1. \A l, v, g : LET work == [w EXCEPT !.lb = l, !.vip = v, !.graph = g] IN
                          work.ports = w.ports /\ work.todo = w.todo
      BY <1>1 DEF Work
    <3>2. pc \in EnsurePCs
      BY <2>1 DEF SeedLoad, EnsurePCs
    <3> DEFINE next == IF w.base.lb = NoId THEN "lb-find" ELSE "lb-get"
               work == [w EXCEPT !.lb = w.base.lb, !.vip = w.base.vip,
                                 !.graph = EnsureGraph(w.base.graph, w.base.lb, w.base.vip)]
    <3>3. Continue(next, work) /\ work.ports = w.ports /\ work.todo = w.todo
      BY <2>1, <3>1 DEF SeedLoad
    <3> HIDE DEF next, work
    <3> QED
      BY <1>2, <3>2, <3>3
  <2>2. CASE WithoutCheckpoint
    <3>1. \A g : [w EXCEPT !.graph = g].ports = w.ports /\ [w EXCEPT !.graph = g].todo = w.todo
      BY <1>1 DEF Work
    <3>2. pc \in EnsurePCs
      BY <2>2 DEF WithoutCheckpoint, EnsurePCs
    <3> QED
      BY <1>2, <1>3, <2>2, <3>1, <3>2 DEF WithoutCheckpoint
  <2>3. ASSUME NEW p \in Ports, SeedEnsureListener(p) PROVE OnePort'
    <3>1. \A v : [w EXCEPT !.vs = v].ports = w.ports /\ [w EXCEPT !.vs = v].todo = w.todo
      BY <1>1 DEF Work
    <3>2. \A v : DoneWith(p, v).ports = w.ports /\ DoneWith(p, v).todo = w.todo \ {p}
      BY <1>1 DEF DoneWith, Work
    <3>3. pc \in EnsurePCs
      BY <2>3 DEF SeedEnsureListener, EnsurePCs
    <3> QED
      BY <1>2, <1>3, <2>3, <3>1, <3>2, <3>3, Zenon DEF SeedEnsureListener
  <2>4. CASE SeedPersist
    <3>1. [w EXCEPT !.base = ann'[w.svc]].ports = w.ports
          /\ [w EXCEPT !.base = ann'[w.svc]].todo = w.todo
      BY <1>1 DEF Work
    <3> QED
      BY <2>4, <3>1, PassKeepsPorts DEF SeedPersist, PatchAnnotations, EnsurePCs
  <2> QED
    BY <1>4, <2>1, <2>2, <2>3, <2>4 DEF SeedPassStep
<1>5. CASE GetRecordedLB \/ DeleteFailedLB \/ FindLBByName \/ CreateLB \/ CheckCreatedLB
  <2>1. \A l : [w EXCEPT !.lb = l].ports = w.ports /\ [w EXCEPT !.lb = l].todo = w.todo
    BY <1>1 DEF Work
  <2>2. \A o : [w EXCEPT !.outcome = o].ports = w.ports /\ [w EXCEPT !.outcome = o].todo = w.todo
    BY <1>1 DEF Work
  <2>3. pc \in EnsurePCs
    BY <1>5 DEF GetRecordedLB, DeleteFailedLB, FindLBByName, CreateLB, CheckCreatedLB, EnsurePCs
  <2> QED
    BY <1>2, <1>3, <1>5, <2>1, <2>2, <2>3
    DEF GetRecordedLB, DeleteFailedLB, FindLBByName, CreateLB, CheckCreatedLB
<1>6. CASE VIPStep
  <2>1. ASSUME NEW v, NEW addressed, pc \in EnsurePCs, UseVIP(v, addressed) PROVE OnePort'
    <3>1. \A g : LET work == [w EXCEPT !.vip = v, !.addressed = addressed, !.todo = w.ports,
                                       !.graph = g] IN
                 work.ports = w.ports /\ work.todo = w.ports
      BY <1>1 DEF Work
    <3> QED
      BY <1>2, <2>1, <3>1 DEF UseVIP
  <2>2. \A v, g : LET work == [w EXCEPT !.vip = v, !.graph = g] IN
                     work.ports = w.ports /\ work.todo = w.todo
    BY <1>1 DEF Work
  <2>3. pc \in EnsurePCs
    BY <1>6 DEF VIPStep, RecoverByName, EnsureVIP, DeleteFailedVIP, CreateVIP, EnsurePCs
  <2> QED
    BY <1>2, <1>3, <1>6, <2>1, <2>2, <2>3
    DEF VIPStep, RecoverByName, EnsureVIP, DeleteFailedVIP, CreateVIP
<1>7. CASE DeleteListener \/ CreateListener \/ CheckCreatedListener \/ DeleteObsoleteListener
  <2>1. \A v : [w EXCEPT !.vs = v].ports = w.ports /\ [w EXCEPT !.vs = v].todo = w.todo
    BY <1>1 DEF Work
  <2>2. \A p, v : DoneWith(p, v).ports = w.ports /\ DoneWith(p, v).todo = w.todo \ {p}
    BY <1>1 DEF DoneWith, Work
  <2>3. \A p : LET work == [w EXCEPT !.graph.vs[p] = NoListener] IN
                  work.ports = w.ports /\ work.todo = w.todo
    BY <1>1 DEF Work
  <2>4. pc \in EnsurePCs
    BY <1>7
    DEF DeleteListener, CreateListener, CheckCreatedListener, DeleteObsoleteListener, EnsurePCs
  <2>5. CASE DeleteListener \/ CreateListener
    BY <1>2, <1>3, <2>1, <2>4, <2>5 DEF DeleteListener, CreateListener
  <2>6. CASE CheckCreatedListener
    BY <1>2, <1>3, <2>2, <2>4, <2>6 DEF CheckCreatedListener
  <2>7. CASE DeleteObsoleteListener
    BY <1>2, <2>3, <2>4, <2>7 DEF DeleteObsoleteListener
  <2> QED
    BY <1>7, <2>5, <2>6, <2>7
<1>8. CASE PublishVIP
  BY <1>8, PassKeepsPorts DEF PublishVIP, EnsurePCs
<1> QED
  BY <1>4, <1>5, <1>6, <1>7, <1>8

(* Every step keeps it at one port.                                          *)
LEMMA SeedKeepsPorts == TypeOK /\ OnePort /\ [SeedNext]_vars => OnePort'
<1> SUFFICES ASSUME TypeOK, OnePort, [SeedNext]_vars PROVE OnePort'
  OBVIOUS
<1>1. obj \in [Services -> Object] /\ w \in Work
      /\ seen \in [Services -> [obj : Object, ann : Annotations]]
  BY DEF TypeOK
<1>2. ASSUME UNCHANGED <<obj, seen>>, UNCHANGED <<pc, w>> \/ pc' \notin EnsurePCs PROVE OnePort'
  BY <1>2 DEF OnePort
<1>3. CASE UNCHANGED vars
  BY <1>2, <1>3 DEF vars
<1>4. CASE \E s \in Services : SeedIgnore(s) \/ SeedBeginCleanup(s)
  BY <1>2, <1>4 DEF SeedIgnore, SeedBeginCleanup, EnsurePCs
<1>5. ASSUME NEW s \in Services, SeedBeginEnsure(s) PROVE OnePort'
  <2>1. w'.ports = View(s).obj.ports /\ w'.todo = {} /\ UNCHANGED <<obj, seen>>
    BY <1>5 DEF SeedBeginEnsure, IdleWork
  <2>2. \E p \in Ports : View(s).obj.ports = {p}
    BY DEF View, OnePort
  <2> QED
    BY <2>1, <2>2 DEF OnePort
<1>6. CASE EnsureFinalizer
  <2>1. /\ w'.ports = w.ports /\ w'.todo = w.todo /\ pc \in EnsurePCs /\ seen' = seen
        /\ w.svc \in Services
    BY <1>1, <1>6 DEF EnsureFinalizer, Work, EnsurePCs, TypeOK
  <2>2. [obj[w.svc] EXCEPT !.fin = TRUE].ports = obj[w.svc].ports
    BY <1>1, <2>1 DEF Object
  <2>3. \A s \in Services : obj'[s].ports = obj[s].ports
    <3>1. obj' = [obj EXCEPT ![w.svc] = [obj[w.svc] EXCEPT !.fin = TRUE]]
      BY <1>6 DEF EnsureFinalizer
    <3> QED
      BY <1>1, <2>1, <2>2, <3>1
  <2> QED
    BY <2>1, <2>3 DEF OnePort
<1>7. CASE RemoveFinalizer
  <2>1. w.svc \in Services /\ seen' = seen /\ pc' = "idle"
    BY <1>7 DEF RemoveFinalizer, TypeOK
  <2>2. \A b : [obj[w.svc] EXCEPT !.fin = FALSE, !.there = b].ports = obj[w.svc].ports
    BY <1>1, <2>1 DEF Object
  <2>3. obj' = [obj EXCEPT ![w.svc] = [obj[w.svc] EXCEPT !.fin = FALSE, !.there = ~obj[w.svc].del]]
    BY <1>7 DEF RemoveFinalizer
  <2>4. \A s \in Services : obj'[s].ports = obj[s].ports
    BY <1>1, <2>1, <2>2, <2>3
  <2> QED
    BY <2>1, <2>4 DEF OnePort, EnsurePCs
<1>8. CASE Cleanup /\ ~RemoveFinalizer
  BY <1>2, <1>8, ReturnIdles
  DEF Cleanup, RefuseAmbiguousCleanup, CleanListener, ConfirmListenerGone, CleanVIP, AfterVIPs,
      CleanLB, ConfirmLBGone, Continue, Return, EnsurePCs
<1>9. CASE CallRefused \/ FailedCall
  BY <1>2, <1>9 DEF CallRefused, FailedCall, Return, EnsurePCs
<1>10. CASE ProviderStep \/ \E s \in Services : Resync(s)
  BY <1>2, <1>10 DEF ProviderStep, UnchangedBridge, Resync
<1>11. ASSUME NEW s \in Services, InformerSync(s) PROVE OnePort'
  <2>1. seen'[s].obj = obj[s] /\ \A t \in Services : t # s => seen'[t] = seen[t]
    BY <1>1, <1>11 DEF InformerSync
  <2> QED
    BY <1>11, <2>1 DEF InformerSync, OnePort
<1>12. CASE SeedNext
  <2>1. CASE SeedWorker
    BY <1>4, <1>5, <1>6, <1>7, <1>8, <1>9, <2>1, PassStepKeepsPorts
    DEF SeedWorker, SeedStartPass, SeedEnsure, SeedPassStep, VIPStep
  <2>2. CASE Provider \/ SeedDisturbance
    <3>1. ASSUME NEW l \in LbIds, LBSettles(l) \/ LBDeleted(l) \/ LBFails(l) \/ LBLost(l)
          PROVE  UnchangedBridge
      BY <3>1 DEF LBSettles, LBDeleted, LBFails, LBLost
    <3>2. ASSUME NEW v \in VipIds, VIPSettles(v) \/ VIPFails(v) \/ VIPLost(v)
          PROVE  UnchangedBridge
      BY <3>2 DEF VIPSettles, VIPFails, VIPLost
    <3>3. ASSUME NEW v \in VsIds, VSSettles(v) \/ VSDeleted(v) \/ VSFails(v) \/ VSLost(v)
          PROVE  UnchangedBridge
      BY <3>3 DEF VSSettles, VSDeleted, VSFails, VSLost
    <3> QED
      BY <1>9, <1>10, <2>2, <3>1, <3>2, <3>3, UserKeepsPorts
      DEF Provider, SeedDisturbance, ProviderStep
  <2> QED
    BY <1>10, <1>11, <1>12, <2>1, <2>2 DEF SeedNext
<1> QED
  BY <1>3, <1>12

-----------------------------------------------------------------------------
(* Types.                                                                    *)

(* The listener the pass works with is an id or none.                        *)
LEMMA SeedListenerType ==
    ASSUME TypeOK, NEW p \in Ports
    PROVE  SeedListener(p) \in VsIds \cup {NoId} /\ VirtualServerID \in VsIds \cup {NoId}
<1>1. w.base.graph \in Graph /\ w.graph \in Graph
  BY DEF TypeOK, Work, Annotations
<1>2. CleanupListeners(w.base.graph) \subseteq VsIds
  BY <1>1 DEF CleanupListeners, Graph, Listener
<1>3. VirtualServerID \in VsIds \cup {NoId}
  BY <1>2 DEF VirtualServerID, ScalarID
<1>4. SeedRecorded(p) \in VsIds \cup {NoId}
  BY DEF SeedRecorded, ListenersOn
<1> QED
  BY <1>3, <1>4 DEF SeedListener, ListenersNamed, ListenersOn

(* What is recorded at the end of a pass.                                    *)
LEMMA SeedResultType ==
    ASSUME TypeOK
    PROVE  /\ SeedResultOf(w.base) \in Annotations
           /\ SeedResultOf(w.base).graph = DropMigratedLegacyAliases(w.graph)
           /\ SeedResultOf(w.base).lb = w.lb /\ SeedResultOf(w.base).vip = w.vip
<1>1. w.base \in Annotations /\ w.graph \in Graph /\ w.lb \in LbIds \cup {NoId}
      /\ w.vip \in VipIds \cup {NoId}
  BY DEF TypeOK, Work
<1>2. DropMigratedLegacyAliases(w.graph) \in Graph
  BY <1>1, DropAliasesType
<1>3. ASSUME NEW g \in Graph
      PROVE  LET a == [w.base EXCEPT !.lb = w.lb, !.vip = w.vip, !.graph = g] IN
             a \in Annotations /\ a.graph = g /\ a.lb = w.lb /\ a.vip = w.vip
  BY <1>1 DEF Annotations
<1> QED
  BY <1>2, <1>3 DEF SeedResultOf

(* The controller's own steps keep the types.                                *)
LEMMA SeedOnlyType ==
    ASSUME TypeOK, SeedOnly
    PROVE  TypeOK'
<1> SUFFICES BridgeTypeOK'
  BY TypeParts, CMPUnchanged
  DEF SeedOnly, SeedIgnore, SeedBegins, SeedBeginEnsure, SeedBeginCleanup, SeedPassStep, SeedLoad,
      WithoutCheckpoint, SeedEnsureListener, SeedPersist, PatchAnnotations
<1>1. w \in Work /\ w.base \in Annotations /\ w.graph \in Graph
  BY DEF TypeOK, Work
<1>2. ASSUME NEW s \in Services, SeedIgnore(s) PROVE BridgeTypeOK'
  BY <1>2 DEF SeedIgnore, Dequeue, TypeOK, BridgeTypeOK
<1>3. ASSUME NEW s \in Services, SeedBeginEnsure(s) PROVE BridgeTypeOK'
  <2>1. w' \in Work /\ w'.svc = s
    BY <1>3, ViewType, NullTypes DEF SeedBeginEnsure, Work, Object, IdleWork
  <2> QED
    BY <1>3, <2>1 DEF SeedBeginEnsure, Dequeue, TypeOK, BridgeTypeOK, EnsurePCs
<1>4. ASSUME NEW s \in Services, SeedBeginCleanup(s) PROVE BridgeTypeOK'
  <2> DEFINE a == View(s).ann
             g == EnsureGraph(a.graph, a.lb, a.vip)
             l == IF CleanupLBs(a.lb, g) = {} THEN NoId
                  ELSE CHOOSE x \in CleanupLBs(a.lb, g) : TRUE
  <2>1. a \in Annotations /\ g \in Graph
    BY ViewType, EnsureGraphType DEF Annotations
  <2>2. CleanupLBs(a.lb, g) \subseteq LbIds
    BY <2>1 DEF CleanupLBs, Annotations, Graph
  <2>3. w' = [IdleWork EXCEPT !.svc = s, !.base = a, !.graph = g, !.lb = l,
                              !.deleteVIP = TRUE, !.deleteLB = TRUE]
    <3>1. w' = [IdleWork EXCEPT !.svc = s, !.base = a, !.graph = g, !.deleteVIP = TRUE,
                                !.deleteLB = TRUE, !.lb = l]
      BY <1>4 DEF SeedBeginCleanup
    <3> HIDE DEF a, g, l
    <3> QED
      BY <3>1 DEF IdleWork
  <2>4. l \in LbIds \cup {NoId}
    BY <2>2
  <2> HIDE DEF a, g, l
  <2>5. w' \in Work /\ w'.svc = s
    <3>1. PICK x \in BOOLEAN, y \in BOOLEAN, z \in LbIds \cup {NoId} : x = TRUE /\ y = TRUE /\ z = l
      BY <2>4
    <3>2. w' = [IdleWork EXCEPT !.svc = s, !.base = a, !.graph = g, !.lb = z,
                                !.deleteVIP = x, !.deleteLB = y]
      BY <2>3, <3>1
    <3>3. [IdleWork EXCEPT !.svc = s, !.base = a, !.graph = g, !.lb = z, !.deleteVIP = x,
                           !.deleteLB = y] \in Work
      BY <2>1, CleanupWorkType
    <3> QED
      BY <3>2, <3>3 DEF IdleWork
  <2> QED
    BY <1>4, <2>5 DEF SeedBeginCleanup, Dequeue, TypeOK, BridgeTypeOK, CleanupPCs
<1>5. CASE SeedLoad
  <2> DEFINE g == EnsureGraph(w.base.graph, w.base.lb, w.base.vip)
             next == IF w.base.lb = NoId THEN "lb-find" ELSE "lb-get"
             work == [w EXCEPT !.lb = w.base.lb, !.vip = w.base.vip, !.graph = g]
  <2>1. g \in Graph /\ w.base.lb \in LbIds \cup {NoId} /\ w.base.vip \in VipIds \cup {NoId}
    BY <1>1, EnsureGraphType DEF Annotations
  <2>2. Continue(next, work) /\ pc # "idle" /\ next \in EnsurePCs
    BY <1>5 DEF SeedLoad, EnsurePCs
  <2> HIDE DEF g, next
  <2>3. work \in Work /\ work.svc = w.svc
    BY <1>1, <2>1 DEF Work
  <2>4. w.svc \in Services
    BY <2>2 DEF TypeOK
  <2> HIDE DEF work
  <2> QED
    BY <2>2, <2>3, <2>4, ContinueType
<1>6. CASE WithoutCheckpoint
  <2>1. WithLB(w.graph) \in Graph /\ w.svc \in Services /\ pc # "idle"
    BY <1>1, <1>6 DEF WithoutCheckpoint, TypeOK, WithLB, Graph, Work
  <2>2. ASSUME NEW g \in Graph
        PROVE  [w EXCEPT !.graph = g] \in Work /\ [w EXCEPT !.graph = g].svc = w.svc
    BY <1>1 DEF Work
  <2> QED
    BY <1>6, <2>1, <2>2, ContinueType, ReturnType DEF WithoutCheckpoint, EnsurePCs
<1>7. ASSUME NEW p \in Ports, SeedEnsureListener(p) PROVE BridgeTypeOK'
  <2>1. pc # "idle" /\ w.svc \in Services
    BY <1>7 DEF SeedEnsureListener, TypeOK
  <2> DEFINE v == SeedListener(p)
  <2>2. v \in VsIds \cup {NoId} /\ [w EXCEPT !.vs = v] \in Work /\ [w EXCEPT !.vs = v].svc = w.svc
    BY <1>1, SeedListenerType DEF Work
  <2>3. CASE Return(TRUE)
    BY <2>1, <2>3, ReturnType
  <2>4. CASE Continue("vs-create", w)
    BY <1>1, <2>1, <2>4, ContinueType DEF EnsurePCs
  <2>5. CASE Continue("vs-delete", [w EXCEPT !.vs = v])
    BY <2>1, <2>2, <2>5, ContinueType DEF EnsurePCs
  <2>6. CASE v # NoId /\ Continue("listener", DoneWith(p, v))
    BY <2>1, <2>2, <2>6, ContinueType, DoneWithType DEF EnsurePCs
  <2> QED
    BY <1>7, <2>3, <2>4, <2>5, <2>6 DEF SeedEnsureListener
<1>8. CASE SeedPersist
  <2>1. pc # "idle" /\ w.svc \in Services /\ SeedResultOf(w.base) \in Annotations
    BY <1>8, SeedResultType DEF SeedPersist, TypeOK
  <2>2. ann' \in [Services -> Annotations] /\ ann'[w.svc] \in Annotations
    BY <1>8, <2>1, PatchedType DEF SeedPersist
  <2>3. w' \in Work /\ (pc' # "idle" => w'.svc \in Services)
    BY <1>1, <1>8, <2>1, <2>2, NullTypes DEF SeedPersist, Work
  <2>4. queue' \in SUBSET Services
    BY <1>8, <2>1, EnqueuedType DEF SeedPersist
  <2> QED
    BY <1>8, <2>2, <2>3, <2>4 DEF SeedPersist, PatchAnnotations, TypeOK, BridgeTypeOK, EnsurePCs
<1> QED
  BY <1>2, <1>3, <1>4, <1>5, <1>6, <1>7, <1>8 DEF SeedOnly, SeedBegins, SeedPassStep

-----------------------------------------------------------------------------
(* Ownership.                                                                *)

(* The listener the pass works with is listed by CMP and the Service's own:  *)
(* also one that only the virtual-server-id annotation names.                *)
LEMMA SeedListenerOwned ==
    ASSUME BridgeInv, NEW p \in Ports, SeedListener(p) # NoId
    PROVE  SeedListener(p) \in VsIds /\ SeedListener(p) \in ListenersOn(w.lb)
           /\ Visible(vss[SeedListener(p)].st) /\ vss[SeedListener(p)].by = w.svc
<1>1. OwnListeners(vss, w.svc, w.graph) /\ OwnListeners(vss, w.svc, w.base.graph)
  BY DEF BridgeInv, RecordedOwned, WorkOwned
<1>2. VirtualServerID # NoId => \E q \in Ports : VirtualServerID = w.base.graph.vs[q].id
  BY DEF VirtualServerID, ScalarID, CleanupListeners
<1>3. CASE SeedRecorded(p) # NoId
  <2>1. SeedListener(p) = CurrentID(p) /\ CurrentID(p) \in ListenersOn(w.lb) /\ CurrentID(p) # NoId
    BY <1>3 DEF SeedListener, SeedRecorded
  <2>2. \E q \in Ports : CurrentID(p) \in {w.graph.vs[q].id, w.base.graph.vs[q].id}
    BY <1>2, <2>1 DEF CurrentID
  <2>3. CurrentID(p) \in VsIds /\ Visible(vss[CurrentID(p)].st)
    BY <2>1 DEF ListenersOn
  <2> QED
    BY <1>1, <2>1, <2>2, <2>3 DEF OwnListeners, Visible
<1>4. CASE SeedRecorded(p) = NoId
  BY <1>4 DEF SeedListener, ListenersNamed, ListenersOn
<1> QED
  BY <1>3, <1>4

(* The controller's own steps keep the ownership of what is recorded.        *)
LEMMA SeedOnlyOwned ==
    ASSUME BridgeInv, OnePort, SeedOnly
    PROVE  PassInv' /\ RecordedOwned'
<1>1. TypeOK /\ RecordedOwned /\ w \in Work /\ w.base \in Annotations /\ w.graph \in Graph
  BY DEF BridgeInv, TypeOK, Work
<1>2. VssKeeps /\ vss' = vss
  BY <1>1, UnchangedKeeps
  DEF SeedOnly, SeedIgnore, SeedBegins, SeedBeginEnsure, SeedBeginCleanup, SeedPassStep, SeedLoad,
      WithoutCheckpoint, SeedEnsureListener, SeedPersist, PatchAnnotations
<1>3. \A s \in Services : View(s).ann \in Annotations /\ OwnListeners(vss, s, View(s).ann.graph)
  BY <1>1, ViewType DEF View, RecordedOwned
<1>4. ASSUME NEW s \in Services, SeedIgnore(s) PROVE PassInv' /\ RecordedOwned'
  BY <1>2, <1>4, OutsideKeeps, UnstoredOwned DEF SeedIgnore
<1>5. ASSUME NEW s \in Services, SeedBeginEnsure(s) PROVE PassInv' /\ RecordedOwned'
  <2>1. w'.svc = s /\ w'.graph = NoGraph /\ w'.base = View(s).ann
    BY <1>5 DEF SeedBeginEnsure, IdleWork
  <2>2. WorkOwned(vss', w')
    BY <1>2, <1>3, <2>1, IdleOwned DEF WorkOwned
  <2> QED
    BY <1>2, <1>5, <2>2, UnstoredOwned DEF SeedBeginEnsure, PassInv
<1>6. ASSUME NEW s \in Services, SeedBeginCleanup(s) PROVE PassInv' /\ RecordedOwned'
  <2> DEFINE a == View(s).ann
             g == EnsureGraph(a.graph, a.lb, a.vip)
  <2>1. w'.svc = s /\ w'.graph = g /\ w'.base = a
    BY <1>6 DEF SeedBeginCleanup, IdleWork
  <2>2. g.vs = a.graph.vs
    BY <1>3, EnsureGraphType DEF Annotations
  <2>3. OwnListeners(vss', s, a.graph)
    BY <1>2, <1>3
  <2>4. WorkOwned(vss', w')
    <3> HIDE DEF a, g
    <3>1. w'.svc = s /\ w'.graph.vs = a.graph.vs /\ w'.base.graph.vs = a.graph.vs
      BY <2>1, <2>2
    <3> QED
      BY <2>3, <3>1, OwnedFromListeners
  <2> QED
    BY <1>2, <1>6, <2>4, UnstoredOwned DEF SeedBeginCleanup, PassInv
<1>7. CASE SeedLoad
  <2> DEFINE g == EnsureGraph(w.base.graph, w.base.lb, w.base.vip)
             work == [w EXCEPT !.lb = w.base.lb, !.vip = w.base.vip, !.graph = g]
  <2>1. g.vs = w.base.graph.vs
    BY <1>1, EnsureGraphType DEF Annotations
  <2>2. w' = work /\ pc' \in {"lb-find", "lb-get"} /\ UNCHANGED <<ann, seen>>
    BY <1>7 DEF SeedLoad, Continue
  <2> HIDE DEF g
  <2>3. work.svc = w.svc /\ work.base = w.base /\ work.graph = g
    BY <1>1 DEF Work
  <2>4. WorkOwned(vss', w')
    <3>1. OwnListeners(vss', w.svc, w.base.graph)
      BY <1>2, StoredKept DEF WorkOwned
    <3>2. w'.svc = w.svc /\ w'.graph.vs = w.base.graph.vs /\ w'.base.graph.vs = w.base.graph.vs
      BY <2>1, <2>2, <2>3
    <3> QED
      BY <3>1, <3>2, OwnedFromListeners
  <2> QED
    BY <1>2, <2>2, <2>4, UnstoredOwned DEF PassInv
<1>8. CASE WithoutCheckpoint
  <2>1. CASE Return(TRUE)
    BY <1>2, <2>1, ReturnKeeps
  <2>2. CASE Continue("recover", [w EXCEPT !.graph = WithLB(w.graph)])
    <3>1. WithLB(w.graph).vs = w.graph.vs
      BY <1>1 DEF WithLB, Graph
    <3>2. \A g : LET work == [w EXCEPT !.graph = g] IN
                   work.svc = w.svc /\ work.base = w.base /\ work.graph = g
      BY <1>1 DEF Work
    <3> DEFINE g == WithLB(w.graph)
               work == [w EXCEPT !.graph = g]
    <3>3. work.svc = w.svc /\ work.base = w.base /\ work.graph.vs = w.graph.vs
      BY <3>1, <3>2
    <3>4. Continue("recover", work)
      BY <2>2
    <3> HIDE DEF work
    <3> QED
      BY <1>2, <3>3, <3>4, ContinueKeeps DEF HandPCs
  <2> QED
    BY <1>8, <2>1, <2>2 DEF WithoutCheckpoint
<1>9. ASSUME NEW p \in Ports, SeedEnsureListener(p) PROVE PassInv' /\ RecordedOwned'
  <2> DEFINE v == SeedListener(p)
  <2>1. CASE Return(TRUE)
    BY <1>2, <2>1, ReturnKeeps
  <2>2. CASE Continue("vs-create", w)
    <3>1. WorkOwned(vss', w')
      BY <1>2, <2>2, StoredKept DEF Continue
    <3>2. p \in w.todo /\ \A q \in w.todo : p <= q
      BY <1>9, IdAssumption DEF SeedEnsureListener, OnePort, EnsurePCs
    <3>3. PassInv'
      BY <2>2, <3>2 DEF Continue, PassInv
    <3> QED
      BY <1>2, <2>2, <3>1, <3>3, UnstoredOwned DEF Continue
  <2>3. CASE v # NoId /\ Continue("vs-delete", [w EXCEPT !.vs = v])
    <3>1. v \in VsIds /\ vss[v].by = w.svc
      BY <2>3, SeedListenerOwned
    <3>2. w'.svc = w.svc /\ w'.base = w.base /\ w'.graph = w.graph /\ w'.vs = v /\ pc' = "vs-delete"
      BY <1>1, <2>3 DEF Continue, Work
    <3>3. WorkOwned(vss', w')
      BY <1>2, <3>2, StoredKept DEF WorkOwned
    <3>4. PassInv'
      BY <1>2, <3>1, <3>2 DEF PassInv
    <3> QED
      BY <1>2, <2>3, <3>3, <3>4, UnstoredOwned DEF Continue
  <2>4. CASE v # NoId /\ ~SeedListenerRefused(p) /\ Continue("listener", DoneWith(p, v))
    <3>1. v \in VsIds /\ Visible(vss[v].st) /\ vss[v].by = w.svc
      BY <2>4, SeedListenerOwned
    <3>2. vss[v].port = p /\ pc # "idle"
      BY <1>9, <2>4 DEF SeedListenerRefused, SeedEnsureListener
    <3> HIDE DEF v
    <3> QED
      BY <1>2, <2>4, <3>1, <3>2, DoneWithOwned DEF Visible
  <2> QED
    BY <1>9, <2>1, <2>2, <2>3, <2>4 DEF SeedEnsureListener
<1>10. CASE SeedPersist
  <2>1. SeedResultOf(w.base) \in Annotations
        /\ SeedResultOf(w.base).graph = DropMigratedLegacyAliases(w.graph)
        /\ DropMigratedLegacyAliases(w.graph).vs = w.graph.vs /\ pc # "idle"
    BY <1>1, <1>10, SeedResultType, DropAliasesType DEF SeedPersist
  <2>2. OwnListeners(vss, w.svc, SeedResultOf(w.base).graph)
    BY <1>1, <2>1, SameListenersOwned DEF RecordedOwned, WorkOwned
  <2>3. \A s \in Services : /\ OwnListeners(vss', s, ann'[s].graph)
                            /\ OwnListeners(vss', s, seen'[s].ann.graph)
    BY <1>10, <2>1, <2>2, PatchOwned DEF SeedPersist
  <2>4. WorkOwned(vss', w')
    <3>1. CASE w' = IdleWork
      BY <3>1, IdleOwned
    <3>2. CASE w' = [w EXCEPT !.base = ann'[w.svc]]
      <4>1. w'.svc = w.svc /\ w'.graph = w.graph /\ w'.base = ann'[w.svc] /\ w.svc \in Services
        BY <1>1, <2>1, <3>2 DEF Work, TypeOK
      <4> QED
        BY <1>1, <1>2, <2>3, <4>1 DEF WorkOwned, RecordedOwned
    <3> QED
      BY <1>10, <3>1, <3>2 DEF SeedPersist
  <2>5. PassInv'
    BY <1>10 DEF SeedPersist, PassInv
  <2> QED
    BY <2>3, <2>4, <2>5 DEF RecordedOwned
<1> QED
  BY <1>4, <1>5, <1>6, <1>7, <1>8, <1>9, <1>10 DEF SeedOnly, SeedBegins, SeedPassStep

(* The types, one port and the ownership together are inductive.             *)
SeedInv == BridgeInv /\ OnePort
LEMMA SeedNextInv == SeedInv /\ [SeedNext]_vars => SeedInv'
BY SeedSteps, SeedKeepsPorts, NextType, NextOwned, SeedOnlyType, SeedOnlyOwned
DEF SeedInv, BridgeInv

(* They hold in every state.                                                 *)
LEMMA SeedInvariant == SeedSpec => []SeedInv
<1>1. SeedInit => SeedInv
  <2> SUFFICES ASSUME SeedInit PROVE OnePort
    BY InitType, InitOwned DEF SeedInit, SeedInv, BridgeInv
  <2>1. \A s \in Services : seen[s].obj = obj[s]
    BY DEF SeedInit, Init
  <2> QED
    BY <2>1 DEF SeedInit, Init, OnePort, EnsurePCs
<1> QED
  BY <1>1, SeedNextInv, PTL DEF SeedSpec

(* Every id the controller holds, and every one it records, is a provider id *)
(* of the right kind, and a pass is about a Service.                         *)
THEOREM SeedTypeCorrect == SeedSpec => []TypeOK
<1>1. SeedInv => TypeOK
  BY DEF SeedInv, BridgeInv
<1> QED
  BY <1>1, SeedInvariant, PTL

(* Every listener a Service has recorded, and every one a pass holds for it, *)
(* is gone, or that Service made it for that port: adoption by name and the  *)
(* virtual-server-id annotation bring in no one else's.                      *)
THEOREM SeedRecordedListenersOwned == SeedSpec => []RecordedOwned
<1>1. SeedInv => RecordedOwned
  BY DEF SeedInv, BridgeInv
<1> QED
  BY <1>1, SeedInvariant, PTL

-----------------------------------------------------------------------------
(* One LBService per Service, one listener per port.                         *)

(* The controller's own steps ask CMP for nothing new: they read.            *)
LEMMA SeedOnlyReads ==
    ASSUME SeedOnly
    PROVE  UNCHANGED <<lbs, vips, vss>> /\ UNCHANGED <<obj>>
BY DEF SeedOnly, SeedIgnore, SeedBegins, SeedBeginEnsure, SeedBeginCleanup, SeedPassStep, SeedLoad,
       WithoutCheckpoint, SeedEnsureListener, SeedPersist, PatchAnnotations, Continue, Return

(* Where they lead: no LBService is created but after a look-up of the       *)
(* bridge's, and a listener only after the controller found none of its name.*)
LEMMA SeedLooksFirst ==
    ASSUME TypeOK, OnePort, SeedOnly
    PROVE  /\ pc' = "lb-create" => UNCHANGED <<pc, w>>
           /\ pc' = "vs-create" =>
                 \/ UNCHANGED <<pc, w>>
                 \/ /\ UNCHANGED w /\ NextPort \in Ports
                    /\ ListenersNamed(w.svc, NextPort) = {}
<1>1. CASE \E s \in Services : SeedIgnore(s)
  BY <1>1 DEF SeedIgnore
<1>2. CASE SeedBegins \/ SeedLoad \/ WithoutCheckpoint \/ SeedPersist
  BY <1>2, ReturnIdles
  DEF SeedBegins, SeedBeginEnsure, SeedBeginCleanup, SeedLoad, WithoutCheckpoint, SeedPersist, Continue
<1>3. ASSUME NEW p \in Ports, SeedEnsureListener(p)
      PROVE  /\ pc' # "lb-create"
             /\ pc' = "vs-create" => /\ UNCHANGED w /\ NextPort \in Ports
                                     /\ ListenersNamed(w.svc, NextPort) = {}
  <2>1. pc' # "lb-create" /\ (pc' = "vs-create" => SeedListener(p) = NoId /\ UNCHANGED w)
    BY <1>3, ReturnIdles DEF SeedEnsureListener, Continue
  <2>2. NextPort = p
    <3>1. p \in w.todo /\ \A q \in w.todo : p <= q
      BY <1>3, IdAssumption DEF SeedEnsureListener, OnePort, EnsurePCs
    <3> QED
      BY <3>1, NextPortIs
  <2>3. SeedListener(p) = NoId => ListenersNamed(w.svc, p) = {}
    <3>1. ListenersNamed(w.svc, p) \subseteq VsIds
      BY DEF ListenersNamed, ListenersOn
    <3> QED
      BY <3>1, IdAssumption DEF SeedListener
  <2> QED
    BY <2>1, <2>2, <2>3
<1> QED
  BY <1>1, <1>2, <1>3 DEF SeedOnly, SeedPassStep

(* So they keep the look-ups true and the resources unique.                  *)
LEMMA SeedOnlyUnique ==
    ASSUME TypeOK, OnePort, UniqueInv, SeedOnly
    PROVE  UniqueInv'
<1>1. UNCHANGED <<lbs, vss>>
  BY SeedOnlyReads
<1>2. pc' = "lb-create" => (LBsNamed(w.svc) = {})'
  BY <1>1, SeedLooksFirst DEF UniqueInv, LookInv, LBsNamed
<1>3. pc' = "vs-create" => (ListenersNamed(w.svc, NextPort) = {})'
  BY <1>1, SeedLooksFirst DEF UniqueInv, LookInv, ListenersNamed, ListenersOn, NextPort
<1> QED
  BY <1>1, <1>2, <1>3 DEF UniqueInv, LookInv, OneLB, OneListener

(* The look-ups and the uniqueness are inductive here, too.                  *)
LEMMA SeedUniqueInvariant == ASSUME "hidden" \notin Born PROVE SeedSpec => []UniqueInv
<1>1. SeedInv /\ UniqueInv /\ [SeedNext]_vars => UniqueInv'
  <2> SUFFICES ASSUME SeedInv, UniqueInv, [SeedNext]_vars PROVE UniqueInv'
    OBVIOUS
  <2>1. TypeOK /\ OnePort
    BY DEF SeedInv, BridgeInv
  <2>2. CASE [Next]_vars
    BY <2>1, <2>2, NextLook, OnlyCreatesAdd, KeptUnique, CreateLBUnique, CreateListenerUnique
    DEF UniqueInv
  <2> QED
    BY <2>1, <2>2, SeedSteps, SeedOnlyUnique
<1>2. SeedInit => UniqueInv
  BY InitUnique DEF SeedInit
<1> QED
  BY <1>1, <1>2, SeedInvariant, PTL DEF SeedSpec

(* The Seed's own controller records nothing before a pass succeeds; still   *)
(* CMP never holds two LBServices of one Service nobody asked to delete,     *)
(* because the next pass finds the first by its name.                        *)
THEOREM SeedNoSecondLBService == ASSUME "hidden" \notin Born PROVE SeedSpec => []OneLBPerService
BY UniqueIsOneLB, SeedUniqueInvariant, PTL

(* Nor two listeners of one Service on one port: a pass that was cut off     *)
(* after the create has recorded nothing, and the next one adopts what it    *)
(* left.                                                                     *)
THEOREM SeedNoSecondListener == ASSUME "hidden" \notin Born PROVE SeedSpec => []OneListenerPerPort
BY UniqueIsOneListener, SeedUniqueInvariant, PTL

-----------------------------------------------------------------------------
(* With fresh reads: the parent of a Service.                                *)

(* A pass looks at the Service as it is, records nothing before its end, and *)
(* then the LBService it found together with the graph that hangs on it.     *)
LEMMA SeedOnlyParent ==
    ASSUME TypeOK, ParentInv, ~StaleReads, SeedOnly
    PROVE  ParentInv'
<1>1. \A s \in Services : View(s).ann = ann[s] /\ View(s).obj = obj[s]
  BY DEF View
<1>2. w \in Work /\ w.graph \in Graph /\ w.base \in Annotations
  BY DEF TypeOK, Work
<1>3. ASSUME NEW s \in Services, SeedIgnore(s) PROVE ParentInv'
  BY <1>3 DEF SeedIgnore, ParentInv, Current, AllRooted, Chosen, FailedOnly, HoldsFinalizer
<1>4. ASSUME NEW s \in Services, SeedBeginEnsure(s) PROVE ParentInv'
  <2>1. w'.svc = s /\ w'.base = ann[s] /\ pc' \in {"load", "finalizer"}
        /\ UNCHANGED <<obj, ann>>
    BY <1>1, <1>4 DEF SeedBeginEnsure, IdleWork
  <2> QED
    BY <2>1
    DEF ParentInv, Current, AllRooted, Chosen, ChosenAt, FailedOnly, HoldsFinalizer, WithLBPCs,
        LoadedPCs, SettledPCs, ServePCs, CleanupPCs
<1>5. ASSUME NEW s \in Services, SeedBeginCleanup(s) PROVE ParentInv'
  <2>1. w'.svc = s /\ w'.base = ann[s] /\ pc' \in {"clean-vs", "unfinalize"}
        /\ UNCHANGED <<obj, ann>> /\ obj[s].fin
    BY <1>1, <1>5 DEF SeedBeginCleanup, SeedDeleting, IdleWork
  <2> QED
    BY <2>1
    DEF ParentInv, Current, AllRooted, Chosen, ChosenAt, FailedOnly, HoldsFinalizer, WithLBPCs,
        LoadedPCs, SettledPCs, ServePCs, EnsurePCs
<1>6. CASE SeedLoad
  <2> DEFINE g == EnsureGraph(w.base.graph, w.base.lb, w.base.vip)
             next == IF w.base.lb = NoId THEN "lb-find" ELSE "lb-get"
             work == [w EXCEPT !.lb = w.base.lb, !.vip = w.base.vip, !.graph = g]
  <2>1. g.has
    BY <1>2 DEF EnsureGraph, Annotations, Graph
  <2>2. work.svc = w.svc /\ work.base = w.base /\ work.lb = w.base.lb /\ work.graph.has
    BY <1>2, <2>1 DEF Work
  <2>3. Continue(next, work) /\ pc # "idle"
    BY <1>6 DEF SeedLoad
  <2> HIDE DEF g, work
  <2>4. ChosenAt(next, work)
    BY <2>2 DEF ChosenAt, WithLBPCs, SettledPCs, ServePCs
  <2>5. next # "lb-delete" /\ next \notin CleanupPCs
    BY DEF CleanupPCs
  <2> QED
    BY <2>2, <2>3, <2>4, <2>5, ContinueParent
<1>7. CASE WithoutCheckpoint
  <2>1. CASE Return(TRUE)
    BY <2>1, ReturnParent
  <2>2. CASE Continue("recover", [w EXCEPT !.graph = WithLB(w.graph)])
    <3> DEFINE g == WithLB(w.graph)
               work == [w EXCEPT !.graph = g]
    <3>1. pc = "checkpoint" /\ w.lb # NoId /\ w.graph.has /\ w.svc \in Services
      BY <1>7
      DEF WithoutCheckpoint, ParentInv, Chosen, ChosenAt, WithLBPCs, LoadedPCs, EnsurePCs, TypeOK
    <3>2. g.has = w.graph.has /\ g.lb[w.svc] = w.lb
      BY <1>2, <3>1 DEF WithLB, Graph
    <3>3. work.svc = w.svc /\ work.base = w.base /\ work.lb = w.lb /\ work.graph = g
      BY <1>2 DEF Work
    <3>4. Continue("recover", work)
      BY <2>2
    <3> HIDE DEF g, work
    <3>5. ChosenAt("recover", work)
      BY <3>1, <3>2, <3>3 DEF ChosenAt
    <3> QED
      BY <3>1, <3>3, <3>4, <3>5, ContinueParent DEF CleanupPCs
  <2> QED
    BY <1>7, <2>1, <2>2 DEF WithoutCheckpoint
<1>8. ASSUME NEW p \in Ports, SeedEnsureListener(p) PROVE ParentInv'
  <2>1. pc \in SettledPCs /\ {"listener", "vs-create", "vs-delete"} \subseteq SettledPCs
    BY <1>8 DEF SeedEnsureListener, SettledPCs, ServePCs
  <2>2. ASSUME NEW next \in SettledPCs, NEW work, Continue(next, work), work.svc = w.svc,
               work.base = w.base, work.lb = w.lb, work.graph.lb = w.graph.lb,
               work.graph.has = w.graph.has
        PROVE  ParentInv'
    BY <2>1, <2>2, ContinueSettled
  <2>3. \A v : LET work == [w EXCEPT !.vs = v] IN
           work.svc = w.svc /\ work.base = w.base /\ work.lb = w.lb /\ work.graph = w.graph
    BY <1>2 DEF Work
  <2>4. \A v : LET work == DoneWith(p, v) IN
           /\ work.svc = w.svc /\ work.base = w.base /\ work.lb = w.lb
           /\ work.graph.lb = w.graph.lb /\ work.graph.has = w.graph.has
    BY <1>2 DEF DoneWith, Work, Graph
  <2>5. CASE Return(TRUE)
    BY <2>5, ReturnParent
  <2>6. CASE Continue("vs-create", w)
    BY <2>1, <2>2, <2>6
  <2>7. ASSUME NEW v, Continue("vs-delete", [w EXCEPT !.vs = v]) PROVE ParentInv'
    BY <2>1, <2>2, <2>3, <2>7
  <2>8. ASSUME NEW v, Continue("listener", DoneWith(p, v)) PROVE ParentInv'
    BY <2>1, <2>2, <2>4, <2>8
  <2> QED
    BY <1>8, <2>5, <2>6, <2>7, <2>8 DEF SeedEnsureListener
<1>9. CASE SeedPersist
  <2> DEFINE g == DropMigratedLegacyAliases(w.graph)
  <2>1. pc = "listener" /\ PatchAnnotations(SeedResultOf(w.base)) /\ w.svc \in Services
    BY <1>9 DEF SeedPersist, TypeOK
  <2>2. w.lb # NoId /\ w.graph.has /\ w.graph.lb[w.svc] = w.lb /\ w.svc # Legacy
    BY <2>1, NameAssumption
    DEF ParentInv, Chosen, ChosenAt, WithLBPCs, LoadedPCs, EnsurePCs, SettledPCs, ServePCs
  <2>3. g.has /\ g.lb[w.svc] = w.lb
    BY <1>2, <2>1, <2>2 DEF DropMigratedLegacyAliases, Graph
  <2>4. SeedResultOf(w.base).lb = w.lb /\ SeedResultOf(w.base).graph = g
    BY <1>2 DEF SeedResultOf, Annotations
  <2>5. AllRooted'
    <3>1. Rooted(w.svc, SeedResultOf(w.base))
      BY <2>2, <2>3, <2>4 DEF Rooted
    <3> QED
      BY <2>1, <3>1, PatchRooted
  <2>6. CASE pc' = "idle"
    BY <2>5, <2>6, IdleParent DEF ParentInv
  <2>7. CASE pc' # "idle"
    <3>1. w' = [w EXCEPT !.base = ann'[w.svc]] /\ pc' = "publish" /\ obj' = obj
      BY <1>9, <2>7 DEF SeedPersist, PatchAnnotations
    <3>2. w'.svc = w.svc /\ w'.base = ann'[w.svc] /\ w'.graph = w.graph /\ w'.lb = w.lb
      BY <1>2, <3>1 DEF Work
    <3> QED
      BY <2>2, <2>5, <3>1, <3>2
      DEF ParentInv, Current, Chosen, ChosenAt, FailedOnly, HoldsFinalizer, CleanupPCs
  <2> QED
    BY <2>6, <2>7
<1> QED
  BY <1>3, <1>4, <1>5, <1>6, <1>7, <1>8, <1>9 DEF SeedOnly, SeedBegins, SeedPassStep

(* So the parents are as described in every state.                           *)
LEMMA SeedParentInvariant == ASSUME ~StaleReads PROVE SeedSpec => []ParentInv
<1>1. TypeOK /\ ParentInv /\ [SeedNext]_vars => ParentInv'
  <2>1. TypeOK /\ ParentInv /\ [Next]_vars => ParentInv'
    BY StepKinds, OutsideParent, FirstParent, LBParent, VIPParent, ListenerParent, LastParent,
       CleanupParent, BrokenParent
  <2> QED
    BY <2>1, SeedSteps, SeedOnlyParent
<1>2. SeedInit => ParentInv
  BY InitParent DEF SeedInit
<1> QED
  BY <1>1, <1>2, SeedTypeCorrect, PTL DEF SeedSpec

-----------------------------------------------------------------------------
(* With fresh reads: a VIP is shown only behind its listener.                *)

(* No checkpoint refreshes the snapshot here, but with fresh reads it is the *)
(* Service as it is from the first step to the patch at the end.             *)
LEMMA SeedOnlyServe ==
    ASSUME BridgeInv, ServeInv, ParentInv, SeedOnly
    PROVE  ServeInv'
<1>1. TypeOK /\ w \in Work /\ w.graph \in Graph /\ ann \in [Services -> Annotations]
  BY DEF BridgeInv, TypeOK, Work
<1>2. FinThere' /\ obj' = obj /\ vss' = vss
  BY SeedOnlyReads DEF ServeInv, FinThere
<1>3. ASSUME pc' \notin SettledPCs PROVE ServeInv'
  BY <1>2, <1>3, Unsettled DEF ServeInv
<1>4. CASE \E s \in Services : SeedIgnore(s)
  BY <1>2, <1>4
  DEF SeedIgnore, ServeInv, DoneServes, BaseIsCurrent, ResultStored, Serves
<1>5. CASE SeedBegins \/ SeedLoad
  BY <1>3, <1>5
  DEF SeedBegins, SeedBeginEnsure, SeedBeginCleanup, SeedLoad, Continue, SettledPCs, ServePCs
<1>6. CASE WithoutCheckpoint
  <2>1. CASE Return(TRUE)
    BY <1>3, <2>1 DEF Return, SettledPCs, ServePCs
  <2>2. CASE Continue("recover", [w EXCEPT !.graph = WithLB(w.graph)])
    <3>1. \A g : LET work == [w EXCEPT !.graph = g] IN work.svc = w.svc /\ work.base = w.base
      BY <1>1 DEF Work
    <3>2. w'.svc = w.svc /\ w'.base = w.base /\ pc' = "recover" /\ ann' = ann /\ pc # "idle"
      BY <1>6, <2>2, <3>1 DEF Continue, WithoutCheckpoint
    <3> QED
      BY <1>2, <3>2
      DEF ParentInv, Current, ServeInv, DoneServes, BaseIsCurrent, ResultStored, ServePCs
  <2> QED
    BY <1>6, <2>1, <2>2 DEF WithoutCheckpoint
<1>7. ASSUME NEW p \in Ports, SeedEnsureListener(p) PROVE ServeInv'
  <2> DEFINE v == SeedListener(p)
  <2>1. pc = "listener" /\ UNCHANGED <<obj, ann, vss>>
    BY <1>2, <1>7 DEF SeedEnsureListener, Continue, Return
  <2>2. CASE Return(TRUE)
    BY <1>3, <2>2 DEF Return, SettledPCs, ServePCs
  <2>3. ASSUME NEW next \in {"vs-create", "vs-delete"}, NEW x,
               Continue(next, w) \/ Continue(next, [w EXCEPT !.vs = x])
        PROVE  ServeInv'
    <3>1. LET work == [w EXCEPT !.vs = x] IN
             /\ work.svc = w.svc /\ work.base = w.base /\ work.vip = w.vip
             /\ work.ports = w.ports /\ work.todo = w.todo /\ work.graph = w.graph
      BY <1>1 DEF Work
    <3>2. /\ pc' = next /\ w'.svc = w.svc /\ w'.base = w.base /\ w'.vip = w.vip
          /\ w'.ports = w.ports /\ w'.todo = w.todo /\ w'.graph = w.graph
      BY <2>3, <3>1 DEF Continue
    <3> QED
      BY <1>2, <2>1, <3>2
      DEF ServeInv, DoneServes, BaseIsCurrent, ResultStored, Serves, SettledPCs, ServePCs
  <2>4. CASE /\ v # NoId /\ vss[v].st = "ready" /\ ~SeedListenerRefused(p)
             /\ Continue("listener", DoneWith(p, v))
    <3>1. v \in VsIds /\ vss[v].vip = w.vip /\ vss[v].port = p
      BY <2>4, SeedListenerOwned DEF SeedListenerRefused
    <3> HIDE DEF v
    <3> QED
      BY <2>1, <2>4, <3>1, DoneServe DEF ServePCs
  <2> QED
    BY <1>7, <2>2, <2>3, <2>4 DEF SeedEnsureListener
<1>8. CASE SeedPersist
  <2>1. /\ pc = "listener" /\ w.todo = {} /\ obj[w.svc].there /\ w.svc \in Services
        /\ ann' = [ann EXCEPT ![w.svc] = Patched(SeedResultOf(w.base))]
    BY <1>1, <1>8 DEF SeedPersist, PatchAnnotations, TypeOK
  <2>2. w.base = ann[w.svc]
    BY <2>1 DEF ServeInv, BaseIsCurrent, SettledPCs, ServePCs
  <2>3. SeedResultOf(w.base).vip = w.vip
        /\ SeedResultOf(w.base).graph = DropMigratedLegacyAliases(w.graph)
    BY <1>1 DEF SeedResultOf, Work, Annotations
  <2>4. ann'[w.svc].vip = w.vip /\ ann'[w.svc].graph.vs = w.graph.vs
    <3>1. ann'[w.svc] = MergePatch(w.base, w.base, SeedResultOf(w.base))
      BY <1>1, <2>1, <2>2 DEF Patched
    <3> QED
      BY <1>1, <2>3, <3>1, PatchOnCurrent, DropAliasesType
  <2>5. CASE pc' = "idle"
    BY <1>3, <2>5 DEF SettledPCs, ServePCs
  <2>6. CASE pc' # "idle"
    <3>1. pc' = "publish" /\ w' = [w EXCEPT !.base = ann'[w.svc]]
      BY <1>8, <2>6 DEF SeedPersist
    <3>2. /\ w'.svc = w.svc /\ w'.base = ann'[w.svc] /\ w'.vip = w.vip /\ w'.graph = w.graph
          /\ w'.todo = w.todo /\ w'.ports = w.ports
      BY <1>1, <3>1 DEF Work
    <3>3. DoneServes'
      BY <1>2, <2>1, <3>1, <3>2 DEF ServeInv, DoneServes, Serves, ServePCs
    <3> QED
      BY <1>2, <2>1, <2>4, <3>1, <3>2, <3>3 DEF ServeInv, BaseIsCurrent, ResultStored
  <2> QED
    BY <2>5, <2>6
<1> QED
  BY <1>4, <1>5, <1>6, <1>7, <1>8 DEF SeedOnly, SeedPassStep

(* The pass is inductive with what it records.                               *)
LEMMA SeedServeInvariant == ASSUME ~StaleReads PROVE SeedSpec => []ServeInv
<1>1. SeedInit => ServeInv
  BY DEF SeedInit, Init, ServeInv, DoneServes, BaseIsCurrent, ResultStored, FinThere, SettledPCs,
         ServePCs
<1>2. SeedInv /\ ParentInv /\ ServeInv /\ [SeedNext]_vars => ServeInv'
  <2>1. BridgeInv /\ ServeInv /\ [Next]_vars => ServeInv'
    BY StepKinds, OutsideServe, LeadServe, ListenerServe, LastServe
  <2> QED
    BY <2>1, SeedSteps, SeedOnlyServe DEF SeedInv
<1> QED
  BY <1>1, <1>2, SeedInvariant, SeedParentInvariant, PTL DEF SeedSpec

(* With fresh reads the VIP of a Seed Service comes into                     *)
(* status.loadBalancer only when it, and a listener that CMP had reported    *)
(* ready on it for the port of the pass, are recorded, adopted ones included.*)
THEOREM SeedOnlyServedVIPPublished == ASSUME ~StaleReads PROVE SeedSpec => PublishedServes
<1>1. SeedInv /\ ServeInv /\ [SeedNext]_vars => [Shown]_vars
  <2>1. SeedOnly => status' = status
    BY DEF SeedOnly, SeedIgnore, SeedBegins, SeedBeginEnsure, SeedBeginCleanup, SeedPassStep,
           SeedLoad, WithoutCheckpoint, SeedEnsureListener, SeedPersist, PatchAnnotations,
           Continue, Return
  <2>2. status' = status => Shown
    BY DEF Shown
  <2> QED
    BY <2>1, <2>2, SeedSteps, NextShows DEF SeedInv
<1> QED
  BY <1>1, SeedInvariant, SeedServeInvariant, PTL DEF SeedSpec, PublishedServes, Shown

-----------------------------------------------------------------------------
(* With fresh reads: the finalizer goes last.                                *)

(* The steps of a running pass that are the bridge's.                        *)
SharedStep ==
    /\ pc # "idle"
    /\ EnsureFinalizer \/ LBStep \/ VIPStep \/ ListenerStep \/ LastStep \/ BrokenOff

(* Every step is one of these; the bridge's own ways to begin are not.       *)
LEMMA SeedStepKinds ==
    ASSUME [SeedNext]_vars
    PROVE  Outside \/ SeedOnly \/ SharedStep \/ Cleanup
<1>1. ASSUME NEW l \in LbIds, LBSettles(l) \/ LBDeleted(l) \/ LBFails(l) \/ LBLost(l)
      PROVE  UnchangedBridge
  BY <1>1 DEF LBSettles, LBDeleted, LBFails, LBLost
<1>2. ASSUME NEW v \in VipIds, VIPSettles(v) \/ VIPFails(v) \/ VIPLost(v)
      PROVE  UnchangedBridge
  BY <1>2 DEF VIPSettles, VIPFails, VIPLost
<1>3. ASSUME NEW v \in VsIds, VSSettles(v) \/ VSDeleted(v) \/ VSFails(v) \/ VSLost(v)
      PROVE  UnchangedBridge
  BY <1>3 DEF VSSettles, VSDeleted, VSFails, VSLost
<1>4. ASSUME NEW s \in Services, SeedChangePort(s) PROVE ChangePorts(s)
  BY <1>4 DEF SeedChangePort, ChangePorts
<1>5. CASE UNCHANGED vars \/ \E s \in Services : InformerSync(s) \/ Resync(s)
  BY <1>5 DEF Outside
<1>6. CASE Provider
  BY <1>1, <1>2, <1>3, <1>6 DEF Provider, Outside, ProviderStep
<1>7. FailedCall \/ CallRefused => pc # "idle"
  BY DEF FailedCall, CallRefused
<1>8. CASE SeedDisturbance
  <2>1. CASE FailedCall
    BY <1>7, <2>1 DEF SharedStep, BrokenOff
  <2>2. CASE \E s \in Services : ChangeType(s) \/ SeedChangePort(s) \/ ChangeBackends(s)
                                 \/ DeleteService(s)
    BY <1>4, <2>2 DEF Outside, UserStep
  <2> QED
    BY <1>1, <1>2, <1>3, <1>8, <2>1, <2>2 DEF SeedDisturbance, Outside, ProviderStep
<1>9. CASE SeedWorker
  <2>1. CASE SeedEnsure
    <3>1. CASE SeedLoad \/ WithoutCheckpoint \/ SeedPersist \/ \E p \in Ports : SeedEnsureListener(p)
      BY <3>1 DEF SeedOnly, SeedPassStep
    <3>2. CASE EnsureFinalizer \/ GetRecordedLB \/ DeleteFailedLB \/ FindLBByName \/ CreateLB
               \/ CheckCreatedLB
      BY <3>2 DEF SharedStep, LBStep, EnsureFinalizer, GetRecordedLB, DeleteFailedLB,
                  FindLBByName, CreateLB, CheckCreatedLB
    <3>3. CASE RecoverByName \/ EnsureVIP \/ DeleteFailedVIP \/ CreateVIP
      BY <3>3 DEF SharedStep, VIPStep, RecoverByName, EnsureVIP, DeleteFailedVIP, CreateVIP
    <3>4. CASE DeleteListener \/ CreateListener \/ CheckCreatedListener \/ DeleteObsoleteListener
               \/ PublishVIP
      BY <3>4 DEF SharedStep, ListenerStep, LastStep, DeleteListener, CreateListener,
                  CheckCreatedListener, DeleteObsoleteListener, PublishVIP
    <3> QED
      BY <2>1, <3>1, <3>2, <3>3, <3>4 DEF SeedEnsure
  <2>2. CASE CallRefused
    BY <1>7, <2>2 DEF SharedStep, BrokenOff
  <2> QED
    BY <1>9, <2>1, <2>2 DEF SeedWorker, SeedStartPass, SeedOnly, SeedBegins
<1> QED
  BY <1>5, <1>6, <1>8, <1>9 DEF SeedNext

(* What a clean-up of the controller has to show for itself: the LBService   *)
(* goes too, and before the finalizer it and the listeners are gone.         *)
LBGoes == pc \in CleanupPCs => w.deleteLB
LBWent == pc = "unfinalize" /\ w.base.lb # NoId => lbs[w.base.lb].st = "absent"
SeedCleanInv == HandInv /\ GoneInv /\ LBGoes /\ LBWent

(* A pass that does not clean up owes nothing of this.                       *)
LEMMA SeedNotCleaning == pc' \notin CleanupPCs => SeedCleanInv'
BY DEF SeedCleanInv, HandInv, GoneInv, LBGoes, LBWent, CleanupPCs

(* The decisions are right when a clean-up begins.                           *)
LEMMA SeedBeginsClean ==
    ASSUME TypeOK, ParentInv, ~StaleReads, NEW s \in Services, SeedBeginCleanup(s)
    PROVE  SeedCleanInv'
<1> DEFINE a == ann[s]
           g == EnsureGraph(a.graph, a.lb, a.vip)
           C == CleanupLBs(a.lb, g)
<1>1. View(s).ann = a /\ a \in Annotations /\ a.graph \in Graph /\ Rooted(s, a)
  BY DEF View, TypeOK, Annotations, ParentInv, AllRooted
<1>2. /\ pc' = IF C = {} THEN "unfinalize" ELSE "clean-vs"
      /\ w'.svc = s /\ w'.base = a /\ w'.graph = g /\ w'.deleteLB = TRUE
      /\ w'.lb = IF C = {} THEN NoId ELSE CHOOSE l \in C : TRUE
      /\ UNCHANGED <<obj, ann, lbs, vss>>
  BY <1>1 DEF SeedBeginCleanup, IdleWork
<1>3. g.vs = a.graph.vs
  BY <1>1, EnsureGraphType DEF Annotations
<1>4. C = {} <=> a.lb = NoId
  BY <1>1, NothingToClean
<1>5. a.lb = NoId => \A p \in Ports : a.graph.vs[p].id = NoId
  BY <1>1, NothingToClean DEF NoGraph, NoListener
<1> HIDE DEF a, g, C
<1>6. HandInv'
  BY <1>2, <1>4 DEF HandInv, C
<1>7. GoneInv'
  BY <1>2, <1>3, <1>4, <1>5 DEF GoneInv, CleanupListeners
<1> QED
  BY <1>2, <1>4, <1>6, <1>7 DEF SeedCleanInv, LBGoes, LBWent

(* It goes on to the finalizer only past a 404 for the LBService.            *)
LEMMA SeedCleansOn ==
    ASSUME BridgeInv, SeedCleanInv, LookInv, Cleanup
    PROVE  SeedCleanInv'
<1>1. TypeOK /\ w \in Work /\ lbs \in [LbIds -> LBRecord]
  BY DEF BridgeInv, TypeOK, CMPTypeOK
<1>2. pc \in CleanupPCs
  BY DEF Cleanup, RefuseAmbiguousCleanup, CleanListener, ConfirmListenerGone, CleanVIP, CleanLB,
     ConfirmLBGone, RemoveFinalizer, CleanupPCs
<1>3. HandInv' /\ GoneInv'
  BY CleansOn DEF SeedCleanInv
<1>4. LBGoes'
  BY <1>2, CleansOn DEF SeedCleanInv, LBGoes
<1>5. CASE pc' # "unfinalize"
  BY <1>3, <1>4, <1>5 DEF SeedCleanInv, LBWent
<1>6. CASE CleanVIP /\ pc' = "unfinalize"
  <2>1. ~w.deleteLB
    BY <1>6 DEF CleanVIP, AfterVIPs, Continue
  <2> QED
    BY <1>2, <2>1 DEF SeedCleanInv, LBGoes
<1>7. CASE ConfirmLBGone /\ pc' = "unfinalize"
  <2>1. w' = w /\ lbs' = lbs /\ ~LBVisible(w.lb) /\ w.lb = w.base.lb
    BY <1>7 DEF ConfirmLBGone, Continue, Return, SeedCleanInv, HandInv, CleanupPCs
  <2>2. w.lb = NoId \/ w.lb \in LbIds
    BY <1>1 DEF Work
  <2>3. w.lb # NoId => lbs[w.lb].st = "absent"
    BY <1>1, <2>1, <2>2 DEF LBVisible, Visible, LookInv, LBRecord, Statuses
  <2> QED
    BY <1>3, <1>4, <2>1, <2>3 DEF SeedCleanInv, LBWent
<1>8. CASE pc' = "unfinalize" /\ ~CleanVIP /\ ~ConfirmLBGone
  BY <1>8, ReturnIdles DEF Cleanup, RefuseAmbiguousCleanup, CleanListener, ConfirmListenerGone,
     CleanLB, RemoveFinalizer, Continue
<1> QED
  BY <1>5, <1>6, <1>7, <1>8

(* Every step keeps it.                                                      *)
LEMMA SeedNextClean ==
    ASSUME BridgeInv, SeedCleanInv, LookInv, ParentInv, ~StaleReads, [SeedNext]_vars
    PROVE  SeedCleanInv'
<1>1. TypeOK
  BY DEF BridgeInv
<1>2. ASSUME UNCHANGED <<pc, w>>, LbsKeeps, VssKeeps PROVE SeedCleanInv'
  <2>1. w.base.lb # NoId => w.base.lb \in LbIds
    BY <1>1 DEF TypeOK, Work, Annotations
  <2>2. \A p \in Ports : w.base.graph.vs[p].id # NoId => w.base.graph.vs[p].id \in VsIds
    BY <1>1 DEF TypeOK, Work, Annotations, Graph, Listener
  <2>3. HandInv'
    BY <1>2 DEF SeedCleanInv, HandInv
  <2>4. GoneInv'
    BY <1>2, <2>2 DEF SeedCleanInv, GoneInv, VssKeeps, Ages
  <2>5. LBGoes' /\ LBWent'
    BY <1>2, <2>1 DEF SeedCleanInv, LBGoes, LBWent, LbsKeeps, Ages
  <2> QED
    BY <2>3, <2>4, <2>5 DEF SeedCleanInv
<1>3. CASE Outside
  BY <1>1, <1>2, <1>3, OutsideFacts
<1>4. CASE \E s \in Services : SeedIgnore(s)
  BY <1>1, <1>2, <1>4, UntouchedKeeps, UnchangedKeeps DEF SeedIgnore
<1>5. CASE \E s \in Services : SeedBeginCleanup(s)
  BY <1>1, <1>5, SeedBeginsClean
<1>6. CASE SeedPassStep \/ \E s \in Services : SeedBeginEnsure(s)
  BY <1>6, SeedNotCleaning, ReturnIdles
  DEF SeedPassStep, SeedBeginEnsure, SeedLoad, WithoutCheckpoint, SeedEnsureListener, SeedPersist,
      Continue, CleanupPCs
<1>7. CASE SharedStep
  <2>1. \A s \in Services : ~BeginCleanup(s)
    BY <1>7 DEF SharedStep, BeginCleanup, Dequeue
  <2>2. FirstStep \/ LBStep \/ VIPStep \/ ListenerStep \/ LastStep \/ BrokenOff
    BY <1>7 DEF SharedStep, FirstStep
  <2> QED
    BY <2>1, <2>2, EnsureNeverCleans, SeedNotCleaning
<1>8. CASE Cleanup
  BY <1>8, SeedCleansOn
<1> QED
  BY <1>3, <1>4, <1>5, <1>6, <1>7, <1>8, SeedStepKinds DEF SeedOnly, SeedBegins

(* With reads that are fresh and see every create it always holds.           *)
LEMMA SeedCleanInvariant ==
    ASSUME ~StaleReads, "hidden" \notin Born
    PROVE  SeedSpec => []SeedCleanInv
<1>1. SeedInit => SeedCleanInv
  BY DEF SeedInit, Init, SeedCleanInv, HandInv, GoneInv, LBGoes, LBWent, CleanupPCs
<1>2. SeedInv /\ SeedCleanInv /\ UniqueInv /\ ParentInv /\ [SeedNext]_vars => SeedCleanInv'
  BY SeedNextClean DEF SeedInv, UniqueInv
<1> QED
  BY <1>1, <1>2, SeedInvariant, SeedUniqueInvariant, SeedParentInvariant, PTL DEF SeedSpec

(* RecordedGoneBeforeRelease: a deleted Seed Service keeps its finalizer     *)
(* until CMP has answered 404 for the LBService and the listener it has      *)
(* recorded, whatever calls fail and passes end early in between, provided   *)
(* reads are fresh and see every create.                                     *)
THEOREM SeedReleasedClean ==
    ASSUME ~StaleReads, "hidden" \notin Born
    PROVE  SeedSpec => RecordedGoneBeforeRelease
<1> DEFINE Gone ==
      \A s \in Services : obj[s].fin /\ ~obj'[s].fin =>
          /\ ann[s].lb # NoId => lbs[ann[s].lb].st = "absent"
          /\ \A p \in Ports : LET v == ann[s].graph.vs[p].id IN v # NoId => vss[v].st = "absent"
<1>1. ASSUME SeedInv, ParentInv, SeedCleanInv, [SeedNext]_vars
      PROVE  [Gone]_vars
  <2> SUFFICES ASSUME NEW s \in Services, obj[s].fin, ~obj'[s].fin
               PROVE  /\ ann[s].lb # NoId => lbs[ann[s].lb].st = "absent"
                      /\ \A p \in Ports : LET v == ann[s].graph.vs[p].id IN
                                             v # NoId => vss[v].st = "absent"
    OBVIOUS
  <2>1. RemoveFinalizer /\ s = w.svc
    <3>1. ~SeedOnly
      BY SeedOnlyReads
    <3> QED
      BY <1>1, <3>1, SeedSteps, ReleasedByCleanup DEF SeedInv, BridgeInv
  <2>2. pc = "unfinalize" /\ w.base = ann[s]
    BY <1>1, <2>1 DEF RemoveFinalizer, ParentInv, Current
  <2>3. \A p \in Ports : LET v == ann[s].graph.vs[p].id IN v # NoId => vss[v].st = "absent"
    BY <1>1, <2>2 DEF SeedCleanInv, GoneInv, CleanupPCs
  <2> QED
    BY <1>1, <2>2, <2>3 DEF SeedCleanInv, LBWent
<1> QED
  BY <1>1, SeedInvariant, SeedParentInvariant, SeedCleanInvariant, PTL
  DEF SeedSpec, RecordedGoneBeforeRelease

-----------------------------------------------------------------------------
(* A VIP is wasted only by a disturbance.                                    *)

(* What the code recovers from, and the run has: reads are fresh and show    *)
(* every create, users bring nothing along, and LBServices and VIPs are      *)
(* neither born failed nor do they fail or get lost later.                   *)
Recoverable ==
    /\ ~StaleReads /\ Born \subseteq {"pending", "ready"} /\ UserLBs = {} /\ UserVIPs = {}
    /\ Faults \cap {"lb-fails", "lb-lost", "vip-fails", "vip-lost"} = {}

(* A Service is kept until the controller has seen its deletion.             *)
Ensuring(s) == pc \in EnsurePCs /\ w.svc = s
Kept(s) == ~obj[s].del \/ Ensuring(s)

(* What there is at CMP is a Service's, hangs on an LBService of that        *)
(* Service, and stays while the Service is kept.                             *)
HasLB(s, l) == l \in LbIds /\ lbs[l].st # "absent" /\ lbs[l].name = s
HasVIP(s, v) == v \in VipIds /\ vips[v].st # "absent" /\ vips[v].by = s
LBsAtHome ==
    \A l \in LbIds : lbs[l].st # "absent" =>
        /\ lbs[l].name \in Services /\ lbs[l].st \in {"pending", "ready", "deleting"}
        /\ Kept(lbs[l].name) => lbs[l].st # "deleting"
VIPsAtHome ==
    \A v \in VipIds :
        /\ vips[v].st = "absent" => vips[v].by = NoOwner
        /\ vips[v].st # "absent" => /\ vips[v].st # "failed" /\ vips[v].by \in Services
                                    /\ HasLB(vips[v].by, vips[v].lb)
VSsAtHome ==
    \A v \in VsIds : vss[v].st # "absent" =>
        /\ vss[v].by \in Services /\ HasLB(vss[v].by, vss[v].lb)
        /\ Kept(vss[v].by) => HasVIP(vss[v].by, vss[v].vip)
AtHome == LBsAtHome /\ VIPsAtHome /\ VSsAtHome

(* Ids recorded are gone or the Service's own; those of a kept Service are   *)
(* there, and without a VIP no listener is recorded.                         *)
OwnLB(s, l) == l = NoId \/ lbs[l].st = "absent" \/ lbs[l].name = s
OwnVIP(s, v) == v = NoId \/ vips[v].st = "absent" \/ vips[v].by = s
OwnIds(s, a) == OwnLB(s, a.lb) /\ OwnVIP(s, a.graph.vip) /\ OwnVIP(s, a.graph.legacyVip) /\ OwnVIP(s, a.vip)
Holds(s, a) ==
    /\ a.lb # NoId => HasLB(s, a.lb)
    /\ a.vip # NoId => HasVIP(s, a.vip)
    /\ a.vip = NoId => \A p \in Ports : a.graph.vs[p] = NoListener
RecordsHold ==
    /\ \A s \in Services : obj[s].del \/ obj[s].there
    /\ \A s \in Services : OwnIds(s, ann[s]) /\ (Kept(s) => Holds(s, ann[s]))

(* A pass that ensures: the LBService in hand is there, and the VIP, which   *)
(* is the recorded one or that of a listener; one is created only when       *)
(* neither exists, and what is adopted is not deleted unless it has failed.  *)
Healthy(st) == st \in {"pending", "ready"}
NoListenerOn(s, P) == \A v \in VsIds : vss[v].st # "absent" => ~(vss[v].by = s /\ vss[v].port \in P)
LeadPCs == {"lb-get", "lb-find", "lb-create", "lb-check", "checkpoint", "recover"}
EnsureAt(p, work) ==
    /\ Holds(work.svc, work.base)
    /\ p \notin {"lb-delete", "vip-delete", "bump"}
    /\ p \in WithLBPCs => HasLB(work.svc, work.lb)
    /\ p \in LoadedPCs /\ work.vip # NoId => HasVIP(work.svc, work.vip)
    /\ p \in LeadPCs => work.vip = work.base.vip
    /\ p \in ServePCs => work.vip # NoId
    /\ p \in {"vip", "vip-create"} /\ work.vip = NoId =>
          work.base.vip = NoId /\ NoListenerOn(work.svc, work.ports)
    /\ p = "vip-create" => work.vip = NoId
    /\ p \in LoadedPCs /\ work.base.vip = NoId =>
          \A q \in work.ports : work.graph.vs[q] = NoListener \/ work.graph.vs[q].hash = work.hash
    /\ p = "vs-delete" /\ work.base.vip = NoId => ~Healthy(vss[work.vs].st)
HandAt(p, work) ==
    /\ p # "idle" => /\ OwnIds(work.svc, work.base)
                     /\ OwnVIP(work.svc, work.graph.vip) /\ OwnVIP(work.svc, work.graph.legacyVip)
    /\ p \in CleanupPCs => obj[work.svc].del
    /\ p \in EnsurePCs => EnsureAt(p, work)
HomeInv == AtHome /\ RecordsHold /\ HandAt(pc, w)

(* A kept Service has one LBService.                                         *)
LEMMA OneHome ==
    ASSUME OneLB, LBsAtHome, NEW s \in Services, Kept(s), NEW l, NEW m, HasLB(s, l), HasLB(s, m)
    PROVE  l = m /\ LBVisible(l)
<1>1. /\ l \in LbIds /\ lbs[l].st \in {"pending", "ready"} /\ lbs[l].name = s
      /\ m \in LbIds /\ lbs[m].st \in {"pending", "ready"} /\ lbs[m].name = s
  BY DEF HasLB, LBsAtHome
<1>2. l # NoId
  BY <1>1, IdAssumption
<1> QED
  BY <1>1, <1>2 DEF OneLB, Live, LBVisible, Visible

(* Who is no longer kept is not taken up again.                              *)
KeptShrinks == \A s \in Services : (obj[s].del => obj'[s].del) /\ (Kept(s)' => Kept(s))

(* With fewer kept, and all else the same, less is claimed.                  *)
LEMMA SameHome ==
    ASSUME AtHome, RecordsHold, KeptShrinks, UNCHANGED <<ann, lbs, vips, vss>>,
           \A s \in Services : obj'[s].del \/ obj'[s].there
    PROVE  AtHome' /\ RecordsHold'
<1>1. /\ \A s \in Services, l \in LbIds \cup {NoId} : OwnLB(s, l)' <=> OwnLB(s, l)
      /\ \A s \in Services, v \in VipIds \cup {NoId} : OwnVIP(s, v)' <=> OwnVIP(s, v)
  BY DEF OwnLB, OwnVIP
<1>2. /\ \A s, l : HasLB(s, l)' <=> HasLB(s, l)
      /\ \A s, v : HasVIP(s, v)' <=> HasVIP(s, v)
  BY DEF HasLB, HasVIP
<1>3. AtHome'
  BY <1>2 DEF AtHome, LBsAtHome, VIPsAtHome, VSsAtHome, KeptShrinks
<1>4. \A s, a : (OwnIds(s, a)' <=> OwnIds(s, a)) /\ (Holds(s, a)' <=> Holds(s, a))
  BY <1>2 DEF OwnIds, OwnLB, OwnVIP, Holds
<1>5. RecordsHold'
  BY <1>4 DEF RecordsHold, KeptShrinks
<1> QED
  BY <1>3, <1>5

(* The pass goes on and nothing else changes.                                *)
LEMMA ContinueHome ==
    ASSUME HomeInv, pc \in EnsurePCs, NEW next \in EnsurePCs, NEW work, Continue(next, work),
           UNCHANGED <<lbs, vips, vss>>, work.svc = w.svc, HandAt(next, work)
    PROVE  HomeInv' /\ KeptShrinks
<1>1. KeptShrinks
  BY DEF Continue, KeptShrinks, Kept, Ensuring
<1>2. AtHome' /\ RecordsHold'
  BY <1>1, SameHome DEF HomeInv, Continue, RecordsHold
<1>3. HandAt(pc, w)'
  BY DEF Continue, HandAt, EnsureAt, OwnIds, OwnLB, OwnVIP, Holds, HasLB, HasVIP, NoListenerOn
<1> QED
  BY <1>1, <1>2, <1>3 DEF HomeInv

(* The pass ends.                                                            *)
LEMMA IdleHome ==
    ASSUME HomeInv, pc' = "idle", UNCHANGED <<obj, ann, lbs, vips, vss>>
    PROVE  HomeInv' /\ KeptShrinks
<1>1. KeptShrinks
  BY DEF KeptShrinks, Kept, Ensuring, EnsurePCs
<1>2. AtHome' /\ RecordsHold'
  BY <1>1, SameHome DEF HomeInv, RecordsHold
<1>3. HandAt(pc, w)'
  BY DEF HandAt, EnsurePCs, CleanupPCs
<1> QED
  BY <1>1, <1>2, <1>3 DEF HomeInv
LEMMA ReturnHome ==
    ASSUME HomeInv, NEW again, Return(again), UNCHANGED <<lbs, vips, vss>>
    PROVE  HomeInv' /\ KeptShrinks
BY IdleHome DEF Return

(* On the way to the VIP the pass only looks for its LBService.              *)
LEMMA LeadOn ==
    ASSUME HomeInv, pc \in LeadPCs, NEW next \in LeadPCs, NEW work,
           work.svc = w.svc, work.base = w.base, work.ports = w.ports, work.hash = w.hash,
           work.vip = w.vip, work.graph.vs = w.graph.vs, work.graph.vip = w.graph.vip,
           work.graph.legacyVip = w.graph.legacyVip, next \in WithLBPCs => HasLB(w.svc, work.lb)
    PROVE  HandAt(next, work) /\ pc \in EnsurePCs /\ next \in EnsurePCs
<1>1. /\ LeadPCs \subseteq LoadedPCs /\ LeadPCs \subseteq EnsurePCs /\ LeadPCs \cap CleanupPCs = {}
      /\ LeadPCs \cap ServePCs = {} /\ "idle" \notin LeadPCs
      /\ LeadPCs \cap {"vip", "vip-create", "vs-delete", "lb-delete", "vip-delete", "bump"} = {}
  BY DEF LeadPCs, LoadedPCs, EnsurePCs, CleanupPCs, ServePCs
<1>2. EnsureAt(pc, w) /\ pc # "idle" /\ HandAt(pc, w)
  BY <1>1 DEF HomeInv, HandAt
<1>3. EnsureAt(next, work)
  BY <1>1, <1>2 DEF EnsureAt
<1> QED
  BY <1>1, <1>2, <1>3 DEF HandAt

(* What the EXCEPTs of the pass leave alone.                                 *)
LEMMA OnlyLBChanges ==
    ASSUME w \in Work, NEW l
    PROVE  LET work == [w EXCEPT !.lb = l] IN
           /\ work.svc = w.svc /\ work.base = w.base /\ work.ports = w.ports
           /\ work.hash = w.hash /\ work.vip = w.vip /\ work.graph = w.graph /\ work.lb = l
BY DEF Work
LEMMA OnlyOutcomeChanges ==
    ASSUME w \in Work, NEW o
    PROVE  LET work == [w EXCEPT !.outcome = o] IN
           /\ work.svc = w.svc /\ work.base = w.base /\ work.ports = w.ports
           /\ work.hash = w.hash /\ work.vip = w.vip /\ work.graph = w.graph /\ work.lb = w.lb
BY DEF Work

(* The calls that find the LBService.                                        *)
LEMMA FindHome ==
    ASSUME TypeOK, UniqueInv, HomeInv,
           GetRecordedLB \/ FindLBByName \/ CheckCreatedLB \/ WithoutCheckpoint
    PROVE  HomeInv' /\ KeptShrinks
<1>1. /\ w \in Work /\ w.graph \in Graph /\ pc \in LeadPCs /\ pc \in EnsurePCs
      /\ UNCHANGED <<lbs, vips, vss>> /\ pc # "idle"
  BY DEF TypeOK, Work, GetRecordedLB, FindLBByName, CheckCreatedLB, WithoutCheckpoint, LeadPCs,
         EnsurePCs
<1>2. ASSUME NEW next \in LeadPCs, NEW l, Continue(next, [w EXCEPT !.lb = l]),
             next \in WithLBPCs => HasLB(w.svc, l)
      PROVE  HomeInv' /\ KeptShrinks
  <2> DEFINE work == [w EXCEPT !.lb = l]
  <2>1. /\ work.svc = w.svc /\ work.base = w.base /\ work.ports = w.ports
        /\ work.hash = w.hash /\ work.vip = w.vip /\ work.graph = w.graph /\ work.lb = l
    BY <1>1, OnlyLBChanges
  <2>2. Continue(next, work)
    BY <1>2
  <2> HIDE DEF work
  <2>3. HandAt(next, work) /\ next \in EnsurePCs
    BY <1>1, <1>2, <2>1, LeadOn
  <2> QED
    BY <1>1, <2>1, <2>2, <2>3, ContinueHome
<1>3. ASSUME NEW o, Continue("checkpoint", [w EXCEPT !.outcome = o]), HasLB(w.svc, w.lb)
      PROVE  HomeInv' /\ KeptShrinks
  <2> DEFINE work == [w EXCEPT !.outcome = o]
  <2>1. /\ work.svc = w.svc /\ work.base = w.base /\ work.ports = w.ports
        /\ work.hash = w.hash /\ work.vip = w.vip /\ work.graph = w.graph /\ work.lb = w.lb
    BY <1>1, OnlyOutcomeChanges
  <2>2. Continue("checkpoint", work) /\ "checkpoint" \in LeadPCs
    BY <1>3 DEF LeadPCs
  <2> HIDE DEF work
  <2>3. HandAt("checkpoint", work) /\ "checkpoint" \in EnsurePCs
    BY <1>1, <1>3, <2>1, <2>2, LeadOn
  <2> QED
    BY <1>1, <2>1, <2>2, <2>3, ContinueHome
<1>4. pc \in WithLBPCs => HasLB(w.svc, w.lb)
  BY <1>1 DEF HomeInv, HandAt, EnsureAt
<1>5. {"lb-get", "lb-check", "checkpoint"} \subseteq WithLBPCs /\ "lb-create" \notin WithLBPCs
  BY DEF WithLBPCs, SettledPCs, ServePCs
<1>6. CASE GetRecordedLB
  <2>1. pc = "lb-get" /\ HasLB(w.svc, w.lb)
    BY <1>4, <1>5, <1>6 DEF GetRecordedLB
  <2>2. LBVisible(w.lb) /\ lbs[w.lb].st # "failed"
    BY <2>1, IdAssumption DEF HomeInv, AtHome, LBsAtHome, HasLB, LBVisible, Visible
  <2>3. Continue("checkpoint", [w EXCEPT !.outcome = LBOutcome(lbs[w.lb].st)])
    BY <1>6, <2>2 DEF GetRecordedLB
  <2> QED
    BY <1>3, <2>1, <2>3
<1>7. CASE FindLBByName
  <2>1. ASSUME NEW l \in LBsNamed(w.svc), Continue("lb-check", [w EXCEPT !.lb = l])
        PROVE  HomeInv' /\ KeptShrinks
    <3>1. HasLB(w.svc, l) /\ "lb-check" \in LeadPCs
      BY DEF LBsNamed, HasLB, Visible, LeadPCs
    <3> QED
      BY <1>2, <2>1, <3>1
  <2>2. CASE Continue("lb-create", w)
    <3>1. "lb-create" \in LeadPCs /\ "lb-create" \in EnsurePCs
      BY DEF LeadPCs, EnsurePCs
    <3>2. HandAt("lb-create", w)
      BY <1>1, <1>5, <3>1, LeadOn
    <3> QED
      BY <1>1, <2>2, <3>1, <3>2, ContinueHome
  <2> QED
    BY <1>1, <1>7, <2>1, <2>2, ReturnHome DEF FindLBByName
<1>8. CASE CheckCreatedLB
  <2>1. PICK o : o = IF LBVisible(w.lb) THEN LBOutcome(lbs[w.lb].st) ELSE "pending"
    OBVIOUS
  <2>2. pc = "lb-check" /\ Continue("checkpoint", [w EXCEPT !.outcome = o])
    BY <1>8, <2>1 DEF CheckCreatedLB
  <2> QED
    BY <1>3, <1>4, <1>5, <2>2
<1>9. CASE WithoutCheckpoint
  <2> DEFINE work == [w EXCEPT !.graph = WithLB(w.graph)]
  <2>1. /\ work.svc = w.svc /\ work.base = w.base /\ work.ports = w.ports
        /\ work.hash = w.hash /\ work.vip = w.vip /\ work.lb = w.lb
        /\ work.graph.vs = w.graph.vs /\ work.graph.vip = w.graph.vip
        /\ work.graph.legacyVip = w.graph.legacyVip
    BY <1>1 DEF Work, Graph, WithLB
  <2>2. CASE Continue("recover", work)
    <3> HIDE DEF work
    <3>1. "recover" \in LeadPCs /\ HasLB(w.svc, w.lb)
      BY <1>4, <1>5, <1>9 DEF WithoutCheckpoint, LeadPCs
    <3>2. HandAt("recover", work) /\ "recover" \in EnsurePCs
      BY <1>1, <2>1, <3>1, LeadOn
    <3> QED
      BY <1>1, <2>1, <2>2, <3>2, ContinueHome
  <2> QED
    BY <1>1, <1>9, <2>2, ReturnHome DEF WithoutCheckpoint
<1> QED
  BY <1>6, <1>7, <1>8, <1>9

(* CMP goes on, or takes away what no kept Service needs.                    *)
CMPAges ==
    /\ \A l \in LbIds : lbs'[l].st # "absent" =>
          /\ lbs[l].st # "absent" /\ lbs'[l].name = lbs[l].name
          /\ lbs'[l].st \in {"pending", "ready", "deleting"}
    /\ \A v \in VipIds :
          \/ vips'[v].st = "absent" /\ vips'[v].by = NoOwner
          \/ /\ vips[v].st # "absent" /\ vips'[v].st \in {"pending", "active"}
             /\ vips'[v].by = vips[v].by /\ vips'[v].lb = vips[v].lb
             /\ lbs[vips[v].lb].st # "absent" => lbs'[vips[v].lb].st # "absent"
    /\ \A v \in VsIds : vss'[v].st # "absent" =>
          /\ Healthy(vss'[v].st) => Healthy(vss[v].st)
          /\ vss[v].st # "absent" /\ vss'[v].by = vss[v].by /\ vss'[v].lb = vss[v].lb
          /\ vss'[v].vip = vss[v].vip /\ vss'[v].port = vss[v].port
          /\ lbs[vss[v].lb].st # "absent" => lbs'[vss[v].lb].st # "absent"
    /\ \A s \in Services : Kept(s)' =>
          /\ \A l \in LbIds : HasLB(s, l) => lbs'[l].st \notin {"absent", "deleting"}
          /\ \A v \in VipIds : HasVIP(s, v) => vips'[v].st # "absent"

(* Then what a kept Service has stays, and nothing is claimed anew.          *)
LEMMA AgesHome ==
    ASSUME TypeOK, AtHome, KeptShrinks, CMPAges
    PROVE  /\ AtHome'
           /\ \A s \in Services : Kept(s)' =>
                 /\ \A l : HasLB(s, l) => HasLB(s, l)'
                 /\ \A v : HasVIP(s, v) => HasVIP(s, v)'
           /\ \A s \in Services, l \in LbIds \cup {NoId} : OwnLB(s, l) => OwnLB(s, l)'
           /\ \A s \in Services, v \in VipIds \cup {NoId} : OwnVIP(s, v) => OwnVIP(s, v)'
           /\ \A s, P : NoListenerOn(s, P) => NoListenerOn(s, P)'
<1>1. ASSUME NEW s \in Services, Kept(s)'
      PROVE  /\ \A l : HasLB(s, l) => HasLB(s, l)'
             /\ \A v : HasVIP(s, v) => HasVIP(s, v)'
  <2>1. ASSUME NEW l, HasLB(s, l) PROVE HasLB(s, l)'
    BY <1>1, <2>1 DEF CMPAges, HasLB
  <2>2. ASSUME NEW v, HasVIP(s, v) PROVE HasVIP(s, v)'
    BY <1>1, <2>2 DEF CMPAges, HasVIP
  <2> QED
    BY <2>1, <2>2
<1>2. LBsAtHome'
  <2> SUFFICES ASSUME NEW l \in LbIds, lbs'[l].st # "absent"
               PROVE  /\ lbs'[l].name \in Services /\ lbs'[l].st \in {"pending", "ready", "deleting"}
                      /\ Kept(lbs[l].name)' => lbs'[l].st # "deleting"
    BY DEF LBsAtHome
  <2>1. PICK s : s = lbs[l].name
    OBVIOUS
  <2>2. /\ lbs[l].st # "absent" /\ lbs'[l].name = s /\ lbs'[l].st \in {"pending", "ready", "deleting"}
        /\ s \in Services /\ HasLB(s, l)
    BY <2>1 DEF CMPAges, AtHome, LBsAtHome, HasLB
  <2>3. Kept(s)' => lbs'[l].st # "deleting"
    BY <2>2 DEF CMPAges
  <2> QED
    BY <2>2, <2>3
<1>3. ASSUME NEW s, NEW l, HasLB(s, l), lbs'[l].st # "absent" PROVE HasLB(s, l)'
  BY <1>3 DEF CMPAges, HasLB
<1>4. VIPsAtHome'
  <2> SUFFICES ASSUME NEW v \in VipIds
               PROVE  /\ vips'[v].st = "absent" => vips'[v].by = NoOwner
                      /\ vips'[v].st # "absent" => /\ vips'[v].st # "failed"
                                                   /\ vips'[v].by \in Services
                                                   /\ HasLB(vips[v].by, vips[v].lb)'
    BY DEF VIPsAtHome
  <2>1. CASE vips'[v].st = "absent"
    BY <2>1 DEF CMPAges
  <2>2. CASE vips'[v].st # "absent"
    <3>1. PICK s, l : s = vips[v].by /\ l = vips[v].lb
      OBVIOUS
    <3>2. /\ vips[v].st # "absent" /\ vips'[v].st # "failed" /\ vips'[v].by = s
          /\ vips'[v].lb = l /\ (lbs[l].st # "absent" => lbs'[l].st # "absent")
      BY <2>2, <3>1 DEF CMPAges
    <3>3. s \in Services /\ HasLB(s, l)
      BY <3>1, <3>2 DEF AtHome, VIPsAtHome
    <3>4. HasLB(s, l)'
      BY <1>3, <3>2, <3>3 DEF HasLB
    <3> QED
      BY <2>2, <3>2, <3>3, <3>4
  <2> QED
    BY <2>1, <2>2
<1>5. VSsAtHome'
  <2> SUFFICES ASSUME NEW v \in VsIds, vss'[v].st # "absent"
               PROVE  /\ vss'[v].by \in Services /\ HasLB(vss[v].by, vss[v].lb)'
                      /\ Kept(vss[v].by)' => HasVIP(vss[v].by, vss[v].vip)'
    BY DEF VSsAtHome
  <2>1. PICK s, l, x : s = vss[v].by /\ l = vss[v].lb /\ x = vss[v].vip
    OBVIOUS
  <2>2. /\ vss[v].st # "absent" /\ vss'[v].by = s /\ vss'[v].lb = l /\ vss'[v].vip = x
        /\ lbs[l].st # "absent" => lbs'[l].st # "absent"
    BY <2>1 DEF CMPAges
  <2>3. s \in Services /\ HasLB(s, l) /\ (Kept(s) => HasVIP(s, x))
    BY <2>1, <2>2 DEF AtHome, VSsAtHome
  <2>4. HasLB(s, l)'
    BY <1>3, <2>2, <2>3 DEF HasLB
  <2>5. Kept(s)' => HasVIP(s, x)'
    BY <1>1, <2>3 DEF KeptShrinks
  <2> QED
    BY <2>2, <2>3, <2>4, <2>5
<1>6. ASSUME NEW s \in Services, NEW l \in LbIds \cup {NoId}, OwnLB(s, l) PROVE OwnLB(s, l)'
  BY <1>6 DEF CMPAges, OwnLB
<1>7. ASSUME NEW s \in Services, NEW v \in VipIds \cup {NoId}, OwnVIP(s, v) PROVE OwnVIP(s, v)'
  BY <1>7 DEF CMPAges, OwnVIP
<1>8. ASSUME NEW s, NEW P, NoListenerOn(s, P) PROVE NoListenerOn(s, P)'
  BY <1>8 DEF CMPAges, NoListenerOn
<1> QED
  BY <1>1, <1>2, <1>4, <1>5, <1>6, <1>7, <1>8 DEF AtHome

(* Users take annotations away at most, and only with the object.            *)
ObjectsAge ==
    /\ \A s \in Services : obj'[s].del \/ obj'[s].there
    /\ \A s \in Services : ann'[s] \in {ann[s], NoAnnotations}

(* Ids of annotations that stay, or of none.                                 *)
LEMMA RecordsAge ==
    ASSUME TypeOK, AtHome, RecordsHold, KeptShrinks, CMPAges, ObjectsAge
    PROVE  RecordsHold'
<1> SUFFICES ASSUME NEW s \in Services
             PROVE  OwnIds(s, ann[s])' /\ (Kept(s)' => Holds(s, ann[s])')
  BY DEF RecordsHold, ObjectsAge
<1>1. PICK a : a = ann'[s]
  OBVIOUS
<1>2. CASE a = NoAnnotations
  <2>1. a.lb = NoId /\ a.vip = NoId /\ a.graph.vip = NoId /\ a.graph.legacyVip = NoId
        /\ \A p \in Ports : a.graph.vs[p] = NoListener
    BY <1>2 DEF NoAnnotations, NoGraph
  <2>2. OwnIds(s, a)' /\ Holds(s, a)'
    BY <2>1 DEF OwnIds, OwnLB, OwnVIP, Holds
  <2> QED
    BY <1>1, <2>2 DEF OwnIds, OwnLB, OwnVIP, Holds, HasLB, HasVIP
<1>3. CASE a = ann[s]
  <2>1. /\ a.lb \in LbIds \cup {NoId} /\ a.vip \in VipIds \cup {NoId}
        /\ a.graph.vip \in VipIds \cup {NoId} /\ a.graph.legacyVip \in VipIds \cup {NoId}
    BY <1>3 DEF TypeOK, Annotations, Graph
  <2>2. OwnIds(s, a) /\ (Kept(s) => Holds(s, a))
    BY <1>3 DEF RecordsHold
  <2>3. OwnLB(s, a.lb)' /\ OwnVIP(s, a.graph.vip)' /\ OwnVIP(s, a.graph.legacyVip)' /\ OwnVIP(s, a.vip)'
    BY <2>1, <2>2, AgesHome DEF OwnIds
  <2>4. Kept(s)' => (a.lb # NoId => HasLB(s, a.lb)') /\ (a.vip # NoId => HasVIP(s, a.vip)')
    BY <2>2, AgesHome DEF Holds, KeptShrinks
  <2> QED
    BY <1>1, <2>2, <2>3, <2>4 DEF OwnIds, OwnLB, OwnVIP, Holds, HasLB, HasVIP, KeptShrinks
<1> QED
  BY <1>1, <1>2, <1>3 DEF ObjectsAge

(* The worker stands still, or its pass is over.                             *)
LEMMA StayHome ==
    ASSUME BridgeInv, HomeInv, KeptShrinks, CMPAges, ObjectsAge, pc' = "idle" \/ UNCHANGED <<pc, w>>
    PROVE  HomeInv'
<1>1. TypeOK /\ AtHome /\ RecordsHold /\ HandAt(pc, w) /\ PassInv
  BY DEF BridgeInv, HomeInv
<1>2. AtHome' /\ RecordsHold'
  BY <1>1, AgesHome, RecordsAge
<1>3. CASE pc' = "idle"
  <2>1. HandAt(pc, w)'
    BY <1>3 DEF HandAt, EnsurePCs, CleanupPCs
  <2> QED
    BY <1>2, <2>1 DEF HomeInv
<1>4. CASE UNCHANGED <<pc, w>> /\ pc # "idle"
  <2>1. /\ w.svc \in Services /\ w.base.lb \in LbIds \cup {NoId} /\ w.base.vip \in VipIds \cup {NoId}
        /\ w.base.graph.vip \in VipIds \cup {NoId} /\ w.base.graph.legacyVip \in VipIds \cup {NoId}
        /\ w.graph.vip \in VipIds \cup {NoId} /\ w.graph.legacyVip \in VipIds \cup {NoId}
    BY <1>1, <1>4 DEF TypeOK, Work, Annotations, Graph
  <2>2. /\ OwnLB(w.svc, w.base.lb) /\ OwnVIP(w.svc, w.base.graph.vip)
        /\ OwnVIP(w.svc, w.base.graph.legacyVip) /\ OwnVIP(w.svc, w.base.vip)
        /\ OwnVIP(w.svc, w.graph.vip) /\ OwnVIP(w.svc, w.graph.legacyVip)
    BY <1>1, <1>4 DEF HandAt, OwnIds
  <2>3. PICK s, b, g : s = w.svc /\ b = w.base /\ g = w.graph
    OBVIOUS
  <2>4. /\ OwnLB(s, b.lb)' /\ OwnVIP(s, b.graph.vip)' /\ OwnVIP(s, b.graph.legacyVip)'
        /\ OwnVIP(s, b.vip)' /\ OwnVIP(s, g.vip)' /\ OwnVIP(s, g.legacyVip)'
    BY <1>1, <2>1, <2>2, <2>3, AgesHome
  <2>5. /\ OwnIds(w.svc, w.base)'
        /\ OwnVIP(w.svc, w.graph.vip)' /\ OwnVIP(w.svc, w.graph.legacyVip)'
    BY <1>4, <2>3, <2>4 DEF OwnIds, OwnLB, OwnVIP
  <2>6. pc' \in CleanupPCs => obj'[w'.svc].del
    BY <1>1, <1>4, <2>1 DEF HandAt, KeptShrinks
  <2>7. ASSUME pc \in EnsurePCs
        PROVE  EnsureAt(pc, w)'
    <3>1. PICK work : work = w
      OBVIOUS
    <3>2. Kept(s)' /\ EnsureAt(pc, work) /\ s = work.svc /\ s \in Services
      BY <1>1, <1>4, <2>1, <2>3, <2>7, <3>1 DEF HandAt, Kept, Ensuring
    <3>3. /\ \A l : HasLB(s, l) => HasLB(s, l)'
          /\ \A v : HasVIP(s, v) => HasVIP(s, v)'
          /\ \A P : NoListenerOn(s, P) => NoListenerOn(s, P)'
      BY <1>1, <3>2, AgesHome
    <3>4. Holds(s, work.base)'
      BY <3>2, <3>3 DEF EnsureAt, Holds
    <3>5. pc = "vs-delete" => work.vs \in VsIds
      BY <1>1, <3>1 DEF PassInv
    <3>6. pc = "vs-delete" /\ work.base.vip = NoId => ~Healthy(vss'[work.vs].st)
      <4>1. \A v \in VsIds : ~Healthy(vss[v].st) => ~Healthy(vss'[v].st)
        BY DEF CMPAges, Healthy
      <4> QED
        BY <3>2, <3>5, <4>1 DEF EnsureAt
    <3>7. EnsureAt(pc, work)'
      BY <1>4, <3>2, <3>3, <3>4, <3>6 DEF EnsureAt
    <3> QED
      BY <1>4, <3>1, <3>7 DEF EnsureAt, Holds, HasLB, HasVIP, NoListenerOn
  <2>8. HandAt(pc, w)'
    BY <1>4, <2>5, <2>6, <2>7 DEF HandAt
  <2> QED
    BY <1>2, <2>8 DEF HomeInv
<1>5. CASE UNCHANGED <<pc, w>> /\ pc = "idle"
  BY <1>3, <1>5
<1> QED
  BY <1>3, <1>4, <1>5

(* Nothing at CMP changes.                                                   *)
LEMMA SameAges == ASSUME AtHome, KeptShrinks, UNCHANGED <<lbs, vips, vss>>, TypeOK PROVE CMPAges
<1>1. \A s \in Services : Kept(s)' => \A l \in LbIds : HasLB(s, l) => lbs[l].st \notin {"absent", "deleting"}
  BY DEF AtHome, LBsAtHome, HasLB, KeptShrinks
<1>2. \A s \in Services : \A v \in VipIds : HasVIP(s, v) => vips[v].st # "absent"
  BY DEF HasVIP
<1>3. \A v \in VipIds : \/ vips[v].st = "absent" /\ vips[v].by = NoOwner
                        \/ vips[v].st \in {"pending", "active"}
  BY DEF AtHome, VIPsAtHome, TypeOK, CMPTypeOK, VIPRecord
<1>4. \A l \in LbIds : lbs[l].st # "absent" => lbs[l].st \in {"pending", "ready", "deleting"}
  BY DEF AtHome, LBsAtHome
<1> QED
  BY <1>1, <1>2, <1>3, <1>4 DEF CMPAges

(* A Service changes, is deleted or is only looked at.                       *)
LEMMA UserHome ==
    ASSUME BridgeInv, HomeInv, ~StaleReads, NEW s \in Services,
           \/ ChangeType(s) \/ SeedChangePort(s) \/ ChangeBackends(s) \/ DeleteService(s)
           \/ InformerSync(s) \/ Resync(s) \/ SeedIgnore(s)
    PROVE  HomeInv' /\ KeptShrinks
<1>1. TypeOK /\ AtHome /\ \A t \in Services : obj[t].del \/ obj[t].there
  BY DEF BridgeInv, HomeInv, RecordsHold
<1>2. UNCHANGED <<pc, w, lbs, vips, vss>>
  BY DEF ChangeType, SeedChangePort, ChangeBackends, DeleteService, UserChange, InformerSync, Resync,
         SeedIgnore
<1>3. ASSUME \A t \in Services : (obj[t].del => obj'[t].del) /\ (obj'[t].del \/ obj'[t].there),
             \A t \in Services : ann'[t] \in {ann[t], NoAnnotations}
      PROVE  HomeInv' /\ KeptShrinks
  <2>1. KeptShrinks
    BY <1>2, <1>3 DEF KeptShrinks, Kept, Ensuring
  <2>2. CMPAges /\ ObjectsAge
    BY <1>1, <1>2, <1>3, <2>1, SameAges DEF ObjectsAge
  <2> QED
    BY <1>2, <2>1, <2>2, StayHome
<1>4. CASE InformerSync(s) \/ Resync(s) \/ SeedIgnore(s)
  BY <1>1, <1>3, <1>4 DEF InformerSync, Resync, SeedIgnore
<1>5. ASSUME NEW o, UserChange(s, o), o.del = obj[s].del, o.there = obj[s].there, UNCHANGED ann
      PROVE  HomeInv' /\ KeptShrinks
  <2>1. \A t \in Services : obj'[t].del = obj[t].del /\ obj'[t].there = obj[t].there
    BY <1>1, <1>5 DEF UserChange, TypeOK
  <2> QED
    BY <1>1, <1>3, <1>5, <2>1
<1>6. obj[s] \in Object
  BY <1>1 DEF TypeOK
<1>7. CASE ChangeType(s)
  <2>1. PICK o : o = [obj[s] EXCEPT !.eligible = ~@]
    OBVIOUS
  <2>2. o.del = obj[s].del /\ o.there = obj[s].there
    BY <1>6, <2>1 DEF Object
  <2> QED
    BY <1>5, <1>7, <2>1, <2>2 DEF ChangeType
<1>8. CASE SeedChangePort(s)
  <2>1. PICK p : UserChange(s, [obj[s] EXCEPT !.ports = {p}])
    BY <1>8 DEF SeedChangePort
  <2>2. PICK o : o = [obj[s] EXCEPT !.ports = {p}]
    OBVIOUS
  <2>3. o.del = obj[s].del /\ o.there = obj[s].there
    BY <1>6, <2>2 DEF Object
  <2> QED
    BY <1>5, <1>8, <2>1, <2>2, <2>3 DEF SeedChangePort
<1>9. CASE ChangeBackends(s)
  <2>1. PICK h : UserChange(s, [obj[s] EXCEPT !.hash = h])
    BY <1>9 DEF ChangeBackends
  <2>2. PICK o : o = [obj[s] EXCEPT !.hash = h]
    OBVIOUS
  <2>3. o.del = obj[s].del /\ o.there = obj[s].there
    BY <1>6, <2>2 DEF Object
  <2> QED
    BY <1>5, <1>9, <2>1, <2>2, <2>3 DEF ChangeBackends
<1>10. CASE DeleteService(s)
  <2>1. PICK o : o = [obj[s] EXCEPT !.del = TRUE, !.there = obj[s].fin]
    OBVIOUS
  <2>2. o.del /\ obj' = [obj EXCEPT ![s] = o]
    BY <1>6, <1>10, <2>1 DEF DeleteService, UserChange, Object
  <2>3. \A t \in Services : (obj[t].del => obj'[t].del) /\ (obj'[t].del \/ obj'[t].there)
    BY <1>1, <2>2 DEF TypeOK
  <2>4. \A t \in Services : ann'[t] \in {ann[t], NoAnnotations}
    BY <1>1, <1>10 DEF DeleteService, TypeOK
  <2> QED
    BY <1>3, <2>3, <2>4
<1> QED
  BY <1>4, <1>7, <1>8, <1>9, <1>10

(* CMP makes progress, and listeners fail or get lost.                       *)
SeedProvider ==
    \/ Provider \/ (\E l \in LbIds : LBFails(l) \/ LBLost(l))
    \/ (\E v \in VipIds : VIPFails(v) \/ VIPLost(v)) \/ (\E v \in VsIds : VSFails(v) \/ VSLost(v))
LEMMA ProviderHome ==
    ASSUME BridgeInv, UniqueInv, HomeInv, Recoverable, SeedProvider
    PROVE  /\ HomeInv' /\ KeptShrinks /\ CMPAges /\ UNCHANGED <<obj, pc, w, ann>>
           /\ \A v \in VsIds : \/ vss'[v].st = vss[v].st
                               \/ Healthy(vss[v].st) /\ Healthy(vss'[v].st)
                               \/ vss[v].st = "deleting" \/ faults' = faults + 1
                               \/ ~Kept(vss[v].by)
           /\ faults' \in {faults, faults + 1}
<1>1. TypeOK /\ AtHome /\ (\A t \in Services : obj[t].del \/ obj[t].there)
      /\ (\A l \in LbIds : lbs[l].st # "hidden") /\ \A v \in VsIds : vss[v].st # "hidden"
  BY DEF BridgeInv, HomeInv, RecordsHold, UniqueInv, LookInv
<1>2. UNCHANGED <<obj, ann, pc, w>>
  BY DEF SeedProvider, Provider, UnchangedBridge, LBSettles, LBDeleted, VIPSettles, VSSettles, VSDeleted,
         LBFails, LBLost, VIPFails, VIPLost, VSFails, VSLost
<1>3. KeptShrinks /\ ObjectsAge
  BY <1>1, <1>2 DEF KeptShrinks, Kept, Ensuring, ObjectsAge
<1>4. \A l \in LbIds : /\ lbs[l] \in LBRecord
                       /\ lbs[l].st # "absent" =>
                             /\ lbs[l].name \in Services /\ lbs[l].st \in {"pending", "ready", "deleting"}
                             /\ Kept(lbs[l].name) => lbs[l].st # "deleting"
  BY <1>1 DEF AtHome, LBsAtHome, TypeOK, CMPTypeOK
<1>5. \A v \in VipIds : /\ vips[v] \in VIPRecord
                        /\ vips[v].st = "absent" => vips[v].by = NoOwner
                        /\ vips[v].st # "absent" => /\ vips[v].st # "failed" /\ vips[v].by \in Services
                                                    /\ HasLB(vips[v].by, vips[v].lb)
  BY <1>1 DEF AtHome, VIPsAtHome, TypeOK, CMPTypeOK
<1>6. \A v \in VsIds : /\ vss[v] \in VSRecord
                       /\ vss[v].st # "absent" => /\ vss[v].by \in Services
                                                  /\ HasLB(vss[v].by, vss[v].lb)
  BY <1>1 DEF AtHome, VSsAtHome, TypeOK, CMPTypeOK
<1>7. \A s \in Services : Kept(s)' => Kept(s)
  BY <1>3 DEF KeptShrinks
<1>8. ASSUME CMPAges PROVE HomeInv'
  BY <1>2, <1>3, <1>8, StayHome
<1>9. CASE \E l \in LbIds : LBSettles(l)
  <2>1. PICK l \in LbIds : LBSettles(l)
    BY <1>9
  <2>2. /\ lbs[l].st = "pending" /\ lbs' = [lbs EXCEPT ![l].st = "ready"]
        /\ UNCHANGED <<vips, vss, faults>>
    BY <1>1, <2>1 DEF LBSettles, LBBecomes
  <2>3. \A m \in LbIds : /\ lbs'[m].name = lbs[m].name
                          /\ \/ lbs'[m].st = lbs[m].st
                             \/ lbs[m].st = "pending" /\ lbs'[m].st = "ready"
    <3>1. PICK r : r = [lbs[l] EXCEPT !.st = "ready"]
      OBVIOUS
    <3>2. r.name = lbs[l].name /\ r.st = "ready" /\ lbs[l].st = "pending"
      BY <1>4, <2>2, <3>1 DEF LBRecord
    <3>3. lbs'[l] = r /\ \A m \in LbIds : m # l => lbs'[m] = lbs[m]
      BY <1>1, <2>2, <3>1 DEF TypeOK, CMPTypeOK
    <3> QED
      BY <3>2, <3>3
  <2>4. CMPAges
    <3>1. \A s \in Services : Kept(s)' => \A m \in LbIds : HasLB(s, m) => lbs'[m].st \notin {"absent", "deleting"}
      BY <1>4, <1>7, <2>3 DEF HasLB
    <3>2. \A s \in Services : \A v \in VipIds : HasVIP(s, v) => vips'[v].st # "absent"
      BY <2>2 DEF HasVIP
    <3>3. \A m \in LbIds : lbs'[m].st # "absent" => /\ lbs[m].st # "absent"
                                                    /\ lbs'[m].st \in {"pending", "ready", "deleting"}
      BY <1>4, <2>3
    <3>4. \A v \in VipIds : vips'[v].st # "absent" =>
             vips[v].st \in {"pending", "active"} /\ (lbs[vips[v].lb].st # "absent" => lbs'[vips[v].lb].st # "absent")
      BY <1>5, <2>2, <2>3 DEF VIPRecord, HasLB
    <3>5. \A v \in VsIds : vss'[v].st # "absent" => (lbs[vss[v].lb].st # "absent" => lbs'[vss[v].lb].st # "absent")
      BY <1>6, <2>2, <2>3 DEF HasLB
    <3> QED
      BY <1>5, <2>2, <2>3, <3>1, <3>2, <3>3, <3>4, <3>5 DEF CMPAges
  <2> QED
    BY <1>2, <1>3, <1>8, <2>2, <2>4
<1>10. CASE \E l \in LbIds : LBDeleted(l)
  <2>1. PICK l \in LbIds : LBDeleted(l)
    BY <1>10
  <2>2. lbs[l].st = "deleting" /\ LBGone(l) /\ UNCHANGED faults
    BY <2>1 DEF LBDeleted
  <2>3. /\ lbs'[l].st = "absent" /\ \A m \in LbIds : m # l => lbs'[m] = lbs[m]
        /\ \A v \in VipIds : vips'[v] = IF vips[v].lb = l THEN NoVIP ELSE vips[v]
        /\ \A v \in VsIds : vss'[v] = IF vss[v].lb = l THEN NoVS ELSE vss[v]
    BY <1>1, <2>2 DEF LBGone, NoLB, TypeOK, CMPTypeOK
  <2>4. ~Kept(lbs[l].name)
    BY <1>4, <2>2
  <2>5. CMPAges
    <3>1. \A s \in Services : Kept(s) => \A m \in LbIds : HasLB(s, m) => m # l
      BY <2>4 DEF HasLB
    <3>2. \A s \in Services : Kept(s)' => \A m \in LbIds : HasLB(s, m) => lbs'[m].st \notin {"absent", "deleting"}
      BY <1>4, <1>7, <2>3, <3>1 DEF HasLB
    <3>3. \A s \in Services : Kept(s)' => \A v \in VipIds : HasVIP(s, v) => vips'[v].st # "absent"
      BY <1>5, <1>7, <2>3, <3>1 DEF HasVIP, HasLB
    <3>4. \A m \in LbIds : lbs'[m].st # "absent" =>
             /\ lbs[m].st # "absent" /\ lbs'[m].name = lbs[m].name
             /\ lbs'[m].st \in {"pending", "ready", "deleting"}
      BY <1>4, <2>3
    <3>5. \A v \in VipIds :
             \/ vips'[v].st = "absent" /\ vips'[v].by = NoOwner
             \/ /\ vips[v].st # "absent" /\ vips'[v].st \in {"pending", "active"}
                /\ vips'[v].by = vips[v].by /\ vips'[v].lb = vips[v].lb
                /\ lbs[vips[v].lb].st # "absent" => lbs'[vips[v].lb].st # "absent"
      BY <1>5, <2>3 DEF VIPRecord, HasLB, NoVIP
    <3>6. \A v \in VsIds : vss'[v].st # "absent" =>
             vss'[v] = vss[v] /\ (lbs[vss[v].lb].st # "absent" => lbs'[vss[v].lb].st # "absent")
      BY <1>6, <2>3 DEF HasLB, NoVS
    <3> QED
      BY <3>2, <3>3, <3>4, <3>5, <3>6 DEF CMPAges
  <2>6. \A v \in VsIds : vss'[v].st = vss[v].st \/ ~Kept(vss[v].by)
    BY <1>6, <2>3, <2>4 DEF HasLB, NoVS
  <2> QED
    BY <1>2, <1>3, <1>8, <2>2, <2>5, <2>6
<1>11. CASE \E v \in VipIds : VIPSettles(v)
  <2>1. PICK v \in VipIds : VIPSettles(v)
    BY <1>11
  <2>2. /\ vips[v].st = "pending" /\ vips' = [vips EXCEPT ![v].st = "active"]
        /\ UNCHANGED <<lbs, vss, faults>>
    BY <2>1 DEF VIPSettles, VIPBecomes
  <2>3. \A x \in VipIds : /\ vips'[x].by = vips[x].by /\ vips'[x].lb = vips[x].lb
                          /\ \/ vips'[x].st = vips[x].st
                             \/ vips[x].st = "pending" /\ vips'[x].st = "active"
    <3>1. PICK r : r = [vips[v] EXCEPT !.st = "active"]
      OBVIOUS
    <3>2. r.by = vips[v].by /\ r.lb = vips[v].lb /\ r.st = "active" /\ vips[v].st = "pending"
      BY <1>5, <2>2, <3>1 DEF VIPRecord
    <3>3. vips'[v] = r /\ \A x \in VipIds : x # v => vips'[x] = vips[x]
      BY <1>1, <2>2, <3>1 DEF TypeOK, CMPTypeOK
    <3> QED
      BY <3>2, <3>3
  <2>4. CMPAges
    <3>1. \A s \in Services : Kept(s)' => \A m \in LbIds : HasLB(s, m) => lbs'[m].st \notin {"absent", "deleting"}
      BY <1>4, <1>7, <2>2 DEF HasLB
    <3>2. \A s \in Services : \A x \in VipIds : HasVIP(s, x) => vips'[x].st # "absent"
      BY <2>3 DEF HasVIP
    <3>3. \A x \in VipIds :
             \/ vips'[x].st = "absent" /\ vips'[x].by = NoOwner
             \/ vips[x].st # "absent" /\ vips'[x].st \in {"pending", "active"}
      BY <1>5, <2>3 DEF VIPRecord
    <3> QED
      BY <1>4, <2>2, <2>3, <3>1, <3>2, <3>3 DEF CMPAges
  <2> QED
    BY <1>2, <1>3, <1>8, <2>2, <2>4
<1>12. ASSUME NEW v \in VsIds, vss[v].st # "absent", UNCHANGED <<lbs, vips>>,
              \/ vss' = [vss EXCEPT ![v] = NoVS]
              \/ \E st \in {"ready", "failed", "deleting"} :
                    /\ vss' = [vss EXCEPT ![v].st = st]
                    /\ Healthy(st) => Healthy(vss[v].st)
       PROVE CMPAges /\ \A x \in VsIds : x # v => vss'[x] = vss[x]
  <2>1. \A x \in VsIds : x # v => vss'[x] = vss[x]
    BY <1>1, <1>12 DEF TypeOK, CMPTypeOK
  <2>2. vss'[v].st # "absent" =>
             /\ Healthy(vss'[v].st) => Healthy(vss[v].st)
             /\ vss'[v].by = vss[v].by /\ vss'[v].lb = vss[v].lb
             /\ vss'[v].vip = vss[v].vip /\ vss'[v].port = vss[v].port
    <3>1. CASE vss' = [vss EXCEPT ![v] = NoVS]
      BY <1>1, <3>1 DEF TypeOK, CMPTypeOK, NoVS
    <3>2. ASSUME NEW st \in {"ready", "failed", "deleting"}, vss' = [vss EXCEPT ![v].st = st],
                 Healthy(st) => Healthy(vss[v].st)
          PROVE  /\ Healthy(vss'[v].st) => Healthy(vss[v].st)
                 /\ vss'[v].by = vss[v].by /\ vss'[v].lb = vss[v].lb
                 /\ vss'[v].vip = vss[v].vip /\ vss'[v].port = vss[v].port
      BY <1>1, <1>6, <3>2 DEF TypeOK, CMPTypeOK, VSRecord
    <3> QED
      BY <1>12, <3>1, <3>2
  <2>3. \A s \in Services : Kept(s)' => \A m \in LbIds : HasLB(s, m) => lbs'[m].st \notin {"absent", "deleting"}
    BY <1>4, <1>7, <1>12 DEF HasLB
  <2>4. \A s \in Services : \A x \in VipIds : HasVIP(s, x) => vips'[x].st # "absent"
    BY <1>12 DEF HasVIP
  <2>5. \A x \in VipIds : \/ vips[x].st = "absent" /\ vips[x].by = NoOwner
                          \/ vips[x].st \in {"pending", "active"}
    BY <1>5 DEF VIPRecord
  <2>6. \A x \in VsIds : vss'[x].st # "absent" =>
             /\ vss[x].st # "absent"
             /\ Healthy(vss'[x].st) => Healthy(vss[x].st)
             /\ vss'[x].by = vss[x].by /\ vss'[x].lb = vss[x].lb
             /\ vss'[x].vip = vss[x].vip /\ vss'[x].port = vss[x].port
    BY <1>12, <2>1, <2>2
  <2> QED
    BY <1>4, <1>12, <2>1, <2>3, <2>4, <2>5, <2>6 DEF CMPAges
<1>13. CASE \E v \in VsIds : VSSettles(v)
  <2>1. PICK v \in VsIds : VSSettles(v)
    BY <1>13
  <2>2. /\ vss[v].st = "pending" /\ vss' = [vss EXCEPT ![v].st = "ready"]
        /\ UNCHANGED <<lbs, vips, faults>>
    BY <1>1, <2>1 DEF VSSettles, VSBecomes
  <2>3. vss'[v].st = "ready"
    BY <1>1, <2>2 DEF TypeOK, CMPTypeOK
  <2>4. CMPAges /\ \A x \in VsIds : x # v => vss'[x] = vss[x]
    BY <1>12, <2>2 DEF Healthy
  <2> QED
    BY <1>2, <1>3, <1>8, <2>2, <2>3, <2>4 DEF Healthy
<1>14. CASE \E v \in VsIds : VSDeleted(v)
  <2>1. PICK v \in VsIds : VSDeleted(v)
    BY <1>14
  <2>2. /\ vss[v].st = "deleting" /\ vss' = [vss EXCEPT ![v] = NoVS] /\ UNCHANGED <<lbs, vips, faults>>
    BY <2>1 DEF VSDeleted, VSGone
  <2>3. CMPAges /\ \A x \in VsIds : x # v => vss'[x] = vss[x]
    BY <1>12, <2>2
  <2> QED
    BY <1>2, <1>3, <1>8, <2>2, <2>3
<1>15. CASE \E v \in VsIds : VSFails(v) \/ VSLost(v)
  <2>1. PICK v \in VsIds : VSFails(v) \/ VSLost(v)
    BY <1>15
  <2>2. faults' = faults + 1 /\ vss[v].st # "absent" /\ UNCHANGED <<lbs, vips>>
    BY <2>1 DEF VSFails, VSLost, Disturb, VSBecomes, VSGone, Live
  <2>3. CASE VSFails(v)
    <3>1. vss' = [vss EXCEPT ![v].st = "failed"]
      BY <2>3 DEF VSFails, VSBecomes
    <3>2. CMPAges
      BY <1>12, <2>2, <3>1 DEF Healthy
    <3> QED
      BY <1>2, <1>3, <1>8, <2>2, <3>2
  <2>4. CASE VSLost(v)
    <3>1. vss' = [vss EXCEPT ![v] = NoVS]
      BY <2>4 DEF VSLost, VSGone
    <3>2. CMPAges
      BY <1>12, <2>2, <3>1
    <3> QED
      BY <1>2, <1>3, <1>8, <2>2, <3>2
  <2> QED
    BY <2>1, <2>3, <2>4
<1>16. CASE (\E l \in LbIds : LBFails(l) \/ LBLost(l)) \/ (\E v \in VipIds : VIPFails(v) \/ VIPLost(v))
  <2>1. {"lb-fails", "lb-lost", "vip-fails", "vip-lost"} \cap Faults # {}
    BY <1>16 DEF LBFails, LBLost, VIPFails, VIPLost, Disturb
  <2> QED
    BY <2>1 DEF Recoverable
<1> QED
  BY <1>9, <1>10, <1>11, <1>13, <1>14, <1>15, <1>16 DEF SeedProvider, Provider

(* A pass begins.                                                            *)
LEMMA BeginHome ==
    ASSUME TypeOK, HomeInv, ~StaleReads, NEW s \in Services, SeedBeginEnsure(s) \/ SeedBeginCleanup(s)
    PROVE  HomeInv' /\ KeptShrinks
<1>1. /\ View(s).obj = obj[s] /\ View(s).ann = ann[s] /\ ann[s] \in Annotations
      /\ OwnIds(s, ann[s]) /\ (~obj[s].del => Holds(s, ann[s]))
  BY DEF View, TypeOK, HomeInv, RecordsHold, Kept
<1>2. pc = "idle" /\ UNCHANGED <<obj, ann, lbs, vips, vss>>
  BY DEF SeedBeginEnsure, SeedBeginCleanup, Dequeue
<1>3. ASSUME KeptShrinks, HandAt(pc', w') PROVE HomeInv'
  <2>1. AtHome' /\ RecordsHold'
    BY <1>2, <1>3, SameHome DEF HomeInv, RecordsHold
  <2>2. HandAt(pc, w)'
    BY <1>2, <1>3 DEF HandAt, EnsureAt, OwnIds, OwnLB, OwnVIP, Holds, HasLB, HasVIP, NoListenerOn
  <2> QED
    BY <2>1, <2>2 DEF HomeInv
<1>4. CASE SeedBeginEnsure(s)
  <2>1. ~obj[s].del /\ pc' \in {"load", "finalizer"}
    BY <1>1, <1>4 DEF SeedBeginEnsure, Managed
  <2>2. w'.svc = s /\ w'.base = ann[s] /\ w'.graph = NoGraph /\ w'.vip = NoId
    BY <1>1, <1>4 DEF SeedBeginEnsure, IdleWork
  <2>3. {"load", "finalizer"} \cap ({"idle"} \cup CleanupPCs \cup WithLBPCs \cup LoadedPCs \cup LeadPCs
           \cup ServePCs \cup {"lb-delete", "vip-delete", "bump", "vip", "vip-create", "vs-delete"}) = {}
    BY DEF CleanupPCs, WithLBPCs, SettledPCs, LoadedPCs, LeadPCs, ServePCs
  <2>4. KeptShrinks
    BY <1>2, <2>1, <2>2 DEF KeptShrinks, Kept, Ensuring
  <2>5. NoGraph.vip = NoId /\ NoGraph.legacyVip = NoId
    BY DEF NoGraph
  <2>6. HandAt(pc', w')
    BY <1>1, <2>1, <2>2, <2>3, <2>5 DEF HandAt, EnsureAt, OwnVIP
  <2> QED
    BY <1>3, <2>4, <2>6
<1>5. CASE SeedBeginCleanup(s)
  <2> DEFINE a == ann[s]
             g == EnsureGraph(a.graph, a.lb, a.vip)
  <2>1. obj[s].del /\ pc' \in CleanupPCs /\ pc' \notin EnsurePCs /\ pc' # "idle"
    BY <1>1, <1>5 DEF SeedBeginCleanup, SeedDeleting, CleanupPCs, EnsurePCs
  <2>2. w'.svc = s /\ w'.base = a /\ w'.graph = g
    <3>1. PICK l : w' = [IdleWork EXCEPT !.svc = s, !.base = a, !.graph = g, !.deleteVIP = TRUE,
                                         !.deleteLB = TRUE, !.lb = l]
      BY <1>1, <1>5 DEF SeedBeginCleanup
    <3> QED
      BY <3>1 DEF IdleWork
  <2>3. g.vip = a.graph.vip /\ g.legacyVip \in {a.graph.legacyVip, a.vip}
    BY <1>1 DEF EnsureGraph, Annotations, Graph
  <2>4. KeptShrinks
    BY <1>2, <2>1 DEF KeptShrinks, Kept, Ensuring
  <2>5. OwnIds(s, a) /\ OwnVIP(s, g.vip) /\ OwnVIP(s, g.legacyVip)
    BY <1>1, <2>3 DEF OwnIds
  <2> HIDE DEF g
  <2>6. HandAt(pc', w')
    BY <2>1, <2>2, <2>5 DEF HandAt
  <2> QED
    BY <1>3, <2>4, <2>6
<1> QED
  BY <1>4, <1>5

(* The first calls of a pass that ensures.                                   *)
LEMMA LoadHome ==
    ASSUME TypeOK, HomeInv, EnsureFinalizer \/ SeedLoad
    PROVE  HomeInv' /\ KeptShrinks
<1>1. w.svc \in Services /\ w \in Work /\ pc \in EnsurePCs /\ EnsureAt(pc, w) /\ HandAt(pc, w) /\ pc # "idle"
  BY DEF TypeOK, EnsureFinalizer, SeedLoad, HomeInv, HandAt, EnsurePCs
<1>2. CASE EnsureFinalizer
  <2>1. /\ obj[w.svc].there /\ pc' = "load" /\ w' = [w EXCEPT !.base = ann[w.svc]]
        /\ UNCHANGED <<ann, lbs, vips, vss>>
    BY <1>2 DEF EnsureFinalizer
  <2>2. \A t \in Services : obj'[t].del = obj[t].del /\ obj'[t].there = obj[t].there
    BY <1>1, <1>2 DEF EnsureFinalizer, TypeOK, Object
  <2>3. w'.svc = w.svc /\ w'.base = ann[w.svc] /\ w'.graph = w.graph
    BY <1>1, <2>1 DEF Work
  <2>4. OwnIds(w.svc, ann[w.svc]) /\ Holds(w.svc, ann[w.svc])
    BY <1>1 DEF HomeInv, RecordsHold, Kept, Ensuring
  <2>5. KeptShrinks
    BY <1>1, <2>2, <2>3 DEF KeptShrinks, Kept, Ensuring
  <2>6. AtHome' /\ RecordsHold'
    BY <2>1, <2>2, <2>5, SameHome DEF HomeInv, RecordsHold
  <2>7. {"load"} \cap ({"idle"} \cup CleanupPCs \cup WithLBPCs \cup LoadedPCs \cup LeadPCs
           \cup ServePCs \cup {"lb-delete", "vip-delete", "bump", "vip", "vip-create", "vs-delete"}) = {}
    BY DEF CleanupPCs, WithLBPCs, SettledPCs, LoadedPCs, LeadPCs, ServePCs
  <2>8. HandAt(pc', w')
    BY <1>1, <2>1, <2>3, <2>4, <2>7 DEF HandAt, EnsureAt
  <2>9. HandAt(pc, w)'
    BY <2>1, <2>2, <2>7, <2>8 DEF HandAt, EnsureAt, OwnIds, OwnLB, OwnVIP, Holds, HasLB, HasVIP, NoListenerOn
  <2> QED
    BY <2>5, <2>6, <2>9 DEF HomeInv
<1>3. CASE SeedLoad
  <2> DEFINE work == [w EXCEPT !.lb = w.base.lb, !.vip = w.base.vip,
                               !.graph = EnsureGraph(w.base.graph, w.base.lb, w.base.vip)]
             next == IF w.base.lb = NoId THEN "lb-find" ELSE "lb-get"
  <2>1. Continue(next, work) /\ UNCHANGED <<lbs, vips, vss>>
    BY <1>3 DEF SeedLoad
  <2>2. /\ work.svc = w.svc /\ work.base = w.base /\ work.lb = w.base.lb /\ work.vip = w.base.vip
        /\ work.graph = EnsureGraph(w.base.graph, w.base.lb, w.base.vip)
        /\ work.ports = w.ports /\ work.hash = w.hash
    BY <1>1 DEF Work
  <2>3. /\ work.graph.vs = w.base.graph.vs /\ work.graph.vip = w.base.graph.vip
        /\ work.graph.legacyVip \in {w.base.graph.legacyVip, w.base.vip}
    BY <1>1, <2>2 DEF EnsureGraph, Work, Annotations, Graph
  <2>4. Holds(w.svc, w.base) /\ OwnIds(w.svc, w.base) /\ w.ports \subseteq Ports
    BY <1>1 DEF EnsureAt, HandAt, Work
  <2>5. next \in {"lb-find", "lb-get"} /\ (next = "lb-get" => w.base.lb # NoId)
    OBVIOUS
  <2>6. /\ {"lb-find", "lb-get"} \subseteq EnsurePCs /\ "lb-find" \notin WithLBPCs
        /\ {"lb-find", "lb-get"} \cap ({"idle"} \cup CleanupPCs \cup ServePCs
              \cup {"lb-delete", "vip-delete", "bump", "vip", "vip-create", "vs-delete"}) = {}
    BY DEF EnsurePCs, CleanupPCs, WithLBPCs, SettledPCs, ServePCs
  <2> HIDE DEF work, next
  <2>7. EnsureAt(next, work)
    BY <2>2, <2>3, <2>4, <2>5, <2>6 DEF EnsureAt, Holds
  <2>8. HandAt(next, work)
    BY <2>2, <2>3, <2>4, <2>5, <2>6, <2>7 DEF HandAt, OwnIds
  <2> QED
    BY <1>1, <2>1, <2>2, <2>5, <2>6, <2>8, ContinueHome
<1> QED
  BY <1>2, <1>3

(* The pass has this in hand after a step that changes CMP.                  *)
LEMMA HandHolds ==
    ASSUME NEW p \in EnsurePCs, NEW work, pc' = p, w' = work, OwnIds(work.svc, work.base)',
           OwnVIP(work.svc, work.graph.vip)', OwnVIP(work.svc, work.graph.legacyVip)',
           EnsureAt(p, work)'
    PROVE  HandAt(pc, w)'
<1>1. p \notin CleanupPCs
  BY DEF EnsurePCs, CleanupPCs
<1>2. OwnIds(w.svc, w.base)' /\ OwnVIP(w.svc, w.graph.vip)' /\ OwnVIP(w.svc, w.graph.legacyVip)'
  BY DEF OwnIds, OwnLB, OwnVIP
<1>3. EnsureAt(pc, w)'
  BY DEF EnsureAt, Holds, HasLB, HasVIP, NoListenerOn
<1> QED
  BY <1>1, <1>2, <1>3 DEF HandAt

(* An id that CMP gives out is named by nobody.                              *)
LEMMA CreateLBHome ==
    ASSUME TypeOK, HomeInv, Recoverable, CreateLB
    PROVE  HomeInv' /\ KeptShrinks
<1>1. PICK l \in LbIds : /\ l \in UnusedLBs /\ LBAccepted(l, w.svc)
                         /\ Continue("lb-check", [w EXCEPT !.lb = l])
  BY DEF CreateLB, Next0
<1>2. PICK st \in Born : lbs' = [lbs EXCEPT ![l] = [st |-> st, name |-> w.svc]]
  BY <1>1 DEF LBAccepted
<1>3. /\ pc = "lb-create" /\ pc \in LeadPCs /\ pc \in EnsurePCs /\ w \in Work /\ w.svc \in Services
      /\ UNCHANGED <<obj, ann, vips, vss>> /\ AtHome /\ RecordsHold /\ HandAt(pc, w) /\ pc # "idle"
  BY <1>1 DEF CreateLB, LeadPCs, EnsurePCs, TypeOK, Continue, HomeInv
<1>4. PICK s : s = w.svc
  OBVIOUS
<1>5. /\ lbs[l].st = "absent" /\ lbs'[l].st \in {"pending", "ready"} /\ lbs'[l].name = s
      /\ \A m \in LbIds : m # l => lbs'[m] = lbs[m]
  BY <1>1, <1>2, <1>4 DEF UnusedLBs, Recoverable, TypeOK, CMPTypeOK
<1>15. PICK work : work = [w EXCEPT !.lb = l]
  OBVIOUS
<1>6. /\ work.svc = w.svc /\ work.base = w.base /\ work.ports = w.ports
      /\ work.hash = w.hash /\ work.vip = w.vip /\ work.graph = w.graph /\ work.lb = l
  BY <1>3, <1>15, OnlyLBChanges
<1>7. pc' = "lb-check" /\ w' = work
  BY <1>1, <1>15 DEF Continue
<1>8. KeptShrinks
  BY <1>3, <1>6, <1>7 DEF KeptShrinks, Kept, Ensuring
<1>9. /\ \A t, m : HasLB(t, m) => m # l /\ HasLB(t, m)'
      /\ \A t, v : HasVIP(t, v)' <=> HasVIP(t, v)
      /\ \A t, P : NoListenerOn(t, P)' <=> NoListenerOn(t, P)
      /\ \A t, v : OwnVIP(t, v)' <=> OwnVIP(t, v)
      /\ \A t, m : m \in LbIds \cup {NoId} /\ m # l /\ OwnLB(t, m) => OwnLB(t, m)'
  BY <1>3, <1>5 DEF HasLB, HasVIP, NoListenerOn, OwnVIP, OwnLB
<1>10. LBsAtHome'
  <2> SUFFICES ASSUME NEW m \in LbIds, lbs'[m].st # "absent"
               PROVE  /\ lbs'[m].name \in Services /\ lbs'[m].st \in {"pending", "ready", "deleting"}
                      /\ Kept(lbs[m].name)' => lbs'[m].st # "deleting"
    BY DEF LBsAtHome
  <2>1. CASE m = l
    BY <1>3, <1>4, <1>5, <2>1
  <2>2. CASE m # l
    <3>1. PICK t : t = lbs[m].name
      OBVIOUS
    <3>2. /\ t \in Services /\ lbs[m].st \in {"pending", "ready", "deleting"} /\ lbs'[m] = lbs[m]
          /\ Kept(t) => lbs[m].st # "deleting"
      BY <1>3, <1>5, <2>2, <3>1 DEF AtHome, LBsAtHome
    <3>3. Kept(t)' => Kept(t)
      BY <1>8, <3>2 DEF KeptShrinks
    <3> QED
      BY <3>1, <3>2, <3>3
  <2> QED
    BY <2>1, <2>2
<1>11. VIPsAtHome' /\ VSsAtHome'
  <2>1. VIPsAtHome'
    BY <1>3, <1>9 DEF AtHome, VIPsAtHome
  <2>2. VSsAtHome'
    BY <1>3, <1>8, <1>9 DEF AtHome, VSsAtHome, KeptShrinks
  <2> QED
    BY <2>1, <2>2
<1>12. ASSUME NEW t, NEW a \in Annotations, OwnIds(t, a), a.lb # l
       PROVE  OwnIds(t, a)' /\ (Holds(t, a) => Holds(t, a)')
  BY <1>9, <1>12 DEF OwnIds, Holds, Annotations
<1>13. RecordsHold'
  <2> SUFFICES ASSUME NEW t \in Services
               PROVE  OwnIds(t, ann[t])' /\ (Kept(t)' => Holds(t, ann[t])')
    BY <1>3 DEF RecordsHold
  <2>1. PICK a : a = ann[t]
    OBVIOUS
  <2>2. a \in Annotations /\ OwnIds(t, a) /\ (Kept(t) => Holds(t, a)) /\ a.lb # l
    BY <1>1, <1>3, <2>1 DEF TypeOK, RecordsHold, UnusedLBs, NamesLB
  <2>3. OwnIds(t, a)' /\ (Kept(t)' => Holds(t, a)')
    BY <1>8, <1>12, <2>2 DEF KeptShrinks
  <2> QED
    BY <1>3, <2>1, <2>3 DEF OwnIds, OwnLB, OwnVIP, Holds, HasLB, HasVIP
<1>14. HandAt(pc, w)'
  <2>1. PICK b : b = w.base
    OBVIOUS
  <2>2. b \in Annotations /\ b.lb # l
    BY <1>1, <1>3, <2>1 DEF Work, UnusedLBs, NamesLB
  <2>3. EnsureAt(pc, w) /\ OwnIds(s, b)
    BY <1>3, <1>4, <2>1 DEF HandAt
  <2>4. OwnIds(s, b)' /\ Holds(s, b)'
    BY <1>4, <1>12, <2>1, <2>2, <2>3 DEF EnsureAt
  <2>5. HasLB(s, l)'
    BY <1>5 DEF HasLB
  <2>6. {"lb-check", "lb-create"} \subseteq LoadedPCs \cap LeadPCs
    BY DEF LoadedPCs, LeadPCs, EnsurePCs
  <2>7. {"lb-check"} \cap ({"idle"} \cup CleanupPCs \cup ServePCs
           \cup {"lb-delete", "vip-delete", "bump", "vip", "vip-create", "vs-delete"}) = {}
    BY DEF CleanupPCs, ServePCs
  <2>8. PICK g : g = w.graph
    OBVIOUS
  <2>9. OwnVIP(s, g.vip)' /\ OwnVIP(s, g.legacyVip)'
    BY <1>3, <1>4, <1>9, <2>8 DEF HandAt
  <2>10. /\ work.svc = s /\ work.base = b /\ work.graph = g /\ work.lb = l /\ work.vip = b.vip
         /\ b.vip = NoId => \A q \in work.ports : g.vs[q] = NoListener \/ g.vs[q].hash = work.hash
         /\ b.vip # NoId => HasVIP(s, b.vip)'
    BY <1>3, <1>4, <1>6, <1>9, <2>1, <2>3, <2>6, <2>8 DEF EnsureAt
  <2>11. EnsureAt("lb-check", work)'
    BY <2>4, <2>5, <2>6, <2>7, <2>10 DEF EnsureAt
  <2>12. "lb-check" \in EnsurePCs
    BY DEF EnsurePCs
  <2> QED
    BY <1>7, <2>4, <2>9, <2>10, <2>11, <2>12, HandHolds
<1> QED
  BY <1>8, <1>10, <1>11, <1>13, <1>14 DEF HomeInv, AtHome

(* What a pass that ensures can rely on.                                     *)
LEMMA EnsureFacts ==
    ASSUME TypeOK, HomeInv, pc \in EnsurePCs
    PROVE  /\ w \in Work /\ w.svc \in Services /\ w.graph \in Graph /\ w.base \in Annotations
           /\ Kept(w.svc) /\ EnsureAt(pc, w) /\ HandAt(pc, w) /\ Holds(w.svc, w.base)
           /\ OwnIds(w.svc, w.base) /\ OwnVIP(w.svc, w.graph.vip) /\ OwnVIP(w.svc, w.graph.legacyVip)
           /\ LBsAtHome /\ VIPsAtHome /\ VSsAtHome /\ pc # "idle" /\ pc \notin CleanupPCs
BY DEF TypeOK, Work, EnsurePCs, CleanupPCs, HomeInv, HandAt, EnsureAt, AtHome, Kept, Ensuring

(* A listener of the Service hangs on the LBService in hand, and is visible  *)
(* there; so does a VIP.                                                     *)
LEMMA OwnListenerHere ==
    ASSUME TypeOK, UniqueInv, HomeInv, pc \in EnsurePCs, HasLB(w.svc, w.lb)
    PROVE  /\ LBVisible(w.lb)
           /\ \A v \in VsIds : vss[v].st # "absent" /\ vss[v].by = w.svc =>
                 /\ v \in ListenersOn(w.lb) /\ HasVIP(w.svc, vss[v].vip)
                 /\ vss[v].port \in Ports => v \in ListenersNamed(w.svc, vss[v].port)
           /\ \A v : HasVIP(w.svc, v) => v \in VIPsUnder(w.lb)
<1>1. /\ w.svc \in Services /\ Kept(w.svc) /\ LBsAtHome /\ VIPsAtHome /\ VSsAtHome /\ OneLB
      /\ \A v \in VsIds : vss[v] \in VSRecord /\ vss[v].st # "hidden"
  BY EnsureFacts DEF UniqueInv, LookInv, TypeOK, CMPTypeOK
<1>2. \A l : HasLB(w.svc, l) => l = w.lb
  <2> SUFFICES ASSUME NEW l, HasLB(w.svc, l) PROVE l = w.lb
    OBVIOUS
  <2> QED
    BY <1>1, OneHome
<1>3. LBVisible(w.lb)
  BY <1>1, OneHome
<1>4. \A v \in VsIds : vss[v].st # "absent" => Visible(vss[v].st)
  BY <1>1 DEF VSRecord, Statuses, Visible
<1>5. ASSUME NEW v \in VsIds, vss[v].st # "absent", vss[v].by = w.svc
      PROVE  /\ v \in ListenersOn(w.lb) /\ HasVIP(w.svc, vss[v].vip)
             /\ vss[v].port \in Ports => v \in ListenersNamed(w.svc, vss[v].port)
  <2>1. HasLB(w.svc, vss[v].lb) /\ HasVIP(w.svc, vss[v].vip)
    BY <1>1, <1>5 DEF VSsAtHome
  <2>2. vss[v].lb = w.lb
    BY <1>2, <2>1
  <2> QED
    BY <1>4, <1>5, <2>1, <2>2 DEF ListenersOn, ListenersNamed
<1>6. ASSUME NEW v, HasVIP(w.svc, v) PROVE v \in VIPsUnder(w.lb)
  <2>1. v \in VipIds /\ vips[v].st # "absent" /\ vips[v].by = w.svc
    BY <1>6 DEF HasVIP
  <2>2. HasLB(w.svc, vips[v].lb)
    BY <1>1, <2>1 DEF VIPsAtHome
  <2> QED
    BY <1>2, <2>1, <2>2 DEF VIPsUnder
<1> QED
  BY <1>3, <1>5, <1>6

(* The VIP is recovered through the listener; without a listener of the      *)
(* Service there is none to recover.                                         *)
LEMMA RecoverHome ==
    ASSUME TypeOK, UniqueInv, HomeInv, RecoverByName
    PROVE  HomeInv' /\ KeptShrinks
<1>1. pc = "recover" /\ pc \in EnsurePCs /\ "vip" \in EnsurePCs /\ UNCHANGED <<lbs, vips, vss>>
      /\ {"recover", "vip"} \subseteq LoadedPCs \cap WithLBPCs /\ "recover" \in LeadPCs
      /\ {"vip"} \cap ({"idle"} \cup CleanupPCs \cup ServePCs \cup LeadPCs
            \cup {"lb-delete", "vip-delete", "bump", "vip-create", "vs-delete"}) = {}
  BY DEF RecoverByName, EnsurePCs, LoadedPCs, WithLBPCs, SettledPCs, LeadPCs, CleanupPCs, ServePCs
<1>2. /\ w \in Work /\ w.svc \in Services /\ w.graph \in Graph /\ EnsureAt(pc, w) /\ HandAt(pc, w)
      /\ Holds(w.svc, w.base) /\ OwnIds(w.svc, w.base)
      /\ OwnVIP(w.svc, w.graph.vip) /\ OwnVIP(w.svc, w.graph.legacyVip)
  BY <1>1, EnsureFacts
<1>3. HasLB(w.svc, w.lb) /\ w.vip = w.base.vip
      /\ (w.vip # NoId => HasVIP(w.svc, w.vip))
      /\ (w.base.vip = NoId => \A q \in w.ports : w.graph.vs[q] = NoListener \/ w.graph.vs[q].hash = w.hash)
  BY <1>1, <1>2 DEF EnsureAt
<1>4. ASSUME NEW work, Continue("vip", work), work.svc = w.svc, work.base = w.base, work.lb = w.lb,
             work.graph.vip = w.graph.vip, work.graph.legacyVip = w.graph.legacyVip,
             work.vip # NoId => HasVIP(w.svc, work.vip),
             work.vip = NoId => w.base.vip = NoId /\ NoListenerOn(w.svc, work.ports),
             w.base.vip = NoId =>
                \A q \in work.ports : work.graph.vs[q] = NoListener \/ work.graph.vs[q].hash = work.hash
      PROVE  HomeInv' /\ KeptShrinks
  <2>1. EnsureAt("vip", work)
    BY <1>1, <1>2, <1>3, <1>4 DEF EnsureAt
  <2>2. HandAt("vip", work)
    BY <1>1, <1>2, <1>4, <2>1 DEF HandAt
  <2> QED
    BY <1>1, <1>4, <2>2, ContinueHome
<1>5. CASE w.vip # NoId /\ Continue("vip", w)
  BY <1>3, <1>4, <1>5
<1>6. CASE w.vip = NoId /\ FoundPorts = {} /\ Continue("vip", w)
  <2>1. NoListenerOn(w.svc, w.ports)
    <3> SUFFICES ASSUME NEW v \in VsIds, vss[v].st # "absent", vss[v].by = w.svc, vss[v].port \in w.ports
                 PROVE  FALSE
      BY DEF NoListenerOn
    <3>1. vss[v].port \in Ports
      BY <1>2 DEF Work
    <3>2. v \in ListenersNamed(w.svc, vss[v].port)
      BY <1>1, <1>3, <3>1, OwnListenerHere
    <3> QED
      BY <1>6, <3>2 DEF FoundPorts
  <2> QED
    BY <1>3, <1>4, <1>6, <2>1
<1>7. ASSUME NEW p \in FoundPorts, NEW v \in ListenersNamed(w.svc, p), w.vip = NoId,
             Continue("vip", [w EXCEPT !.vip = vss[v].vip, !.graph = Recovered])
      PROVE  HomeInv' /\ KeptShrinks
  <2>1. PICK x, g : x = vss[v].vip /\ g = Recovered
    OBVIOUS
  <2> DEFINE work == [w EXCEPT !.vip = x, !.graph = g]
  <2>2. /\ work.svc = w.svc /\ work.base = w.base /\ work.lb = w.lb /\ work.vip = x /\ work.graph = g
        /\ work.ports = w.ports /\ work.hash = w.hash
    BY <1>2 DEF Work
  <2>3. HasVIP(w.svc, x)
    <3>1. v \in VsIds /\ vss[v].st # "absent" /\ vss[v].by = w.svc
      BY DEF ListenersNamed, ListenersOn, Visible
    <3> QED
      BY <1>1, <1>3, <2>1, <3>1, OwnListenerHere
  <2>4. x # NoId
    BY <2>3, IdAssumption DEF HasVIP
  <2>5. /\ g.vip = w.graph.vip /\ g.legacyVip = w.graph.legacyVip
        /\ \A q \in Ports : g.vs[q].hash = w.hash \/ g.vs[q] = w.graph.vs[q]
    BY <1>2, <2>1 DEF Recovered, Graph
  <2>6. w.base.vip = NoId => \A q \in w.ports : g.vs[q] = NoListener \/ g.vs[q].hash = w.hash
    BY <1>2, <1>3, <2>5 DEF Work
  <2>7. Continue("vip", work)
    BY <1>7, <2>1
  <2> HIDE DEF work
  <2> QED
    BY <1>4, <2>2, <2>3, <2>4, <2>5, <2>6, <2>7
<1> QED
  BY <1>1, <1>5, <1>6, <1>7, ReturnHome DEF RecoverByName

(* The VIP in hand is that of the Service: it is used, or waited for.        *)
LEMMA UseHome ==
    ASSUME TypeOK, HomeInv, pc \in {"vip", "vip-create"}, NEW v \in VipIds, NEW addressed
    PROVE  LET work == [w EXCEPT !.vip = v, !.addressed = addressed, !.todo = w.ports,
                                 !.graph = WithVIP(w.graph, v)] IN
           /\ work.svc = w.svc /\ work.base = w.base /\ work.lb = w.lb /\ work.vip = v
           /\ work.ports = w.ports /\ work.hash = w.hash /\ work.todo = w.ports
           /\ work.graph.vip = v /\ work.graph.legacyVip = w.graph.legacyVip
           /\ work.graph.vs = w.graph.vs
<1>1. pc \in EnsurePCs
  BY DEF EnsurePCs
<1>2. w \in Work /\ w.graph \in Graph
  BY <1>1, EnsureFacts
<1>3. PICK g : g = WithVIP(w.graph, v)
  OBVIOUS
<1>4. g.vip = v /\ g.legacyVip = w.graph.legacyVip /\ g.vs = w.graph.vs
  BY <1>2, <1>3 DEF WithVIP, Graph
<1> DEFINE work == [w EXCEPT !.vip = v, !.addressed = addressed, !.todo = w.ports, !.graph = g]
<1>5. /\ work.svc = w.svc /\ work.base = w.base /\ work.lb = w.lb /\ work.vip = v
      /\ work.ports = w.ports /\ work.hash = w.hash /\ work.todo = w.ports /\ work.graph = g
  BY <1>2 DEF Work
<1> QED
  BY <1>3, <1>4, <1>5

LEMMA EnsureVIPHome ==
    ASSUME TypeOK, UniqueInv, HomeInv, EnsureVIP
    PROVE  HomeInv' /\ KeptShrinks
<1>1. /\ pc = "vip" /\ pc \in EnsurePCs /\ UNCHANGED <<lbs, vips, vss>>
      /\ {"vip", "vip-create", "listener"} \subseteq LoadedPCs \cap WithLBPCs \cap EnsurePCs
      /\ {"vip", "vip-create", "listener"} \cap ({"idle"} \cup CleanupPCs \cup LeadPCs
            \cup {"lb-delete", "vip-delete", "bump", "vs-delete"}) = {}
      /\ "vip-create" \notin ServePCs
  BY DEF EnsureVIP, EnsurePCs, LoadedPCs, WithLBPCs, SettledPCs, LeadPCs, CleanupPCs, ServePCs
<1>2. /\ w \in Work /\ w.svc \in Services /\ w.graph \in Graph /\ EnsureAt(pc, w) /\ HandAt(pc, w)
      /\ Holds(w.svc, w.base) /\ OwnIds(w.svc, w.base) /\ VIPsAtHome
      /\ OwnVIP(w.svc, w.graph.vip) /\ OwnVIP(w.svc, w.graph.legacyVip)
  BY <1>1, EnsureFacts
<1>3. /\ HasLB(w.svc, w.lb) /\ (w.vip # NoId => HasVIP(w.svc, w.vip))
      /\ w.vip = NoId => w.base.vip = NoId /\ NoListenerOn(w.svc, w.ports)
      /\ (w.base.vip = NoId => \A q \in w.ports : w.graph.vs[q] = NoListener \/ w.graph.vs[q].hash = w.hash)
  BY <1>1, <1>2 DEF EnsureAt
<1>4. w.vip \in VIPsUnder(w.lb) <=> w.vip # NoId
  <2>1. w.vip # NoId => w.vip \in VIPsUnder(w.lb)
    BY <1>1, <1>3, OwnListenerHere
  <2>2. NoId \notin VIPsUnder(w.lb)
    BY IdAssumption DEF VIPsUnder
  <2> QED
    BY <2>1, <2>2
<1>5. CASE w.vip \in VIPsUnder(w.lb) /\ UseVIP(w.vip, TRUE)
  <2>1. PICK v : v = w.vip
    OBVIOUS
  <2>2. v \in VipIds /\ HasVIP(w.svc, v) /\ v # NoId
    BY <1>3, <1>4, <1>5, <2>1 DEF VIPsUnder
  <2> DEFINE work == [w EXCEPT !.vip = v, !.addressed = TRUE, !.todo = w.ports,
                               !.graph = WithVIP(w.graph, v)]
  <2>3. /\ work.svc = w.svc /\ work.base = w.base /\ work.lb = w.lb /\ work.vip = v
        /\ work.ports = w.ports /\ work.hash = w.hash
        /\ work.graph.vip = v /\ work.graph.legacyVip = w.graph.legacyVip
        /\ work.graph.vs = w.graph.vs
    BY <1>1, <2>2, UseHome
  <2>4. Continue("listener", work)
    BY <1>5, <2>1 DEF UseVIP
  <2> HIDE DEF work
  <2>5. EnsureAt("listener", work)
    BY <1>1, <1>2, <1>3, <2>2, <2>3 DEF EnsureAt
  <2>6. OwnVIP(w.svc, v)
    BY <2>2 DEF HasVIP, OwnVIP
  <2>7. HandAt("listener", work)
    BY <1>1, <1>2, <2>3, <2>5, <2>6 DEF HandAt
  <2> QED
    BY <1>1, <2>3, <2>4, <2>7, ContinueHome
<1>6. CASE w.vip \notin VIPsUnder(w.lb) /\ Continue("vip-create", w)
  <2>1. EnsureAt("vip-create", w)
    BY <1>1, <1>2, <1>3, <1>4, <1>6 DEF EnsureAt
  <2>2. HandAt("vip-create", w)
    BY <1>1, <1>2, <2>1 DEF HandAt
  <2> QED
    BY <1>1, <1>6, <2>2, ContinueHome
<1>7. w.vip \in VIPsUnder(w.lb) => vips[w.vip].st # "failed"
  BY <1>2 DEF VIPsAtHome, VIPsUnder
<1> QED
  BY <1>1, <1>5, <1>6, <1>7, ReturnHome DEF EnsureVIP

LEMMA CreateVIPHome ==
    ASSUME TypeOK, HomeInv, Recoverable, CreateVIP
    PROVE  HomeInv' /\ KeptShrinks
<1>1. PICK v \in VipIds : /\ v \in UnusedVIPs /\ VIPAccepted(v, w.lb, w.svc)
                          /\ UseVIP(v, vips'[v].st = "active")
  BY DEF CreateVIP, Next0
<1>2. PICK st \in {"active", "pending"} :
         vips' = [vips EXCEPT ![v] = [st |-> st, lb |-> w.lb, by |-> w.svc]]
  BY <1>1 DEF VIPAccepted
<1>3. /\ pc = "vip-create" /\ pc \in EnsurePCs /\ UNCHANGED <<obj, ann, lbs, vss>>
      /\ {"vip-create", "listener"} \subseteq LoadedPCs \cap WithLBPCs \cap EnsurePCs
      /\ {"listener"} \cap ({"idle"} \cup CleanupPCs \cup LeadPCs
            \cup {"lb-delete", "vip-delete", "bump", "vs-delete", "vip", "vip-create"}) = {}
  BY <1>1 DEF CreateVIP, UseVIP, Continue, EnsurePCs, LoadedPCs, WithLBPCs, SettledPCs, LeadPCs,
              CleanupPCs, ServePCs
<1>4. /\ w \in Work /\ w.svc \in Services /\ EnsureAt(pc, w) /\ HandAt(pc, w) /\ Kept(w.svc)
      /\ Holds(w.svc, w.base) /\ OwnIds(w.svc, w.base) /\ LBsAtHome /\ VIPsAtHome /\ VSsAtHome
      /\ OwnVIP(w.svc, w.graph.legacyVip) /\ w.graph \in Graph /\ w.base \in Annotations
      /\ RecordsHold
  BY <1>3, EnsureFacts DEF HomeInv
<1>5. PICK s, g, b : s = w.svc /\ g = w.graph /\ b = w.base
  OBVIOUS
<1>6. /\ vips[v].st = "absent" /\ vips'[v].st \in {"active", "pending"}
      /\ vips'[v].by = s /\ vips'[v].lb = w.lb
      /\ \A x \in VipIds : x # v => vips'[x] = vips[x]
  BY <1>1, <1>2, <1>5 DEF UnusedVIPs, TypeOK, CMPTypeOK
<1>7. v # NoId /\ g.legacyVip # v /\ b.vip # v /\ b.graph.vip # v /\ b.graph.legacyVip # v
      /\ (\A t \in Services : ann[t].vip # v /\ ann[t].graph.vip # v /\ ann[t].graph.legacyVip # v)
      /\ \A x \in VsIds : vss[x].vip # v
  BY <1>1, <1>5, IdAssumption DEF UnusedVIPs, NamesVIP
<1>8. PICK work : work = [w EXCEPT !.vip = v, !.addressed = (vips'[v].st = "active"),
                                   !.todo = w.ports, !.graph = WithVIP(w.graph, v)]
  OBVIOUS
<1>9. /\ work.svc = w.svc /\ work.base = w.base /\ work.lb = w.lb /\ work.vip = v
      /\ work.ports = w.ports /\ work.hash = w.hash
      /\ work.graph.vip = v /\ work.graph.legacyVip = w.graph.legacyVip
      /\ work.graph.vs = w.graph.vs
  <2>1. PICK addressed : addressed = (vips'[v].st = "active")
    OBVIOUS
  <2> QED
    BY <1>3, <1>8, <2>1, UseHome
<1>10. pc' = "listener" /\ w' = work
  BY <1>1, <1>8 DEF UseVIP, Continue
<1>11. KeptShrinks
  BY <1>3, <1>9, <1>10 DEF KeptShrinks, Kept, Ensuring
<1>12. /\ \A t, x : HasVIP(t, x) => x # v /\ HasVIP(t, x)'
       /\ \A t, l : HasLB(t, l)' <=> HasLB(t, l)
       /\ \A t, P : NoListenerOn(t, P)' <=> NoListenerOn(t, P)
       /\ \A t, l : OwnLB(t, l)' <=> OwnLB(t, l)
       /\ \A t, x : x \in VipIds \cup {NoId} /\ x # v /\ OwnVIP(t, x) => OwnVIP(t, x)'
  BY <1>3, <1>6 DEF HasLB, HasVIP, NoListenerOn, OwnVIP, OwnLB
<1>13. HasVIP(s, v)' /\ OwnVIP(s, v)'
  BY <1>6 DEF HasVIP, OwnVIP
<1>14. LBsAtHome'
  BY <1>3, <1>4, <1>11 DEF LBsAtHome, KeptShrinks
<1>15. VIPsAtHome'
  <2> SUFFICES ASSUME NEW x \in VipIds
               PROVE  /\ vips'[x].st = "absent" => vips'[x].by = NoOwner
                      /\ vips'[x].st # "absent" => /\ vips'[x].st # "failed"
                                                   /\ vips'[x].by \in Services
                                                   /\ HasLB(vips[x].by, vips[x].lb)'
    BY DEF VIPsAtHome
  <2>1. CASE x = v
    <3>1. HasLB(w.svc, w.lb)
      BY <1>3, <1>4 DEF EnsureAt
    <3>2. PICK l : l = w.lb
      OBVIOUS
    <3>3. HasLB(s, l)'
      BY <1>5, <1>12, <3>1, <3>2
    <3> QED
      BY <1>4, <1>5, <1>6, <2>1, <3>2, <3>3 DEF HasLB
  <2>2. CASE x # v
    <3>1. PICK t, l : t = vips[x].by /\ l = vips[x].lb
      OBVIOUS
    <3>2. vips[x].st # "absent" => HasLB(t, l)'
      BY <1>4, <1>12, <3>1 DEF VIPsAtHome
    <3> QED
      BY <1>4, <1>6, <2>2, <3>1, <3>2 DEF VIPsAtHome, HasLB
  <2> QED
    BY <2>1, <2>2
<1>16. VSsAtHome'
  <2> SUFFICES ASSUME NEW x \in VsIds, vss'[x].st # "absent"
               PROVE  /\ vss'[x].by \in Services /\ HasLB(vss[x].by, vss[x].lb)'
                      /\ Kept(vss[x].by)' => HasVIP(vss[x].by, vss[x].vip)'
    BY DEF VSsAtHome
  <2>1. PICK t, l, y : t = vss[x].by /\ l = vss[x].lb /\ y = vss[x].vip
    OBVIOUS
  <2>2. t \in Services /\ HasLB(t, l) /\ (Kept(t) => HasVIP(t, y))
    BY <1>3, <1>4, <2>1 DEF VSsAtHome
  <2>3. HasLB(t, l)' /\ (Kept(t)' => HasVIP(t, y)')
    BY <1>11, <1>12, <2>2 DEF KeptShrinks
  <2> QED
    BY <1>3, <2>1, <2>2, <2>3
<1>17. ASSUME NEW t, NEW a \in Annotations, OwnIds(t, a), a.vip # v, a.graph.vip # v, a.graph.legacyVip # v
       PROVE  OwnIds(t, a)' /\ (Holds(t, a) => Holds(t, a)')
  BY <1>12, <1>17 DEF OwnIds, Holds, Annotations, Graph
<1>18. RecordsHold'
  <2> SUFFICES ASSUME NEW t \in Services
               PROVE  OwnIds(t, ann[t])' /\ (Kept(t)' => Holds(t, ann[t])')
    BY <1>3, <1>4 DEF RecordsHold
  <2>1. PICK a : a = ann[t]
    OBVIOUS
  <2>2. a \in Annotations /\ OwnIds(t, a) /\ (Kept(t) => Holds(t, a))
        /\ a.vip # v /\ a.graph.vip # v /\ a.graph.legacyVip # v
    BY <1>4, <1>7, <2>1 DEF TypeOK, RecordsHold
  <2>3. OwnIds(t, a)' /\ (Kept(t)' => Holds(t, a)')
    BY <1>11, <1>17, <2>2 DEF KeptShrinks
  <2> QED
    BY <1>3, <2>1, <2>3 DEF OwnIds, OwnLB, OwnVIP, Holds, HasLB, HasVIP
<1>19. HandAt(pc, w)'
  <2>1. OwnIds(s, b)' /\ Holds(s, b)'
    BY <1>4, <1>5, <1>7, <1>17
  <2>2. /\ HasLB(w.svc, w.lb)
        /\ b.vip = NoId => \A q \in w.ports : g.vs[q] = NoListener \/ g.vs[q].hash = w.hash
    BY <1>3, <1>4, <1>5 DEF EnsureAt
  <2>3. PICK l : l = w.lb
    OBVIOUS
  <2>4. HasLB(s, l)'
    BY <1>5, <1>12, <2>2, <2>3
  <2>5. g.legacyVip \in VipIds \cup {NoId}
    BY <1>4, <1>5 DEF Graph
  <2>6. OwnVIP(s, g.legacyVip)'
    BY <1>4, <1>5, <1>7, <1>12, <2>5
  <2>7. /\ work.svc = s /\ work.base = b /\ work.lb = l /\ work.vip = v
        /\ work.graph.vip = v /\ work.graph.legacyVip = g.legacyVip
        /\ b.vip = NoId => \A q \in work.ports : work.graph.vs[q] = NoListener \/ work.graph.vs[q].hash = work.hash
    BY <1>5, <1>9, <2>2, <2>3
  <2>8. EnsureAt("listener", work)'
    BY <1>3, <1>7, <1>13, <2>1, <2>4, <2>7 DEF EnsureAt
  <2>9. "listener" \in EnsurePCs
    BY <1>3
  <2> QED
    BY <1>10, <1>13, <2>1, <2>6, <2>7, <2>8, <2>9, HandHolds
<1> QED
  BY <1>11, <1>14, <1>15, <1>16, <1>18, <1>19 DEF HomeInv, AtHome

(* A listener is condemned only when it has failed, or when it is ready and  *)
(* the recorded hash is another one; without a recorded VIP there is none.   *)
LEMMA KeepsAdopted ==
    ASSUME TypeOK, HomeInv, pc = "listener", w.base.vip = NoId, NEW p \in w.ports
    PROVE  SeedKeeps(p) /\ VirtualServerID = NoId
<1>1. pc \in EnsurePCs /\ pc \in LoadedPCs
  BY DEF EnsurePCs, LoadedPCs
<1>2. /\ w \in Work /\ EnsureAt(pc, w) /\ Holds(w.svc, w.base)
  BY <1>1, EnsureFacts
<1>3. \A q \in Ports : w.base.graph.vs[q] = NoListener
  BY <1>2 DEF Holds
<1>4. VirtualServerID = NoId
  BY <1>3 DEF VirtualServerID, ScalarID, CleanupListeners, NoListener
<1>5. w.graph.vs[p] = NoListener \/ w.graph.vs[p].hash = w.hash
  BY <1>1, <1>2 DEF EnsureAt
<1>6. w.graph.vs[p] = NoListener => SeedRecorded(p) = NoId
  BY <1>4, IdAssumption DEF SeedRecorded, CurrentID, NoListener, ListenersOn
<1>7. w.graph.vs[p] = NoListener => w.graph.vs[p].hash = NoDigest
  BY DEF NoListener
<1> QED
  BY <1>4, <1>5, <1>6, <1>7 DEF SeedKeeps

(* The listener is looked at, waited for, condemned or recorded.             *)
LEMMA DoneHome ==
    ASSUME TypeOK, w \in Work, w.graph \in Graph, NEW p \in Ports, NEW v \in VsIds
    PROVE  LET work == DoneWith(p, v) IN
           /\ work.svc = w.svc /\ work.base = w.base /\ work.lb = w.lb /\ work.vip = w.vip
           /\ work.ports = w.ports /\ work.hash = w.hash /\ work.todo = w.todo \ {p}
           /\ work.graph.vip = w.graph.vip /\ work.graph.legacyVip = w.graph.legacyVip
           /\ \A q \in Ports : work.graph.vs[q] = w.graph.vs[q] \/ work.graph.vs[q].hash = w.hash
<1>1. PICK g : g = [w.graph EXCEPT !.vs[p] = [id |-> v, hash |-> w.hash]]
  OBVIOUS
<1>2. /\ g.vip = w.graph.vip /\ g.legacyVip = w.graph.legacyVip
      /\ \A q \in Ports : g.vs[q] = w.graph.vs[q] \/ g.vs[q].hash = w.hash
  BY <1>1 DEF Graph
<1> DEFINE work == [w EXCEPT !.graph = g, !.todo = w.todo \ {p}, !.vs = NoId]
<1>3. /\ work.svc = w.svc /\ work.base = w.base /\ work.lb = w.lb /\ work.vip = w.vip
      /\ work.ports = w.ports /\ work.hash = w.hash /\ work.todo = w.todo \ {p} /\ work.graph = g
  BY DEF Work
<1>4. DoneWith(p, v) = work
  BY <1>1 DEF DoneWith, Work
<1> HIDE DEF work
<1> QED
  BY <1>2, <1>3, <1>4

(* From the VIP on, the pass keeps LBService and VIP in hand.                *)
LEMMA ServeOn ==
    ASSUME TypeOK, HomeInv, pc \in ServePCs, NEW next \in ServePCs, NEW work,
           work.svc = w.svc, work.base = w.base, work.lb = w.lb, work.vip = w.vip,
           work.ports = w.ports, work.hash = w.hash, work.graph.vip = w.graph.vip,
           work.graph.legacyVip = w.graph.legacyVip,
           \A q \in w.ports : work.graph.vs[q] = w.graph.vs[q] \/ work.graph.vs[q].hash = w.hash,
           next = "vs-delete" /\ w.base.vip = NoId => ~Healthy(vss[work.vs].st)
    PROVE  HandAt(next, work) /\ pc \in EnsurePCs /\ next \in EnsurePCs
<1>1. /\ ServePCs \subseteq EnsurePCs \cap LoadedPCs \cap WithLBPCs
      /\ ServePCs \cap (CleanupPCs \cup LeadPCs
            \cup {"idle", "lb-delete", "vip-delete", "bump", "vip", "vip-create"}) = {}
  BY DEF ServePCs, EnsurePCs, LoadedPCs, WithLBPCs, SettledPCs, CleanupPCs, LeadPCs
<1>2. EnsureAt(pc, w) /\ HandAt(pc, w) /\ pc # "idle"
  BY <1>1, EnsureFacts
<1>3. EnsureAt(next, work)
  BY <1>1, <1>2 DEF EnsureAt
<1> QED
  BY <1>1, <1>2, <1>3 DEF HandAt

LEMMA EnsureListenerHome ==
    ASSUME TypeOK, OnePort, HomeInv, NEW p \in Ports, SeedEnsureListener(p)
    PROVE  HomeInv' /\ KeptShrinks
<1>1. /\ pc = "listener" /\ pc \in EnsurePCs /\ p \in w.todo /\ UNCHANGED <<lbs, vips, vss>>
      /\ {"listener", "vs-create", "vs-delete"} \subseteq ServePCs
  BY DEF SeedEnsureListener, EnsurePCs, ServePCs
<1>2. w \in Work /\ w.graph \in Graph /\ p \in w.ports
  BY <1>1, EnsureFacts DEF OnePort
<1>3. CASE Continue("vs-create", w)
  <2>1. HandAt("vs-create", w) /\ "vs-create" \in EnsurePCs
    BY <1>1, ServeOn
  <2> QED
    BY <1>1, <1>3, <2>1, ContinueHome
<1>4. PICK v : v = SeedListener(p)
  OBVIOUS
<1>5. CASE Continue("vs-delete", [w EXCEPT !.vs = v]) /\ (vss[v].st = "failed" \/ ~SeedKeeps(p))
  <2> DEFINE work == [w EXCEPT !.vs = v]
  <2>1. /\ work.svc = w.svc /\ work.base = w.base /\ work.lb = w.lb /\ work.vip = w.vip
        /\ work.ports = w.ports /\ work.hash = w.hash /\ work.graph = w.graph /\ work.vs = v
    BY <1>2 DEF Work
  <2>2. Continue("vs-delete", work)
    BY <1>5
  <2> HIDE DEF work
  <2>3. w.base.vip = NoId => ~Healthy(vss[v].st)
    BY <1>1, <1>2, <1>5, KeepsAdopted DEF Healthy
  <2>4. HandAt("vs-delete", work) /\ "vs-delete" \in EnsurePCs
    BY <1>1, <2>1, <2>3, ServeOn
  <2> QED
    BY <1>1, <2>1, <2>2, <2>4, ContinueHome
<1>6. CASE v # NoId /\ Continue("listener", DoneWith(p, v))
  <2> DEFINE work == DoneWith(p, v)
  <2>0. v \in VsIds
    BY <1>4, <1>6, SeedListenerType
  <2>1. /\ work.svc = w.svc /\ work.base = w.base /\ work.lb = w.lb /\ work.vip = w.vip
        /\ work.ports = w.ports /\ work.hash = w.hash
        /\ work.graph.vip = w.graph.vip /\ work.graph.legacyVip = w.graph.legacyVip
        /\ \A q \in Ports : work.graph.vs[q] = w.graph.vs[q] \/ work.graph.vs[q].hash = w.hash
    BY <1>2, <2>0, DoneHome
  <2>2. Continue("listener", work)
    BY <1>6
  <2> HIDE DEF work
  <2>3. w.ports \subseteq Ports
    BY <1>2 DEF Work
  <2>4. HandAt("listener", work) /\ "listener" \in EnsurePCs
    BY <1>1, <2>1, <2>3, ServeOn
  <2> QED
    BY <1>1, <2>1, <2>2, <2>4, ContinueHome
<1> QED
  BY <1>1, <1>3, <1>4, <1>5, <1>6, ReturnHome DEF SeedEnsureListener

LEMMA CheckListenerHome ==
    ASSUME TypeOK, PassInv, HomeInv, CheckCreatedListener
    PROVE  HomeInv' /\ KeptShrinks
<1>1. /\ pc = "vs-check" /\ pc \in EnsurePCs /\ UNCHANGED <<lbs, vips, vss>>
      /\ {"listener", "vs-check", "vs-delete"} \subseteq ServePCs
  BY DEF CheckCreatedListener, EnsurePCs, ServePCs
<1>2. w \in Work /\ w.graph \in Graph /\ w.ports \subseteq Ports /\ NextPort \in Ports /\ w.vs \in VsIds
  BY <1>1, EnsureFacts, NextPortType DEF Work, PassInv
<1>3. CASE vss[w.vs].st = "failed" /\ Continue("vs-delete", w)
  <2>1. ~Healthy(vss[w.vs].st)
    BY <1>3 DEF Healthy
  <2>2. HandAt("vs-delete", w) /\ "vs-delete" \in EnsurePCs
    BY <1>1, <2>1, ServeOn
  <2> QED
    BY <1>1, <1>3, <2>2, ContinueHome
<1>4. CASE Continue("listener", DoneWith(NextPort, w.vs))
  <2>1. PICK p, v : p = NextPort /\ v = w.vs
    OBVIOUS
  <2> DEFINE work == DoneWith(p, v)
  <2>2. /\ work.svc = w.svc /\ work.base = w.base /\ work.lb = w.lb /\ work.vip = w.vip
        /\ work.ports = w.ports /\ work.hash = w.hash
        /\ work.graph.vip = w.graph.vip /\ work.graph.legacyVip = w.graph.legacyVip
        /\ \A q \in Ports : work.graph.vs[q] = w.graph.vs[q] \/ work.graph.vs[q].hash = w.hash
    BY <1>2, <2>1, DoneHome
  <2>3. Continue("listener", work)
    BY <1>4, <2>1
  <2> HIDE DEF work
  <2>4. HandAt("listener", work) /\ "listener" \in EnsurePCs
    BY <1>1, <1>2, <2>2, ServeOn
  <2> QED
    BY <1>1, <2>2, <2>3, <2>4, ContinueHome
<1> QED
  BY <1>1, <1>3, <1>4, ReturnHome DEF CheckCreatedListener

(* A DELETE of a listener: it is deleting, or was not there.                 *)
LEMMA DeleteAges ==
    ASSUME TypeOK, AtHome, KeptShrinks, NEW x \in VsIds, VSDeleteAccepted(x), UNCHANGED <<lbs, vips>>
    PROVE  CMPAges /\ \A v \in VsIds : v # x => vss'[v] = vss[v]
<1>1. \A s \in Services : Kept(s)' => \A l \in LbIds : HasLB(s, l) => lbs[l].st \notin {"absent", "deleting"}
  BY DEF AtHome, LBsAtHome, HasLB, KeptShrinks
<1>2. \A s \in Services : \A v \in VipIds : HasVIP(s, v) => vips[v].st # "absent"
  BY DEF HasVIP
<1>3. \A v \in VipIds : \/ vips[v].st = "absent" /\ vips[v].by = NoOwner
                        \/ vips[v].st \in {"pending", "active"}
  BY DEF AtHome, VIPsAtHome, TypeOK, CMPTypeOK, VIPRecord
<1>4. \A l \in LbIds : lbs[l].st # "absent" => lbs[l].st \in {"pending", "ready", "deleting"}
  BY DEF AtHome, LBsAtHome
<1>5. PICK r : r = [vss[x] EXCEPT !.st = "deleting"]
  OBVIOUS
<1>6. r.st = "deleting" /\ r.by = vss[x].by /\ r.lb = vss[x].lb /\ r.vip = vss[x].vip /\ r.port = vss[x].port
  BY <1>5 DEF TypeOK, CMPTypeOK, VSRecord
<1>7. /\ \A v \in VsIds : v # x => vss'[v] = vss[v]
      /\ vss'[x] = vss[x] \/ (vss'[x] = r /\ Visible(vss[x].st))
  BY <1>5 DEF VSDeleteAccepted, TypeOK, CMPTypeOK
<1>8. \A v \in VsIds : vss'[v].st # "absent" =>
         /\ vss[v].st # "absent" /\ vss'[v].by = vss[v].by /\ vss'[v].lb = vss[v].lb
         /\ vss'[v].vip = vss[v].vip /\ vss'[v].port = vss[v].port
  BY <1>6, <1>7 DEF Healthy, Visible
<1>9. \A v \in VsIds : Healthy(vss'[v].st) => Healthy(vss[v].st)
  BY <1>6, <1>7 DEF Healthy
<1> QED
  BY <1>1, <1>2, <1>3, <1>4, <1>7, <1>8, <1>9 DEF CMPAges

LEMMA DeleteListenerHome ==
    ASSUME BridgeInv, HomeInv, DeleteListener
    PROVE  HomeInv' /\ KeptShrinks
<1>1. TypeOK /\ AtHome /\ RecordsHold /\ w.vs \in VsIds
  BY DEF BridgeInv, HomeInv, PassInv, DeleteListener
<1>2. pc' = "idle" /\ UNCHANGED <<obj, ann, lbs, vips>> /\ VSDeleteAccepted(w.vs)
  BY DEF DeleteListener, Return
<1>3. KeptShrinks /\ ObjectsAge
  BY <1>1, <1>2 DEF KeptShrinks, Kept, Ensuring, EnsurePCs, ObjectsAge, RecordsHold
<1>4. CMPAges
  BY <1>1, <1>2, <1>3, DeleteAges
<1> QED
  BY <1>2, <1>3, <1>4, StayHome

(* The pass goes on with the ids it had, whatever happens to listeners.      *)
LEMMA HandServes ==
    ASSUME NEW next \in {"listener", "vs-check", "publish"}, NEW work, HandAt(next, work),
           pc' = next, w' = work, UNCHANGED <<lbs, vips>>
    PROVE  HandAt(pc, w)'
<1>1. /\ next \in EnsurePCs /\ next \notin CleanupPCs /\ next # "idle"
      /\ next \notin {"vip", "vip-create", "vs-delete"}
  BY DEF EnsurePCs, CleanupPCs
<1>2. EnsureAt(next, work) /\ OwnIds(work.svc, work.base)
      /\ OwnVIP(work.svc, work.graph.vip) /\ OwnVIP(work.svc, work.graph.legacyVip)
  BY <1>1 DEF HandAt
<1>3. /\ OwnIds(work.svc, work.base)' /\ OwnVIP(work.svc, work.graph.vip)'
      /\ OwnVIP(work.svc, work.graph.legacyVip)'
  BY <1>2 DEF OwnIds, OwnLB, OwnVIP
<1>4. (\A s, l : HasLB(s, l)' <=> HasLB(s, l)) /\ (\A s, v : HasVIP(s, v)' <=> HasVIP(s, v))
  BY DEF HasLB, HasVIP
<1>5. EnsureAt(next, work)'
  BY <1>1, <1>2, <1>4 DEF EnsureAt, Holds
<1> QED
  BY <1>1, <1>3, <1>5, HandHolds

LEMMA CreateListenerHome ==
    ASSUME BridgeInv, HomeInv, CreateListener
    PROVE  HomeInv' /\ KeptShrinks
<1>1. PICK v \in VsIds :
         /\ v \in UnusedVSs
         /\ VSAccepted(v, [NoVS EXCEPT !.lb = w.lb, !.vip = w.vip, !.by = w.svc,
                                       !.port = NextPort, !.hash = w.hash])
         /\ Continue("vs-check", [w EXCEPT !.vs = v])
  BY DEF CreateListener, Next0
<1>2. PICK r : /\ r.lb = w.lb /\ r.vip = w.vip /\ r.by = w.svc
               /\ vss' = [vss EXCEPT ![v] = r]
  <2>1. PICK st \in Born : vss' = [vss EXCEPT ![v] =
                  [[NoVS EXCEPT !.lb = w.lb, !.vip = w.vip, !.by = w.svc,
                                !.port = NextPort, !.hash = w.hash] EXCEPT !.st = st]]
    BY <1>1 DEF VSAccepted
  <2> QED
    BY <2>1 DEF NoVS
<1>3. /\ pc = "vs-create" /\ pc \in EnsurePCs /\ pc \in WithLBPCs \cap LoadedPCs /\ TypeOK
      /\ UNCHANGED <<obj, ann, lbs, vips>> /\ {"vs-create", "vs-check"} \subseteq ServePCs
  BY <1>1 DEF CreateListener, Continue, EnsurePCs, ServePCs, SettledPCs, WithLBPCs, LoadedPCs, BridgeInv
<1>4. /\ w \in Work /\ w.svc \in Services /\ EnsureAt(pc, w) /\ LBsAtHome /\ VIPsAtHome /\ VSsAtHome
      /\ RecordsHold
  BY <1>3, EnsureFacts DEF HomeInv
<1>5. HasLB(w.svc, w.lb) /\ HasVIP(w.svc, w.vip)
  BY <1>3, <1>4 DEF EnsureAt
<1>6. PICK work : work = [w EXCEPT !.vs = v]
  OBVIOUS
<1>7. /\ work.svc = w.svc /\ work.base = w.base /\ work.lb = w.lb /\ work.vip = w.vip
      /\ work.ports = w.ports /\ work.hash = w.hash /\ work.graph = w.graph
  BY <1>4, <1>6 DEF Work
<1>8. pc' = "vs-check" /\ w' = work
  BY <1>1, <1>6 DEF Continue
<1>9. HandAt("vs-check", work) /\ "vs-check" \in EnsurePCs
  BY <1>3, <1>7, ServeOn
<1>10. HandAt(pc, w)'
  BY <1>3, <1>8, <1>9, HandServes
<1>11. KeptShrinks
  BY <1>3, <1>7, <1>8 DEF KeptShrinks, Kept, Ensuring
<1>12. (\A s, l : HasLB(s, l)' <=> HasLB(s, l)) /\ (\A s, x : HasVIP(s, x)' <=> HasVIP(s, x))
  BY <1>3 DEF HasLB, HasVIP
<1>13. LBsAtHome' /\ VIPsAtHome'
  BY <1>3, <1>4, <1>11, <1>12 DEF LBsAtHome, VIPsAtHome, KeptShrinks
<1>14. VSsAtHome'
  <2> SUFFICES ASSUME NEW x \in VsIds, vss'[x].st # "absent"
               PROVE  /\ vss'[x].by \in Services /\ HasLB(vss[x].by, vss[x].lb)'
                      /\ Kept(vss[x].by)' => HasVIP(vss[x].by, vss[x].vip)'
    BY DEF VSsAtHome
  <2>1. PICK s, l, y : s = vss'[x].by /\ l = vss'[x].lb /\ y = vss'[x].vip
    OBVIOUS
  <2>2. s \in Services /\ HasLB(s, l) /\ (Kept(s) => HasVIP(s, y))
    <3>1. CASE x = v
      <4>1. s = w.svc /\ l = w.lb /\ y = w.vip
        BY <1>2, <1>3, <2>1, <3>1 DEF TypeOK, CMPTypeOK
      <4> QED
        BY <1>4, <1>5, <4>1
    <3>2. CASE x # v
      <4>1. vss'[x] = vss[x]
        BY <1>2, <1>3, <3>2 DEF TypeOK, CMPTypeOK
      <4> QED
        BY <1>4, <2>1, <4>1 DEF VSsAtHome
    <3> QED
      BY <3>1, <3>2
  <2>3. HasLB(s, l)' /\ (Kept(s)' => HasVIP(s, y)')
    BY <1>11, <1>12, <2>2 DEF KeptShrinks
  <2> QED
    BY <2>1, <2>2, <2>3
<1>15. RecordsHold'
  BY <1>3, <1>4, <1>11, <1>12 DEF RecordsHold, Holds, OwnIds, OwnLB, OwnVIP, KeptShrinks
<1> QED
  BY <1>10, <1>11, <1>13, <1>14, <1>15 DEF HomeInv, AtHome

LEMMA ObsoleteHome ==
    ASSUME TypeOK, HomeInv, DeleteObsoleteListener
    PROVE  HomeInv' /\ KeptShrinks /\ CMPAges
<1>1. PICK p \in Obsolete : /\ VSDeleteAccepted(w.graph.vs[p].id)
                            /\ Continue("listener", [w EXCEPT !.graph.vs[p] = NoListener])
  BY DEF DeleteObsoleteListener
<1>2. /\ pc = "listener" /\ pc \in EnsurePCs /\ pc \in ServePCs /\ AtHome /\ RecordsHold
      /\ UNCHANGED <<obj, ann, lbs, vips>>
  BY <1>1 DEF DeleteObsoleteListener, Continue, EnsurePCs, ServePCs, HomeInv
<1>3. w \in Work /\ w.graph \in Graph
  BY <1>2, EnsureFacts
<1>4. p \in Ports \ w.ports /\ w.graph.vs[p].id \in VsIds
  BY <1>3 DEF Obsolete, Graph, Listener
<1>5. PICK work : work = [w EXCEPT !.graph.vs[p] = NoListener]
  OBVIOUS
<1>6. /\ work.svc = w.svc /\ work.base = w.base /\ work.lb = w.lb /\ work.vip = w.vip
      /\ work.ports = w.ports /\ work.hash = w.hash /\ work.graph.vip = w.graph.vip
      /\ work.graph.legacyVip = w.graph.legacyVip
      /\ \A q \in w.ports : work.graph.vs[q] = w.graph.vs[q]
  <2>1. PICK g : g = [w.graph EXCEPT !.vs[p] = NoListener]
    OBVIOUS
  <2>2. g.vip = w.graph.vip /\ g.legacyVip = w.graph.legacyVip /\ \A q \in w.ports : g.vs[q] = w.graph.vs[q]
    BY <1>3, <1>4, <2>1 DEF Graph, Work
  <2>3. work = [w EXCEPT !.graph = g]
    BY <1>3, <1>5, <2>1 DEF Work
  <2>4. /\ work.svc = w.svc /\ work.base = w.base /\ work.lb = w.lb /\ work.vip = w.vip
        /\ work.ports = w.ports /\ work.hash = w.hash /\ work.graph = g
    BY <1>3, <2>3 DEF Work
  <2> QED
    BY <2>2, <2>4
<1>7. pc' = "listener" /\ w' = work
  BY <1>1, <1>5 DEF Continue
<1>8. HandAt("listener", work) /\ "listener" \in EnsurePCs
  BY <1>2, <1>6, ServeOn
<1>9. HandAt(pc, w)'
  BY <1>2, <1>7, <1>8, HandServes
<1>10. KeptShrinks
  BY <1>2, <1>6, <1>7 DEF KeptShrinks, Kept, Ensuring
<1>11. CMPAges /\ ObjectsAge
  BY <1>1, <1>2, <1>4, <1>10, DeleteAges DEF ObjectsAge, RecordsHold
<1>12. AtHome' /\ RecordsHold'
  BY <1>2, <1>10, <1>11, AgesHome, RecordsAge
<1> QED
  BY <1>9, <1>10, <1>11, <1>12 DEF HomeInv

(* What the pass records is what it has in hand.                             *)
LEMMA PersistHome ==
    ASSUME TypeOK, ParentInv, HomeInv, SeedPersist
    PROVE  HomeInv' /\ KeptShrinks
<1>1. /\ pc = "listener" /\ pc \in EnsurePCs /\ pc \in WithLBPCs \cap LoadedPCs \cap ServePCs
      /\ pc' \in {"publish", "idle"} /\ obj[w.svc].there
      /\ UNCHANGED <<obj, lbs, vips, vss>> /\ PatchAnnotations(SeedResultOf(w.base))
      /\ {"publish"} \subseteq ServePCs \cap EnsurePCs
  BY DEF SeedPersist, PatchAnnotations, EnsurePCs, WithLBPCs, SettledPCs, LoadedPCs, ServePCs
<1>2. /\ w \in Work /\ w.svc \in Services /\ w.graph \in Graph /\ EnsureAt(pc, w) /\ HandAt(pc, w)
      /\ OwnVIP(w.svc, w.graph.vip) /\ OwnVIP(w.svc, w.graph.legacyVip)
  BY <1>1, EnsureFacts
<1>3. HasLB(w.svc, w.lb) /\ w.vip # NoId /\ HasVIP(w.svc, w.vip)
  BY <1>1, <1>2 DEF EnsureAt
<1>4. w.base = ann[w.svc]
  BY <1>1 DEF ParentInv, Current
<1>5. PICK a : a = ann'[w.svc]
  OBVIOUS
<1>6. a.lb = w.lb /\ a.vip = w.vip /\ a.graph = DropMigratedLegacyAliases(w.graph)
  <2>1. PICK new : new = SeedResultOf(w.base)
    OBVIOUS
  <2>2. new.lb = w.lb /\ new.vip = w.vip /\ new.graph = DropMigratedLegacyAliases(w.graph)
    BY <2>1, SeedResultType
  <2>3. a = MergePatch(ann[w.svc], ann[w.svc], new)
    BY <1>1, <1>2, <1>4, <1>5, <2>1 DEF PatchAnnotations, Patched, TypeOK
  <2> QED
    BY <2>2, <2>3, PatchOnCurrent
<1>7. a.graph.vip = w.graph.vip /\ a.graph.legacyVip \in {NoId, w.graph.legacyVip}
  BY <1>2, <1>6 DEF DropMigratedLegacyAliases, Graph
<1>8. OwnIds(w.svc, a) /\ Holds(w.svc, a)
  <2>1. OwnLB(w.svc, w.lb) /\ OwnVIP(w.svc, w.vip)
    BY <1>3 DEF OwnLB, OwnVIP, HasLB, HasVIP
  <2>2. OwnVIP(w.svc, a.graph.vip) /\ OwnVIP(w.svc, a.graph.legacyVip)
    BY <1>2, <1>7 DEF OwnVIP
  <2> QED
    BY <1>3, <1>6, <2>1, <2>2 DEF OwnIds, Holds
<1>9. \A s \in Services : s # w.svc => ann'[s] = ann[s]
  BY <1>1 DEF PatchAnnotations, TypeOK
<1>10. pc' = "publish" => w' = [w EXCEPT !.base = a]
  BY <1>1, <1>5 DEF SeedPersist
<1>11. PICK work : work = [w EXCEPT !.base = a]
  OBVIOUS
<1>12. /\ work.svc = w.svc /\ work.base = a /\ work.lb = w.lb /\ work.vip = w.vip
       /\ work.ports = w.ports /\ work.hash = w.hash /\ work.graph = w.graph
  BY <1>2, <1>11 DEF Work
<1>13. KeptShrinks
  BY <1>1, <1>10, <1>11, <1>12 DEF KeptShrinks, Kept, Ensuring, EnsurePCs
<1>14. (\A s, l : HasLB(s, l)' <=> HasLB(s, l)) /\ (\A s, v : HasVIP(s, v)' <=> HasVIP(s, v))
  BY <1>1 DEF HasLB, HasVIP
<1>15. AtHome'
  BY <1>1, <1>13, <1>14 DEF HomeInv, AtHome, LBsAtHome, VIPsAtHome, VSsAtHome, KeptShrinks
<1>16. RecordsHold'
  <2> SUFFICES ASSUME NEW s \in Services
               PROVE  OwnIds(s, ann[s])' /\ (Kept(s)' => Holds(s, ann[s])')
    BY <1>1 DEF RecordsHold, HomeInv
  <2>1. PICK c : c = ann'[s]
    OBVIOUS
  <2>2. OwnIds(s, c) /\ (Kept(s) => Holds(s, c))
    BY <1>5, <1>8, <1>9, <2>1 DEF HomeInv, RecordsHold
  <2> QED
    BY <1>1, <1>13, <1>14, <2>1, <2>2 DEF OwnIds, OwnLB, OwnVIP, Holds, KeptShrinks
<1>17. HandAt(pc, w)'
  <2>1. CASE pc' = "idle"
    BY <2>1 DEF HandAt, EnsurePCs, CleanupPCs
  <2>2. CASE pc' = "publish"
    <3>1. /\ {"publish"} \subseteq EnsurePCs \cap LoadedPCs \cap WithLBPCs
          /\ {"publish"} \cap (CleanupPCs \cup LeadPCs
                \cup {"idle", "lb-delete", "vip-delete", "bump", "vip", "vip-create", "vs-delete"}) = {}
      BY DEF ServePCs, EnsurePCs, LoadedPCs, WithLBPCs, SettledPCs, CleanupPCs, LeadPCs
    <3>2. EnsureAt("publish", work)
      BY <1>3, <1>6, <1>8, <1>12, <3>1 DEF EnsureAt
    <3>3. HandAt("publish", work)
      BY <1>2, <1>8, <1>12, <3>1, <3>2 DEF HandAt
    <3> QED
      BY <1>1, <1>10, <1>11, <2>2, <3>3, HandServes
  <2> QED
    BY <1>1, <2>1, <2>2
<1> QED
  BY <1>13, <1>15, <1>16, <1>17 DEF HomeInv

(* Clean-up takes what a Service has that is no longer kept.                 *)
LEMMA CleaningHome ==
    ASSUME BridgeInv, HomeInv, pc \in CleanupPCs, CMPAges, NEW next \in CleanupPCs, NEW work,
           Continue(next, work), work.svc = w.svc, work.base = w.base,
           work.graph.vip \in {w.graph.vip, NoId}, work.graph.legacyVip \in {w.graph.legacyVip, NoId}
    PROVE  HomeInv'
<1>1. /\ TypeOK /\ AtHome /\ RecordsHold /\ HandAt(pc, w) /\ UNCHANGED <<obj, ann>>
      /\ pc' = next /\ w' = work
  BY DEF BridgeInv, HomeInv, Continue
<1>2. CleanupPCs \cap EnsurePCs = {} /\ "idle" \notin CleanupPCs
  BY DEF CleanupPCs, EnsurePCs
<1>3. KeptShrinks /\ ObjectsAge
  BY <1>1, <1>2 DEF KeptShrinks, Kept, Ensuring, ObjectsAge, RecordsHold
<1>4. AtHome' /\ RecordsHold'
  BY <1>1, <1>3, AgesHome, RecordsAge
<1>5. PICK s, b, x, y : s = w.svc /\ b = w.base /\ x = w'.graph.vip /\ y = w'.graph.legacyVip
  OBVIOUS
<1>6. /\ s \in Services /\ b.lb \in LbIds \cup {NoId} /\ b.vip \in VipIds \cup {NoId}
      /\ b.graph.vip \in VipIds \cup {NoId} /\ b.graph.legacyVip \in VipIds \cup {NoId}
      /\ w.graph.vip \in VipIds \cup {NoId} /\ w.graph.legacyVip \in VipIds \cup {NoId}
  BY <1>1, <1>2, <1>5 DEF TypeOK, Work, Annotations, Graph
<1>7. x \in VipIds \cup {NoId} /\ y \in VipIds \cup {NoId}
  BY <1>1, <1>5, <1>6
<1>8. /\ OwnLB(s, b.lb) /\ OwnVIP(s, b.graph.vip) /\ OwnVIP(s, b.graph.legacyVip) /\ OwnVIP(s, b.vip)
      /\ OwnVIP(s, x) /\ OwnVIP(s, y) /\ obj[s].del
  BY <1>1, <1>2, <1>5 DEF HandAt, OwnIds, OwnVIP
<1>9. /\ OwnLB(s, b.lb)' /\ OwnVIP(s, b.graph.vip)' /\ OwnVIP(s, b.graph.legacyVip)' /\ OwnVIP(s, b.vip)'
      /\ OwnVIP(s, x)' /\ OwnVIP(s, y)'
  BY <1>1, <1>3, <1>6, <1>7, <1>8, AgesHome
<1>10. HandAt(pc, w)'
  BY <1>1, <1>2, <1>5, <1>8, <1>9 DEF HandAt, OwnIds, OwnLB, OwnVIP
<1> QED
  BY <1>4, <1>10 DEF HomeInv

LEMMA CleanupHome ==
    ASSUME BridgeInv, HandInv, HomeInv, Cleanup
    PROVE  /\ HomeInv' /\ KeptShrinks /\ CMPAges
<1>1. /\ TypeOK /\ AtHome /\ RecordsHold /\ HandAt(pc, w) /\ PassInv
      /\ (\A t \in Services : obj[t].del \/ obj[t].there)
  BY DEF BridgeInv, HomeInv, RecordsHold
<1>2. pc \in CleanupPCs /\ pc \notin EnsurePCs /\ pc # "idle"
  BY DEF Cleanup, RefuseAmbiguousCleanup, CleanListener, ConfirmListenerGone, CleanVIP, CleanLB,
         ConfirmLBGone, RemoveFinalizer, CleanupPCs, EnsurePCs
<1>3. /\ w.svc \in Services /\ w \in Work /\ w.graph \in Graph /\ obj[w.svc].del /\ ~Kept(w.svc)
      /\ OwnIds(w.svc, w.base) /\ OwnVIP(w.svc, w.graph.vip) /\ OwnVIP(w.svc, w.graph.legacyVip)
      /\ w.base \in Annotations
  BY <1>1, <1>2 DEF TypeOK, Work, HandAt, Kept, Ensuring
<1>4. \A next \in CleanupPCs : next \notin EnsurePCs
  BY DEF CleanupPCs, EnsurePCs
<1>5. {"clean-vs", "clean-vs-get", "clean-vip", "clean-lb", "clean-lb-get", "unfinalize"} \subseteq CleanupPCs
  BY DEF CleanupPCs
<1>6. ASSUME NEW next \in CleanupPCs \cup {"idle"}, pc' = next, UNCHANGED obj
      PROVE  KeptShrinks
  BY <1>4, <1>6 DEF KeptShrinks, Kept, Ensuring, EnsurePCs
<1>7. ASSUME NEW again, Return(again), UNCHANGED <<lbs, vips, vss>>
      PROVE  HomeInv' /\ KeptShrinks /\ CMPAges
  BY <1>1, <1>7, ReturnHome, SameAges
<1>8. ASSUME NEW next \in CleanupPCs, NEW work, Continue(next, work), CMPAges,
             work.svc = w.svc, work.base = w.base,
             work.graph.vip \in {w.graph.vip, NoId}, work.graph.legacyVip \in {w.graph.legacyVip, NoId}
      PROVE  HomeInv' /\ KeptShrinks /\ CMPAges
  <2>1. KeptShrinks
    BY <1>6, <1>8 DEF Continue
  <2> QED
    BY <1>2, <1>8, <2>1, CleaningHome
<1>9. CASE RefuseAmbiguousCleanup
  BY <1>7, <1>9 DEF RefuseAmbiguousCleanup
<1>10. ASSUME NEW next \in CleanupPCs, Continue(next, w), UNCHANGED <<lbs, vips, vss>>
       PROVE  HomeInv' /\ KeptShrinks /\ CMPAges
  <2>1. KeptShrinks
    BY <1>6, <1>10 DEF Continue
  <2>2. CMPAges
    BY <1>1, <1>10, <2>1, SameAges
  <2> QED
    BY <1>8, <1>10, <2>2
<1>11. CASE CleanListener
  <2>1. CASE Continue("clean-vip", w) /\ UNCHANGED vss
    BY <1>5, <1>10, <1>11, <2>1 DEF CleanListener
  <2>2. ASSUME NEW v \in CleanupListeners(w.graph), VSDeleteAccepted(v),
               Continue("clean-vs-get", [w EXCEPT !.vs = v])
        PROVE  HomeInv' /\ KeptShrinks /\ CMPAges
    <3>1. v \in VsIds
      BY <1>3 DEF CleanupListeners, Graph, Listener
    <3> DEFINE work == [w EXCEPT !.vs = v]
    <3>2. work.svc = w.svc /\ work.base = w.base /\ work.graph = w.graph
      BY <1>3 DEF Work
    <3>3. Continue("clean-vs-get", work) /\ UNCHANGED <<lbs, vips>>
      BY <1>11, <2>2 DEF CleanListener
    <3> HIDE DEF work
    <3>4. KeptShrinks
      BY <1>5, <1>6, <3>3 DEF Continue
    <3>5. CMPAges
      BY <1>1, <2>2, <3>1, <3>3, <3>4, DeleteAges
    <3> QED
      BY <1>5, <1>8, <3>2, <3>3, <3>5
  <2> QED
    BY <1>11, <2>1, <2>2 DEF CleanListener
<1>12. CASE ConfirmListenerGone
  <2>1. UNCHANGED <<lbs, vips, vss>>
    BY <1>12 DEF ConfirmListenerGone
  <2>2. CASE Continue("clean-vs", [w EXCEPT !.graph = WithoutListener(w.graph, w.vs), !.vs = NoId])
    <3>1. PICK g : g = WithoutListener(w.graph, w.vs)
      OBVIOUS
    <3>2. g.vip = w.graph.vip /\ g.legacyVip = w.graph.legacyVip
      BY <1>3, <3>1 DEF WithoutListener, Graph
    <3> DEFINE work == [w EXCEPT !.graph = g, !.vs = NoId]
    <3>3. work.svc = w.svc /\ work.base = w.base /\ work.graph = g
      BY <1>3 DEF Work
    <3>4. Continue("clean-vs", work)
      BY <2>2, <3>1
    <3> HIDE DEF work
    <3>5. KeptShrinks
      BY <1>5, <1>6, <3>4 DEF Continue
    <3>6. CMPAges
      BY <1>1, <2>1, <3>5, SameAges
    <3> QED
      BY <1>5, <1>8, <3>2, <3>3, <3>4, <3>6
  <2> QED
    BY <1>7, <1>12, <2>1, <2>2 DEF ConfirmListenerGone
<1>13. CASE CleanVIP
  <2>1. CASE Continue(AfterVIPs, w) /\ UNCHANGED vips
    <3>1. AfterVIPs \in CleanupPCs
      BY DEF AfterVIPs, CleanupPCs
    <3>2. PICK next : next = AfterVIPs
      OBVIOUS
    <3> QED
      BY <1>10, <1>13, <2>1, <3>1, <3>2 DEF CleanVIP
  <2>2. ASSUME NEW v \in CleanupVIPs(w.graph), VIPDeleteAccepted(v),
               Continue("clean-vip", [w EXCEPT !.graph = WithoutVIP(@, v)])
        PROVE  HomeInv' /\ KeptShrinks /\ CMPAges
    <3>1. PICK g : g = WithoutVIP(w.graph, v)
      OBVIOUS
    <3>2. g.vip \in {w.graph.vip, NoId} /\ g.legacyVip \in {w.graph.legacyVip, NoId}
      BY <1>3, <3>1 DEF WithoutVIP, Graph
    <3> DEFINE work == [w EXCEPT !.graph = g]
    <3>3. work.svc = w.svc /\ work.base = w.base /\ work.graph = g
      BY <1>3 DEF Work
    <3>4. Continue("clean-vip", work) /\ UNCHANGED <<lbs, vss>>
      BY <1>3, <1>13, <2>2, <3>1 DEF CleanVIP, Work
    <3> HIDE DEF work
    <3>5. KeptShrinks
      BY <1>5, <1>6, <3>4 DEF Continue
    <3>6. v \in VipIds /\ OwnVIP(w.svc, v) /\ v # NoId
      BY <1>3 DEF CleanupVIPs, Graph
    <3>7. vips'[v] = NoVIP /\ \A x \in VipIds : x # v => vips'[x] = vips[x]
      BY <1>1, <2>2, <3>6 DEF VIPDeleteAccepted, TypeOK, CMPTypeOK
    <3>8. \A s \in Services : Kept(s)' => \A x \in VipIds : HasVIP(s, x) => vips'[x].st # "absent"
      BY <1>3, <3>5, <3>6, <3>7 DEF KeptShrinks, HasVIP, OwnVIP
    <3>9. \A s \in Services : Kept(s)' => \A l \in LbIds : HasLB(s, l) => lbs[l].st \notin {"absent", "deleting"}
      BY <1>1, <3>5 DEF AtHome, LBsAtHome, HasLB, KeptShrinks
    <3>10. \A x \in VipIds : \/ vips'[x].st = "absent" /\ vips'[x].by = NoOwner
                             \/ vips'[x] = vips[x] /\ vips[x].st \in {"pending", "active"}
      BY <1>1, <3>7 DEF AtHome, VIPsAtHome, TypeOK, CMPTypeOK, VIPRecord, NoVIP
    <3>11. \A l \in LbIds : lbs[l].st # "absent" => lbs[l].st \in {"pending", "ready", "deleting"}
      BY <1>1 DEF AtHome, LBsAtHome
    <3>12. CMPAges
      BY <3>4, <3>8, <3>9, <3>10, <3>11 DEF CMPAges
    <3> QED
      BY <1>5, <1>8, <3>2, <3>3, <3>4, <3>12
  <2> QED
    BY <1>13, <2>1, <2>2 DEF CleanVIP
<1>14. CASE CleanLB
  <2>1. pc = "clean-lb" /\ Continue("clean-lb-get", w) /\ LBDeleteAccepted(w.lb) /\ UNCHANGED <<vips, vss>>
    BY <1>14 DEF CleanLB
  <2>2. w.lb = w.base.lb
    BY <1>5, <2>1 DEF HandInv
  <2>3. OwnLB(w.svc, w.lb)
    BY <1>3, <2>2 DEF OwnIds
  <2>4. KeptShrinks
    BY <1>5, <1>6, <2>1 DEF Continue
  <2>5. CASE ~LBVisible(w.lb)
    BY <1>5, <1>10, <2>1, <2>5 DEF LBDeleteAccepted
  <2>6. CASE LBVisible(w.lb)
    <3>1. PICK l : l = w.lb
      OBVIOUS
    <3>2. l \in LbIds /\ lbs[l].st # "absent" /\ lbs[l].name = w.svc
      BY <1>3, <2>3, <2>6, <3>1 DEF Work, LBVisible, Visible, OwnLB
    <3>3. PICK r : r = [lbs[l] EXCEPT !.st = "deleting"]
      OBVIOUS
    <3>4. r.name = lbs[l].name /\ r.st = "deleting"
      BY <1>1, <3>2, <3>3 DEF TypeOK, CMPTypeOK, LBRecord
    <3>5. lbs'[l] = r /\ \A m \in LbIds : m # l => lbs'[m] = lbs[m]
      BY <1>1, <2>1, <2>6, <3>1, <3>2, <3>3 DEF LBDeleteAccepted, TypeOK, CMPTypeOK
    <3>6. \A s \in Services : Kept(s)' => \A m \in LbIds : HasLB(s, m) => lbs'[m].st \notin {"absent", "deleting"}
      BY <1>1, <1>3, <2>4, <3>2, <3>5 DEF AtHome, LBsAtHome, HasLB, KeptShrinks
    <3>7. \A s \in Services : \A x \in VipIds : HasVIP(s, x) => vips[x].st # "absent"
      BY DEF HasVIP
    <3>8. \A x \in VipIds : \/ vips[x].st = "absent" /\ vips[x].by = NoOwner
                            \/ /\ vips[x].st \in {"pending", "active"}
                               /\ lbs[vips[x].lb].st # "absent" => lbs'[vips[x].lb].st # "absent"
      BY <1>1, <3>2, <3>4, <3>5 DEF AtHome, VIPsAtHome, HasLB, TypeOK, CMPTypeOK, VIPRecord
    <3>9. \A m \in LbIds : lbs'[m].st # "absent" =>
              /\ lbs[m].st # "absent" /\ lbs'[m].name = lbs[m].name
              /\ lbs'[m].st \in {"pending", "ready", "deleting"}
      BY <1>1, <3>2, <3>4, <3>5 DEF AtHome, LBsAtHome
    <3>10. \A x \in VsIds : vss[x].st # "absent" => lbs'[vss[x].lb].st # "absent"
      BY <1>1, <3>2, <3>4, <3>5 DEF AtHome, VSsAtHome, HasLB
    <3>11. CMPAges
      BY <2>1, <3>6, <3>7, <3>8, <3>9, <3>10 DEF CMPAges
    <3> QED
      BY <1>5, <1>8, <2>1, <3>11
  <2> QED
    BY <2>5, <2>6
<1>15. CASE ConfirmLBGone
  BY <1>5, <1>7, <1>10, <1>15 DEF ConfirmLBGone
<1>16. CASE RemoveFinalizer
  <2>1. /\ pc' = "idle" /\ UNCHANGED <<lbs, vips, vss>>
        /\ \A t \in Services : ann'[t] \in {ann[t], NoAnnotations}
    BY <1>1, <1>16 DEF RemoveFinalizer, TypeOK
  <2>2. \A t \in Services : obj'[t].del = obj[t].del /\ (obj'[t].del \/ obj'[t].there)
    BY <1>1, <1>3, <1>16 DEF RemoveFinalizer, TypeOK, Object
  <2>3. KeptShrinks
    BY <2>1, <2>2 DEF KeptShrinks, Kept, Ensuring, EnsurePCs
  <2>4. CMPAges /\ ObjectsAge
    BY <1>1, <2>1, <2>2, <2>3, SameAges DEF ObjectsAge
  <2> QED
    BY <2>1, <2>3, <2>4, StayHome
<1> QED
  BY <1>9, <1>11, <1>12, <1>13, <1>14, <1>15, <1>16 DEF Cleanup

(* A pass that is broken off, and the look-outs that find nothing to do.     *)
LEMMA BrokenHome ==
    ASSUME HomeInv, PublishVIP \/ CallRefused \/ FailedCall
    PROVE  HomeInv' /\ KeptShrinks
<1>1. pc' = "idle" /\ UNCHANGED <<obj, ann, lbs, vips, vss>>
  BY DEF PublishVIP, CallRefused, FailedCall, Return
<1> QED
  BY <1>1, IdleHome

(* What has not failed is not deleted to be made again.                      *)
LEMMA NothingFailed == HomeInv => ~DeleteFailedLB /\ ~DeleteFailedVIP
BY DEF HomeInv, HandAt, EnsureAt, DeleteFailedLB, DeleteFailedVIP, EnsurePCs

(* What the rest rests on.                                                   *)
BaseInv == SeedInv /\ UniqueInv /\ ParentInv /\ HandInv

(* The steps that ensure.                                                    *)
LEMMA EnsureHome ==
    ASSUME BaseInv, HomeInv, Recoverable, SeedEnsure
    PROVE  HomeInv' /\ KeptShrinks
<1>1. BridgeInv /\ TypeOK /\ PassInv /\ OnePort /\ UniqueInv /\ ParentInv
  BY DEF BaseInv, SeedInv, BridgeInv
<1>2. CASE EnsureFinalizer \/ SeedLoad
  BY <1>1, <1>2, LoadHome
<1>3. CASE GetRecordedLB \/ FindLBByName \/ CheckCreatedLB \/ WithoutCheckpoint
  BY <1>1, <1>3, FindHome
<1>4. CASE CreateLB
  BY <1>1, <1>4, CreateLBHome
<1>5. CASE RecoverByName
  BY <1>1, <1>5, RecoverHome
<1>6. CASE EnsureVIP
  BY <1>1, <1>6, EnsureVIPHome
<1>7. CASE CreateVIP
  BY <1>1, <1>7, CreateVIPHome
<1>8. CASE \E p \in Ports : SeedEnsureListener(p)
  BY <1>1, <1>8, EnsureListenerHome
<1>9. CASE DeleteListener
  BY <1>1, <1>9, DeleteListenerHome
<1>10. CASE CreateListener
  BY <1>1, <1>10, CreateListenerHome
<1>11. CASE CheckCreatedListener
  BY <1>1, <1>11, CheckListenerHome
<1>12. CASE DeleteObsoleteListener
  BY <1>1, <1>12, ObsoleteHome
<1>13. CASE SeedPersist
  BY <1>1, <1>13, PersistHome
<1>14. CASE PublishVIP
  BY <1>14, BrokenHome
<1> QED
  BY <1>2, <1>3, <1>4, <1>5, <1>6, <1>7, <1>8, <1>9, <1>10, <1>11, <1>12, <1>13, <1>14, NothingFailed
  DEF SeedEnsure

(* Every step is one of these.                                               *)
LEMMA SeedStepParts ==
    ASSUME [SeedNext]_vars
    PROVE  \/ SeedEnsure \/ Cleanup \/ CallRefused \/ FailedCall \/ SeedProvider \/ UNCHANGED vars
           \/ \E s \in Services : SeedBeginEnsure(s) \/ SeedBeginCleanup(s)
           \/ \E s \in Services : \/ ChangeType(s) \/ SeedChangePort(s) \/ ChangeBackends(s)
                                  \/ DeleteService(s) \/ InformerSync(s) \/ Resync(s) \/ SeedIgnore(s)
<1>1. CASE SeedWorker
  BY <1>1 DEF SeedWorker, SeedStartPass
<1>2. CASE SeedDisturbance
  BY <1>2 DEF SeedDisturbance, SeedProvider
<1>3. CASE Provider
  BY <1>3 DEF SeedProvider
<1> QED
  BY <1>1, <1>2, <1>3 DEF SeedNext

(* Every step keeps it.                                                      *)
LEMMA SeedNextHome ==
    ASSUME BaseInv, HomeInv, Recoverable, [SeedNext]_vars
    PROVE  HomeInv' /\ KeptShrinks
<1>1. BridgeInv /\ TypeOK /\ UniqueInv /\ HandInv /\ ~StaleReads
  BY DEF BaseInv, SeedInv, BridgeInv, Recoverable
<1>2. CASE SeedEnsure
  BY <1>2, EnsureHome
<1>3. CASE Cleanup
  BY <1>1, <1>3, CleanupHome
<1>4. CASE CallRefused \/ FailedCall
  BY <1>4, BrokenHome
<1>5. CASE SeedProvider
  BY <1>1, <1>5, ProviderHome
<1>6. CASE UNCHANGED vars
  <2>1. UNCHANGED <<pc, w, obj, ann, lbs, vips, vss>>
    BY <1>6 DEF vars
  <2>2. KeptShrinks
    BY <2>1 DEF KeptShrinks, Kept, Ensuring
  <2>3. CMPAges /\ ObjectsAge
    BY <1>1, <2>1, <2>2, SameAges DEF ObjectsAge, HomeInv, RecordsHold
  <2> QED
    BY <1>1, <2>1, <2>2, <2>3, StayHome
<1>7. CASE \E s \in Services : SeedBeginEnsure(s) \/ SeedBeginCleanup(s)
  BY <1>1, <1>7, BeginHome
<1>8. CASE \E s \in Services : \/ ChangeType(s) \/ SeedChangePort(s) \/ ChangeBackends(s)
                               \/ DeleteService(s) \/ InformerSync(s) \/ Resync(s) \/ SeedIgnore(s)
  BY <1>1, <1>8, UserHome
<1> QED
  BY <1>2, <1>3, <1>4, <1>5, <1>6, <1>7, <1>8, SeedStepParts

(* Users bring nothing, so nothing is there at first.                        *)
LEMMA InitHome == ASSUME Recoverable, SeedInit PROVE HomeInv
<1>1. /\ lbs = [l \in LbIds |-> NoLB] /\ vips = [v \in VipIds |-> NoVIP]
      /\ vss = [v \in VsIds |-> NoVS]
  BY DEF SeedInit, Init, CMPInit, Recoverable
<1>2. AtHome
  BY <1>1 DEF AtHome, LBsAtHome, VIPsAtHome, VSsAtHome, NoLB, NoVIP, NoVS
<1>3. \A s \in Services : ann[s] = NoAnnotations /\ ~obj[s].del /\ obj[s].there
  BY DEF SeedInit, Init, Recoverable, InitialAnnotations, Supplied
<1>4. \A s \in Services : OwnIds(s, ann[s]) /\ Holds(s, ann[s])
  <2> SUFFICES ASSUME NEW s \in Services PROVE OwnIds(s, ann[s]) /\ Holds(s, ann[s])
    OBVIOUS
  <2>1. PICK a : a = ann[s]
    OBVIOUS
  <2>2. a = NoAnnotations
    BY <1>3, <2>1
  <2>3. a.lb = NoId /\ a.vip = NoId /\ a.graph.vip = NoId /\ a.graph.legacyVip = NoId
        /\ \A p \in Ports : a.graph.vs[p] = NoListener
    BY <2>2 DEF NoAnnotations, NoGraph
  <2>4. OwnIds(s, a) /\ Holds(s, a)
    BY <2>3 DEF OwnIds, OwnLB, OwnVIP, Holds
  <2> QED
    BY <2>1, <2>4
<1>5. HandAt(pc, w)
  BY DEF SeedInit, Init, HandAt, EnsurePCs, CleanupPCs
<1> QED
  BY <1>2, <1>3, <1>4, <1>5 DEF HomeInv, RecordsHold

(* So it holds in every state.                                               *)
LEMMA SeedBaseInvariant == ASSUME Recoverable PROVE SeedSpec => []BaseInv
<1>1. ~StaleReads /\ "hidden" \notin Born
  BY DEF Recoverable
<1>2. SeedCleanInv => HandInv
  BY DEF SeedCleanInv
<1> QED
  BY <1>1, <1>2, SeedInvariant, SeedUniqueInvariant, SeedParentInvariant, SeedCleanInvariant, PTL
  DEF BaseInv
LEMMA SeedHomeInvariant == ASSUME Recoverable PROVE SeedSpec => []HomeInv
<1>1. SeedInit => HomeInv
  BY InitHome
<1>2. BaseInv /\ HomeInv /\ [SeedNext]_vars => HomeInv'
  BY SeedNextHome
<1> QED
  BY <1>1, <1>2, SeedBaseInvariant, PTL DEF SeedSpec

-----------------------------------------------------------------------------
(* Every VIP but one is paid for by a disturbance.                           *)

(* A pass finds its way back to the VIP it once had through the annotation,  *)
(* or through a listener it need not delete; on its way to the create of the *)
(* listener it has the VIP in hand.                                          *)
VIPsOf(s) == {v \in VipIds : vips[v].by = s}
Anchored(s, P, a) ==
    a.vip # NoId \/ \E v \in VsIds : Healthy(vss[v].st) /\ vss[v].by = s /\ vss[v].port \in P
OnItsWay(s) == pc \in {"listener", "vs-create"} /\ NoListenerOn(s, w.ports)
Anchor(s) == IF Ensuring(s) THEN Anchored(s, w.ports, w.base) \/ OnItsWay(s)
             ELSE Anchored(s, obj[s].ports, ann[s])

(* The port has changed under the pass, which was a disturbance of its own.  *)
Moved(s) == Ensuring(s) /\ obj[s].ports # w.ports

(* Without an anchor the next pass will create a VIP, and there is one       *)
(* disturbance to pay for it; if the port has changed under the pass there   *)
(* is one to spare, as what the pass finds is lost on the next.              *)
Credit(s) ==
    /\ IsFiniteSet(VIPsOf(s)) /\ Cardinality(VIPsOf(s)) <= faults + 1
    /\ Kept(s) => /\ Anchor(s) \/ Cardinality(VIPsOf(s)) <= faults
                  /\ Moved(s) => /\ Cardinality(VIPsOf(s)) <= faults
                                 /\ Anchor(s) \/ Cardinality(VIPsOf(s)) < faults
CreditInv == \A s \in Services : Credit(s)

(* Fewer VIPs are a smaller number.                                          *)
LEMMA FewerVIPs ==
    ASSUME NEW s, Credit(s), VIPsOf(s)' \subseteq VIPsOf(s)
    PROVE  /\ IsFiniteSet(VIPsOf(s)') /\ Cardinality(VIPsOf(s)) \in Nat
           /\ Cardinality(VIPsOf(s)') \in Nat /\ Cardinality(VIPsOf(s)') <= Cardinality(VIPsOf(s))
<1>1. IsFiniteSet(VIPsOf(s))
  BY DEF Credit
<1>2. PICK S, T : S = VIPsOf(s) /\ T = VIPsOf(s)'
  OBVIOUS
<1>3. IsFiniteSet(S) /\ T \subseteq S
  BY <1>1, <1>2
<1>4. IsFiniteSet(T) /\ Cardinality(T) <= Cardinality(S)
  BY <1>3, FS_Subset
<1> QED
  BY <1>2, <1>3, <1>4, FS_CardinalityType

(* A step that costs no VIP and no anchor, or is one back on the new port.   *)
LEMMA CreditStays ==
    ASSUME NEW s, Credit(s), faults \in Nat, VIPsOf(s)' \subseteq VIPsOf(s), faults' = faults,
           Kept(s)' => /\ Kept(s)
                       /\ \/ Moved(s) /\ ~Moved(s)'
                          \/ (Anchor(s) => Anchor(s)') /\ (Moved(s)' => Moved(s))
    PROVE  Credit(s)'
<1>1. PICK n, m : n = Cardinality(VIPsOf(s)) /\ m = Cardinality(VIPsOf(s)')
  OBVIOUS
<1>2. IsFiniteSet(VIPsOf(s)') /\ n \in Nat /\ m \in Nat /\ m <= n
  BY <1>1, FewerVIPs
<1>3. n <= faults + 1
  BY <1>1 DEF Credit
<1>4. Kept(s) => (Anchor(s) \/ n <= faults) /\ (Moved(s) => n <= faults /\ (Anchor(s) \/ n < faults))
  BY <1>1 DEF Credit
<1>5. m <= faults' + 1
  BY <1>2, <1>3
<1>6. Kept(s)' => /\ Anchor(s)' \/ m <= faults'
                  /\ Moved(s)' => m <= faults' /\ (Anchor(s)' \/ m < faults')
  BY <1>2, <1>3, <1>4
<1> QED
  BY <1>1, <1>2, <1>5, <1>6 DEF Credit

(* A disturbance pays for an anchor that is lost.                            *)
LEMMA CreditPaid ==
    ASSUME NEW s, Credit(s), faults \in Nat, VIPsOf(s)' \subseteq VIPsOf(s), faults' = faults + 1,
           Kept(s)' => Kept(s) /\ (Moved(s)' => Moved(s) \/ (Anchor(s) => Anchor(s)'))
    PROVE  Credit(s)'
<1>1. PICK n, m : n = Cardinality(VIPsOf(s)) /\ m = Cardinality(VIPsOf(s)')
  OBVIOUS
<1>2. IsFiniteSet(VIPsOf(s)') /\ n \in Nat /\ m \in Nat /\ m <= n
  BY <1>1, FewerVIPs
<1>3. n <= faults + 1
  BY <1>1 DEF Credit
<1>4. Kept(s) => (Anchor(s) \/ n <= faults) /\ (Moved(s) => n <= faults /\ (Anchor(s) \/ n < faults))
  BY <1>1 DEF Credit
<1>5. m <= faults' + 1
  BY <1>2, <1>3
<1>6. Kept(s)' => /\ Anchor(s)' \/ m <= faults'
                  /\ Moved(s)' => m <= faults' /\ (Anchor(s)' \/ m < faults')
  BY <1>2, <1>3, <1>4
<1> QED
  BY <1>1, <1>2, <1>5, <1>6 DEF Credit

(* A VIP is created where there is no anchor, and becomes one.               *)
LEMMA CreditUsed ==
    ASSUME NEW s, Credit(s), faults \in Nat, NEW u, VIPsOf(s)' \subseteq VIPsOf(s) \cup {u},
           faults' = faults, Kept(s), ~Anchor(s), Anchor(s)', Moved(s)' => Moved(s)
    PROVE  Credit(s)'
<1>1. PICK S, T : S = VIPsOf(s) /\ T = VIPsOf(s)'
  OBVIOUS
<1>2. IsFiniteSet(S)
  BY <1>1 DEF Credit
<1>3. IsFiniteSet(S \cup {u}) /\ Cardinality(S \cup {u}) <= Cardinality(S) + 1
  <2>1. Cardinality(S) \in Nat /\ Cardinality(S) <= Cardinality(S) + 1
    BY <1>2, FS_CardinalityType
  <2>2. /\ IsFiniteSet(S \cup {u})
        /\ \/ Cardinality(S \cup {u}) = Cardinality(S)
           \/ Cardinality(S \cup {u}) = Cardinality(S) + 1
    BY <1>2, FS_AddElement
  <2> QED
    BY <2>1, <2>2
<1>4. IsFiniteSet(T) /\ Cardinality(T) <= Cardinality(S \cup {u})
  BY <1>1, <1>3, FS_Subset
<1>5. PICK n, m : n = Cardinality(S) /\ m = Cardinality(T)
  OBVIOUS
<1>6. n \in Nat /\ m \in Nat /\ m <= n + 1
  BY <1>2, <1>3, <1>4, <1>5, FS_CardinalityType
<1>7. n <= faults /\ (Moved(s) => n < faults)
  BY <1>1, <1>5 DEF Credit
<1>8. m <= faults' + 1 /\ (Moved(s)' => m <= faults')
  BY <1>6, <1>7
<1> QED
  BY <1>1, <1>4, <1>5, <1>8 DEF Credit

(* An anchor lasts as long as the Service's healthy listeners do.            *)
HealthyStay(s, P) ==
    \A v \in VsIds : Healthy(vss[v].st) /\ vss[v].by = s /\ vss[v].port \in P =>
        Healthy(vss'[v].st) /\ vss'[v].by = s /\ vss'[v].port = vss[v].port
LEMMA AnchoredStays ==
    ASSUME NEW s, NEW P, NEW a, Anchored(s, P, a), HealthyStay(s, P)
    PROVE  Anchored(s, P, a)'
<1>1. CASE a.vip # NoId
  BY <1>1 DEF Anchored
<1>2. CASE \E v \in VsIds : Healthy(vss[v].st) /\ vss[v].by = s /\ vss[v].port \in P
  <2>1. PICK v \in VsIds : Healthy(vss[v].st) /\ vss[v].by = s /\ vss[v].port \in P
    BY <1>2
  <2>2. Healthy(vss'[v].st) /\ vss'[v].by = s /\ vss'[v].port \in P
    BY <2>1 DEF HealthyStay
  <2>3. \E x \in VsIds : Healthy(vss'[x].st) /\ vss'[x].by = s /\ vss'[x].port \in P
    BY <2>2
  <2> QED
    BY <2>3 DEF Anchored, Healthy
<1> QED
  BY <1>1, <1>2 DEF Anchored

(* No pass is about the Service.                                             *)
LEMMA RestCredit ==
    ASSUME NEW s \in Services, Credit(s), faults \in Nat, faults' = faults, ~Ensuring(s), ~Ensuring(s)',
           VIPsOf(s)' \subseteq VIPsOf(s),
           Kept(s)' => /\ Kept(s) /\ obj'[s].ports = obj[s].ports /\ ann'[s] = ann[s]
                       /\ HealthyStay(s, obj[s].ports)
    PROVE  Credit(s)'
<1>1. ASSUME Kept(s)', Anchor(s) PROVE Anchor(s)'
  <2>1. PICK P, a : P = obj[s].ports /\ a = ann[s]
    OBVIOUS
  <2>2. Anchored(s, P, a)
    BY <1>1, <2>1 DEF Anchor
  <2>3. HealthyStay(s, P)
    BY <1>1, <2>1 DEF HealthyStay
  <2>4. Anchored(s, P, a)'
    BY <2>2, <2>3, AnchoredStays
  <2> QED
    BY <1>1, <2>1, <2>4 DEF Anchor
<1>2. ~Moved(s)'
  BY DEF Moved
<1> QED
  BY <1>1, <1>2, CreditStays

(* The pass goes on.                                                         *)
LEMMA OnCredit ==
    ASSUME NEW s \in Services, Credit(s), faults \in Nat, faults' = faults, Ensuring(s), Ensuring(s)',
           VIPsOf(s)' \subseteq VIPsOf(s), obj'[s].ports = obj[s].ports, w'.ports = w.ports,
           w'.base = w.base, HealthyStay(s, w.ports) \/ w.base.vip # NoId,
           OnItsWay(s) => OnItsWay(s)' \/ Anchored(s, w.ports, w.base)'
    PROVE  Credit(s)'
<1>1. ASSUME Anchored(s, w.ports, w.base) PROVE Anchored(s, w.ports, w.base)'
  <2>1. PICK P, a : P = w.ports /\ a = w.base
    OBVIOUS
  <2>2. Anchored(s, P, a)'
    BY <1>1, <2>1, AnchoredStays DEF Anchored
  <2> QED
    BY <2>1, <2>2
<1>2. Anchor(s) => Anchor(s)'
  BY <1>1 DEF Anchor
<1>3. Kept(s) /\ (Moved(s)' => Moved(s))
  BY DEF Kept, Moved
<1> QED
  BY <1>2, <1>3, CreditStays

(* The pass ends.                                                            *)
LEMMA EndCredit ==
    ASSUME NEW s \in Services, Credit(s), faults \in Nat, faults' = faults, Ensuring(s), ~Ensuring(s)',
           VIPsOf(s)' \subseteq VIPsOf(s), obj'[s] = obj[s], ann'[s] = ann[s], ParentInv, RecordsHold,
           HealthyStay(s, w.ports) \/ w.base.vip # NoId, OnItsWay(s) => w.base.vip # NoId \/ obj[s].del
    PROVE  Credit(s)'
<1>1. ASSUME Kept(s)', ~Moved(s), Anchor(s) PROVE Anchor(s)'
  <2>1. ~obj[s].del /\ obj[s].there /\ obj[s].ports = w.ports
    BY <1>1 DEF Kept, Moved, RecordsHold
  <2>2. w.base = ann[s]
    BY <2>1 DEF ParentInv, Current, Ensuring, EnsurePCs
  <2>3. PICK P, a : P = obj[s].ports /\ a = ann[s]
    OBVIOUS
  <2>4. Anchored(s, P, a)
    BY <1>1, <2>1, <2>2, <2>3 DEF Anchor, Anchored
  <2>5. HealthyStay(s, P) \/ a.vip # NoId
    BY <2>1, <2>2, <2>3 DEF HealthyStay
  <2>6. Anchored(s, P, a)'
    BY <2>4, <2>5, AnchoredStays DEF Anchored
  <2> QED
    BY <2>3, <2>6 DEF Anchor
<1>2. Kept(s) /\ ~Moved(s)'
  BY DEF Kept, Moved
<1> QED
  BY <1>1, <1>2, CreditStays

(* A step of a pass that leaves VIPs and listeners as they are.              *)
LEMMA QuietCredit ==
    ASSUME TypeOK, CreditInv, ParentInv, RecordsHold, pc \in EnsurePCs,
           UNCHANGED <<ann, faults, vips, vss>>, \A s \in Services : obj'[s].ports = obj[s].ports,
           \/ /\ pc' \in EnsurePCs /\ w'.svc = w.svc /\ w'.ports = w.ports /\ w'.base = w.base
              /\ \A s \in Services : obj'[s].del = obj[s].del
              /\ OnItsWay(w.svc) /\ w.base.vip = NoId => pc' \in {"listener", "vs-create"}
           \/ /\ pc' = "idle" /\ UNCHANGED obj
              /\ OnItsWay(w.svc) => w.base.vip # NoId \/ obj[w.svc].del
    PROVE  CreditInv'
<1> SUFFICES ASSUME NEW s \in Services PROVE Credit(s)'
  BY DEF CreditInv
<1>1. Credit(s) /\ faults \in Nat /\ VIPsOf(s)' \subseteq VIPsOf(s) /\ faults' = faults
      /\ \A P : HealthyStay(s, P)
  BY DEF CreditInv, TypeOK, VIPsOf, HealthyStay
<1>2. CASE ~Ensuring(s)
  <2>1. ~Ensuring(s)'
    BY <1>2 DEF Ensuring, EnsurePCs
  <2>2. Kept(s)' => Kept(s)
    BY <1>2, <2>1 DEF Kept
  <2> QED
    BY <1>1, <1>2, <2>1, <2>2, RestCredit
<1>3. CASE Ensuring(s) /\ pc' = "idle"
  <2>1. ~Ensuring(s)' /\ s = w.svc
    BY <1>3 DEF Ensuring, EnsurePCs
  <2>2. UNCHANGED obj /\ (OnItsWay(s) => w.base.vip # NoId \/ obj[s].del)
    BY <1>3, <2>1 DEF EnsurePCs
  <2> QED
    BY <1>1, <1>3, <2>1, <2>2, EndCredit
<1>4. CASE Ensuring(s) /\ pc' # "idle"
  <2>1. /\ Ensuring(s)' /\ s = w.svc /\ w'.ports = w.ports /\ w'.base = w.base
        /\ OnItsWay(s) /\ w.base.vip = NoId => pc' \in {"listener", "vs-create"}
    BY <1>4 DEF Ensuring
  <2>2. OnItsWay(s) => OnItsWay(s)' \/ Anchored(s, w.ports, w.base)'
    BY <2>1 DEF OnItsWay, Anchored, NoListenerOn
  <2> QED
    BY <1>1, <1>4, <2>1, <2>2, OnCredit
<1> QED
  BY <1>2, <1>3, <1>4

(* The calls before a listener is asked for, and those that only look.       *)
LEMMA LookingCredit ==
    ASSUME BaseInv, HomeInv, CreditInv,
           \/ EnsureFinalizer \/ SeedLoad \/ GetRecordedLB \/ FindLBByName \/ CreateLB
           \/ CheckCreatedLB \/ WithoutCheckpoint \/ RecoverByName \/ EnsureVIP
           \/ CheckCreatedListener \/ PublishVIP
    PROVE  CreditInv'
<1>1. TypeOK /\ ParentInv /\ RecordsHold /\ ~DeleteFailedLB /\ ~DeleteFailedVIP
  BY NothingFailed DEF BaseInv, SeedInv, BridgeInv, HomeInv
<1>2. w \in Work /\ w.graph \in Graph
  BY <1>1 DEF TypeOK, Work
<1>3. ASSUME pc \in EnsurePCs, ~OnItsWay(w.svc), UNCHANGED <<vips, vss>>,
             NEW next \in EnsurePCs, NEW work, Continue(next, work),
             work.svc = w.svc, work.ports = w.ports, work.base = w.base
      PROVE  CreditInv'
  BY <1>1, <1>3, QuietCredit DEF Continue
<1>4. ASSUME pc \in EnsurePCs, ~OnItsWay(w.svc), UNCHANGED <<vips, vss>>, NEW again, Return(again)
      PROVE  CreditInv'
  BY <1>1, <1>4, QuietCredit DEF Return
<1>5. {"load", "lb-get", "lb-find", "lb-create", "lb-delete", "lb-check", "checkpoint", "recover", "vip",
       "vip-create", "vip-delete", "listener", "vs-delete"} \subseteq EnsurePCs
  BY DEF EnsurePCs
<1>6. CASE EnsureFinalizer
  <2>1. /\ pc = "finalizer" /\ pc \in EnsurePCs /\ ~OnItsWay(w.svc) /\ w.svc \in Services
        /\ obj[w.svc].there
    BY <1>1, <1>6 DEF EnsureFinalizer, EnsurePCs, OnItsWay, TypeOK
  <2>2. w.base = ann[w.svc]
    BY <1>1, <2>1 DEF ParentInv, Current
  <2>3. /\ pc' \in EnsurePCs /\ w'.svc = w.svc /\ w'.ports = w.ports /\ w'.base = w.base
        /\ UNCHANGED <<ann, faults, vips, vss>>
    BY <1>2, <1>5, <1>6, <2>2 DEF EnsureFinalizer, Work
  <2>4. \A s \in Services : obj'[s].ports = obj[s].ports /\ obj'[s].del = obj[s].del
    BY <1>1, <1>6, <2>1 DEF EnsureFinalizer, TypeOK
  <2> QED
    BY <1>1, <2>1, <2>3, <2>4, QuietCredit
<1>7. CASE SeedLoad
  <2>1. pc = "load" /\ pc \in EnsurePCs /\ ~OnItsWay(w.svc) /\ UNCHANGED <<vips, vss>>
    BY <1>7 DEF SeedLoad, EnsurePCs, OnItsWay
  <2>2. PICK work : work = [w EXCEPT !.lb = w.base.lb, !.vip = w.base.vip,
                                     !.graph = EnsureGraph(w.base.graph, w.base.lb, w.base.vip)]
    OBVIOUS
  <2>3. work.svc = w.svc /\ work.ports = w.ports /\ work.base = w.base
    BY <1>2, <2>2 DEF Work
  <2>4. Continue(IF w.base.lb = NoId THEN "lb-find" ELSE "lb-get", work)
    BY <1>7, <2>2 DEF SeedLoad
  <2> QED
    BY <1>3, <1>5, <2>1, <2>3, <2>4
<1>8. \A l, v, g, o : /\ [w EXCEPT !.lb = l].svc = w.svc /\ [w EXCEPT !.lb = l].ports = w.ports
                      /\ [w EXCEPT !.lb = l].base = w.base
                      /\ [w EXCEPT !.outcome = o].svc = w.svc /\ [w EXCEPT !.outcome = o].ports = w.ports
                      /\ [w EXCEPT !.outcome = o].base = w.base
                      /\ [w EXCEPT !.graph = g].svc = w.svc /\ [w EXCEPT !.graph = g].ports = w.ports
                      /\ [w EXCEPT !.graph = g].base = w.base
                      /\ [w EXCEPT !.vip = v, !.graph = g].svc = w.svc
                      /\ [w EXCEPT !.vip = v, !.graph = g].ports = w.ports
                      /\ [w EXCEPT !.vip = v, !.graph = g].base = w.base
  BY <1>2 DEF Work
<1>9. CASE GetRecordedLB
  <2>1. pc = "lb-get" /\ pc \in EnsurePCs /\ ~OnItsWay(w.svc) /\ UNCHANGED <<vips, vss>>
    BY <1>9 DEF GetRecordedLB, EnsurePCs, OnItsWay
  <2>2. \/ Continue("checkpoint", [w EXCEPT !.outcome = LBOutcome(lbs[w.lb].st)])
        \/ Continue("lb-delete", w) \/ Return(TRUE) \/ Continue("lb-find", [w EXCEPT !.lb = NoId])
    BY <1>9 DEF GetRecordedLB
  <2> QED
    BY <1>3, <1>4, <1>5, <1>8, <2>1, <2>2
<1>10. CASE FindLBByName
  <2>1. pc = "lb-find" /\ pc \in EnsurePCs /\ ~OnItsWay(w.svc) /\ UNCHANGED <<vips, vss>>
    BY <1>10 DEF FindLBByName, EnsurePCs, OnItsWay
  <2>2. \/ \E l : Continue("lb-check", [w EXCEPT !.lb = l])
        \/ Continue("lb-create", w) \/ Return(TRUE)
    BY <1>10 DEF FindLBByName
  <2> QED
    BY <1>3, <1>4, <1>5, <1>8, <2>1, <2>2
<1>11. CASE CreateLB
  <2>1. pc = "lb-create" /\ pc \in EnsurePCs /\ ~OnItsWay(w.svc) /\ UNCHANGED <<vips, vss>>
    BY <1>11 DEF CreateLB, EnsurePCs, OnItsWay
  <2>2. \E l : Continue("lb-check", [w EXCEPT !.lb = l])
    BY <1>11 DEF CreateLB
  <2> QED
    BY <1>3, <1>5, <1>8, <2>1, <2>2
<1>12. CASE CheckCreatedLB
  <2>1. pc = "lb-check" /\ pc \in EnsurePCs /\ ~OnItsWay(w.svc) /\ UNCHANGED <<vips, vss>>
    BY <1>12 DEF CheckCreatedLB, EnsurePCs, OnItsWay
  <2>2. \E o : Continue("checkpoint", [w EXCEPT !.outcome = o])
    BY <1>12 DEF CheckCreatedLB
  <2> QED
    BY <1>3, <1>5, <1>8, <2>1, <2>2
<1>13. CASE WithoutCheckpoint
  <2>1. pc = "checkpoint" /\ pc \in EnsurePCs /\ ~OnItsWay(w.svc) /\ UNCHANGED <<vips, vss>>
    BY <1>13 DEF WithoutCheckpoint, EnsurePCs, OnItsWay
  <2>2. Continue("recover", [w EXCEPT !.graph = WithLB(w.graph)]) \/ Return(TRUE)
    BY <1>13 DEF WithoutCheckpoint
  <2> QED
    BY <1>3, <1>4, <1>5, <1>8, <2>1, <2>2
<1>14. CASE RecoverByName
  <2>1. pc = "recover" /\ pc \in EnsurePCs /\ ~OnItsWay(w.svc) /\ UNCHANGED <<vips, vss>>
    BY <1>14 DEF RecoverByName, EnsurePCs, OnItsWay
  <2>2. ASSUME NEW v, NEW g, Continue("vip", [w EXCEPT !.vip = v, !.graph = g]) PROVE CreditInv'
    <3>1. PICK work : work = [w EXCEPT !.vip = v, !.graph = g]
      OBVIOUS
    <3>2. work.svc = w.svc /\ work.ports = w.ports /\ work.base = w.base
      BY <1>8, <3>1
    <3>3. Continue("vip", work)
      BY <2>2, <3>1
    <3> QED
      BY <1>3, <1>5, <2>1, <3>2, <3>3
  <2>3. CASE Continue("vip", w) \/ Return(TRUE)
    BY <1>3, <1>4, <1>5, <2>1, <2>3
  <2>4. \/ Continue("vip", w) \/ Return(TRUE)
        \/ \E v, g : Continue("vip", [w EXCEPT !.vip = v, !.graph = g])
    BY <1>14 DEF RecoverByName
  <2> QED
    BY <2>2, <2>3, <2>4
<1>15. CASE EnsureVIP
  <2>1. pc = "vip" /\ pc \in EnsurePCs /\ ~OnItsWay(w.svc) /\ UNCHANGED <<vips, vss>>
    BY <1>15 DEF EnsureVIP, EnsurePCs, OnItsWay
  <2>2. \/ UseVIP(w.vip, TRUE) \/ Continue("vip-delete", w) \/ Return(TRUE) \/ Continue("vip-create", w)
    BY <1>15 DEF EnsureVIP
  <2>3. ASSUME UseVIP(w.vip, TRUE) PROVE CreditInv'
    <3>1. PICK work : work = [w EXCEPT !.vip = w.vip, !.addressed = TRUE, !.todo = w.ports,
                                       !.graph = WithVIP(w.graph, w.vip)]
      OBVIOUS
    <3>2. work.svc = w.svc /\ work.ports = w.ports /\ work.base = w.base
      BY <1>2, <3>1 DEF Work
    <3>3. Continue("listener", work)
      BY <2>3, <3>1 DEF UseVIP
    <3> QED
      BY <1>3, <1>5, <2>1, <3>2, <3>3
  <2> QED
    BY <1>3, <1>4, <1>5, <2>1, <2>2, <2>3
<1>16. CASE CheckCreatedListener
  <2>1. pc = "vs-check" /\ pc \in EnsurePCs /\ ~OnItsWay(w.svc) /\ UNCHANGED <<vips, vss>>
    BY <1>16 DEF CheckCreatedListener, EnsurePCs, OnItsWay
  <2>2. PICK work : work = DoneWith(NextPort, w.vs)
    OBVIOUS
  <2>3. work.svc = w.svc /\ work.ports = w.ports /\ work.base = w.base
    BY <1>2, <2>2 DEF Work, DoneWith
  <2>4. Continue("listener", work) \/ Continue("vs-delete", w) \/ Return(TRUE)
    BY <1>16, <2>2 DEF CheckCreatedListener
  <2> QED
    BY <1>3, <1>4, <1>5, <2>1, <2>3, <2>4
<1>17. CASE PublishVIP
  <2>1. pc = "publish" /\ pc \in EnsurePCs /\ ~OnItsWay(w.svc)
    BY <1>17 DEF PublishVIP, EnsurePCs, OnItsWay
  <2>2. pc' = "idle" /\ UNCHANGED <<obj, ann, faults, vips, vss>>
    BY <1>17 DEF PublishVIP
  <2> QED
    BY <1>1, <2>1, <2>2, QuietCredit
<1> QED
  BY <1>6, <1>7, <1>9, <1>10, <1>11, <1>12, <1>13, <1>14, <1>15, <1>16, <1>17

(* The listeners a pass has in hand are its Service's.                       *)
LEMMA HandOwned ==
    ASSUME RecordedOwned, NEW p \in Ports, NEW x, x = w.graph.vs[p].id, x # NoId
    PROVE  vss[x].st = "absent" \/ (vss[x].by = w.svc /\ vss[x].port = p)
<1>1. OwnListeners(vss, w.svc, w.graph)
  BY DEF RecordedOwned, WorkOwned
<1> QED
  BY <1>1 DEF OwnListeners

(* On its way to the listener's create the pass meets nothing in between.    *)
LEMMA WayIsClear ==
    ASSUME BaseInv, HomeInv, pc = "listener", OnItsWay(w.svc), w.base.vip = NoId, NEW p \in w.ports
    PROVE  ~SeedListenerRefused(p) /\ SeedListener(p) = NoId
<1>1. /\ TypeOK /\ UniqueInv /\ RecordedOwned /\ pc \in EnsurePCs /\ pc \in WithLBPCs
      /\ NoListenerOn(w.svc, w.ports) /\ VirtualServerID = NoId
  BY KeepsAdopted DEF BaseInv, SeedInv, BridgeInv, EnsurePCs, WithLBPCs, SettledPCs, ServePCs, OnItsWay
<1>2. /\ w \in Work /\ w.svc \in Services /\ w.graph \in Graph /\ p \in Ports /\ HasLB(w.svc, w.lb)
      /\ VSsAtHome
  BY <1>1, EnsureFacts DEF EnsureAt, Work
<1>3. NoId \notin VsIds
  BY IdAssumption
<1>4. \A v \in ListenersOn(w.lb) : v \in VsIds /\ vss[v].st # "absent" /\ vss[v].by = w.svc
  BY <1>2 DEF ListenersOn, Visible, VSsAtHome, HasLB
<1>5. \A v \in ListenersOn(w.lb) : vss[v].port # p
  BY <1>1, <1>4 DEF NoListenerOn
<1>6. ListenersNamed(w.svc, p) = {}
  BY <1>5 DEF ListenersNamed
<1>7. CurrentID(p) \notin ListenersOn(w.lb)
  <2>1. VirtualServerID = NoId
    BY <1>1
  <2>2. PICK x : x = w.graph.vs[p].id
    OBVIOUS
  <2>3. CurrentID(p) = x
    BY <2>1, <2>2 DEF CurrentID
  <2>4. x # NoId => vss[x].st = "absent" \/ vss[x].port = p
    BY <1>1, <1>2, <2>2, HandOwned
  <2> QED
    BY <1>3, <1>4, <1>5, <2>3, <2>4
<1>8. SeedRecorded(p) = NoId /\ SeedListener(p) = NoId
  BY <1>6, <1>7 DEF SeedRecorded, SeedListener
<1>9. ~FrontendTaken(p, CurrentID(p))
  BY <1>5 DEF FrontendTaken
<1>10. ~SeedAmbiguous(p)
  BY <1>6, FS_EmptySet DEF SeedAmbiguous, Ambiguous
<1> QED
  BY <1>8, <1>9, <1>10 DEF SeedListenerRefused

(* The step that looks at the listener.                                      *)
LEMMA ListenerCredit ==
    ASSUME BaseInv, HomeInv, CreditInv, NEW p \in Ports, SeedEnsureListener(p)
    PROVE  CreditInv'
<1>1. /\ TypeOK /\ OnePort /\ ParentInv /\ RecordsHold /\ pc = "listener" /\ pc \in EnsurePCs
      /\ p \in w.todo /\ UNCHANGED <<vips, vss>>
      /\ {"listener", "vs-create", "vs-delete"} \subseteq EnsurePCs
  BY DEF BaseInv, SeedInv, BridgeInv, HomeInv, SeedEnsureListener, EnsurePCs
<1>2. w \in Work /\ w.graph \in Graph /\ p \in w.ports
  BY <1>1, EnsureFacts DEF OnePort
<1>3. CASE OnItsWay(w.svc) /\ w.base.vip = NoId
  <2>1. Continue("vs-create", w)
    BY <1>1, <1>2, <1>3, WayIsClear DEF SeedEnsureListener
  <2> QED
    BY <1>1, <2>1, QuietCredit DEF Continue
<1>4. CASE ~(OnItsWay(w.svc) /\ w.base.vip = NoId)
  <2>1. ASSUME NEW next \in EnsurePCs, NEW work, Continue(next, work),
               work.svc = w.svc, work.ports = w.ports, work.base = w.base
        PROVE  CreditInv'
    BY <1>1, <1>4, <2>1, QuietCredit DEF Continue
  <2>2. CASE Return(TRUE)
    BY <1>1, <1>4, <2>2, QuietCredit DEF Return
  <2>3. PICK v : v = SeedListener(p)
    OBVIOUS
  <2>4. PICK one, two : one = [w EXCEPT !.vs = v] /\ two = DoneWith(p, v)
    OBVIOUS
  <2>5. /\ one.svc = w.svc /\ one.ports = w.ports /\ one.base = w.base
        /\ two.svc = w.svc /\ two.ports = w.ports /\ two.base = w.base
    BY <1>2, <2>4 DEF Work, DoneWith
  <2>6. \/ Return(TRUE) \/ Continue("vs-create", w) \/ Continue("vs-delete", one)
        \/ Continue("listener", two)
    BY <2>3, <2>4 DEF SeedEnsureListener
  <2> QED
    BY <1>1, <2>1, <2>2, <2>5, <2>6
<1> QED
  BY <1>3, <1>4

(* A call is refused to a deleted Service only, while the quota lasts.       *)
LEMMA RefusedCredit ==
    ASSUME BaseInv, HomeInv, CreditInv, UnusedVSs # {}, CallRefused
    PROVE  CreditInv'
<1>1. /\ TypeOK /\ UniqueInv /\ ParentInv /\ RecordsHold /\ pc' = "idle"
      /\ UNCHANGED <<obj, ann, faults, vips, vss>>
  BY DEF BaseInv, SeedInv, BridgeInv, HomeInv, CallRefused, Return
<1>2. CASE pc \in EnsurePCs
  <2>1. w.svc \in Services
    BY <1>1, <1>2, EnsureFacts
  <2>2. ASSUME OnItsWay(w.svc) PROVE obj[w.svc].del
    <3>1. pc \in {"listener", "vs-create"} /\ pc \in WithLBPCs
      BY <2>2 DEF OnItsWay, WithLBPCs, SettledPCs, ServePCs
    <3>2. HasLB(w.svc, w.lb)
      BY <1>1, <1>2, <3>1, EnsureFacts DEF EnsureAt
    <3>3. LBVisible(w.lb)
      BY <1>1, <1>2, <3>2, OwnListenerHere
    <3>4. ~obj[w.svc].there
      BY <3>1, <3>3 DEF CallRefused
    <3> QED
      BY <1>1, <2>1, <3>4 DEF RecordsHold
  <2> QED
    BY <1>1, <1>2, <2>2, QuietCredit
<1>3. CASE pc \notin EnsurePCs
  <2> SUFFICES ASSUME NEW s \in Services PROVE Credit(s)'
    BY DEF CreditInv
  <2>1. /\ Credit(s) /\ faults \in Nat /\ VIPsOf(s)' \subseteq VIPsOf(s) /\ ~Ensuring(s)
        /\ ~Ensuring(s)' /\ \A P : HealthyStay(s, P)
    BY <1>1, <1>3 DEF CreditInv, TypeOK, VIPsOf, HealthyStay, Ensuring, EnsurePCs
  <2>2. Kept(s)' => Kept(s)
    BY <1>1, <2>1 DEF Kept
  <2> QED
    BY <1>1, <2>1, <2>2, RestCredit
<1> QED
  BY <1>2, <1>3

(* A failed call, and what users do at a cost.                               *)
LEMMA PaidCredit ==
    ASSUME TypeOK, CreditInv, KeptShrinks, faults' = faults + 1, UNCHANGED <<vips, vss>>,
           pc' = "idle" \/ UNCHANGED <<pc, w>>
    PROVE  CreditInv'
<1> SUFFICES ASSUME NEW s \in Services PROVE Credit(s)'
  BY DEF CreditInv
<1>1. /\ Credit(s) /\ faults \in Nat /\ VIPsOf(s)' \subseteq VIPsOf(s) /\ (Kept(s)' => Kept(s))
  BY DEF CreditInv, TypeOK, VIPsOf, KeptShrinks
<1>2. Moved(s)' => (Anchor(s) => Anchor(s)')
  <2>1. CASE pc' = "idle"
    BY <2>1 DEF Moved, Ensuring, EnsurePCs
  <2>2. CASE UNCHANGED <<pc, w>>
    <3>1. Moved(s)' => Ensuring(s) /\ Ensuring(s)'
      BY <2>2 DEF Moved, Ensuring
    <3>2. OnItsWay(s) => OnItsWay(s)'
      BY <2>2 DEF OnItsWay, NoListenerOn
    <3>3. Anchored(s, w.ports, w.base) => Anchored(s, w.ports, w.base)'
      BY <2>2 DEF Anchored
    <3> QED
      BY <3>1, <3>2, <3>3 DEF Anchor
  <2> QED
    BY <2>1, <2>2
<1> QED
  BY <1>1, <1>2, CreditPaid

(* The create of a VIP.                                                      *)
LEMMA CreateVIPCredit ==
    ASSUME BaseInv, HomeInv, CreditInv, CreateVIP
    PROVE  CreditInv'
<1>1. PICK u \in VipIds : /\ u \in UnusedVIPs /\ VIPAccepted(u, w.lb, w.svc)
                          /\ UseVIP(u, vips'[u].st = "active")
  BY DEF CreateVIP, Next0
<1>2. PICK st : vips' = [vips EXCEPT ![u] = [st |-> st, lb |-> w.lb, by |-> w.svc]]
  BY <1>1 DEF VIPAccepted
<1>3. /\ pc = "vip-create" /\ pc \in EnsurePCs /\ UNCHANGED <<obj, ann, faults, vss>>
      /\ pc' = "listener" /\ pc' \in EnsurePCs /\ pc \in LoadedPCs /\ TypeOK
  BY <1>1 DEF CreateVIP, UseVIP, Continue, EnsurePCs, LoadedPCs, BaseInv, SeedInv, BridgeInv
<1>4. w \in Work /\ w.svc \in Services /\ Kept(w.svc) /\ EnsureAt(pc, w) /\ VIPsAtHome
  BY <1>3, EnsureFacts
<1>5. w'.svc = w.svc /\ w'.ports = w.ports /\ w'.base = w.base
  BY <1>1, <1>4 DEF UseVIP, Continue, Work
<1>6. w.base.vip = NoId /\ NoListenerOn(w.svc, w.ports)
  BY <1>3, <1>4 DEF EnsureAt
<1> SUFFICES ASSUME NEW s \in Services PROVE Credit(s)'
  BY DEF CreditInv
<1>7. /\ Credit(s) /\ faults \in Nat /\ (\A P : HealthyStay(s, P))
      /\ \A v \in VipIds : v # u => vips'[v] = vips[v]
      /\ vips'[u].by = w.svc
  BY <1>2, <1>3 DEF CreditInv, TypeOK, CMPTypeOK, HealthyStay
<1>8. CASE s = w.svc
  <2>1. VIPsOf(s)' \subseteq VIPsOf(s) \cup {u}
    BY <1>7 DEF VIPsOf
  <2>2. ~Anchor(s)
    BY <1>3, <1>6, <1>8 DEF Anchor, Anchored, OnItsWay, Ensuring, NoListenerOn, Healthy
  <2>3. OnItsWay(s)' /\ Ensuring(s)'
    BY <1>3, <1>5, <1>6, <1>8 DEF OnItsWay, NoListenerOn, Ensuring
  <2>4. Anchor(s)'
    BY <2>3 DEF Anchor
  <2>5. Moved(s)' => Moved(s)
    BY <1>3, <1>5 DEF Moved, Ensuring
  <2> QED
    BY <1>3, <1>4, <1>7, <1>8, <2>1, <2>2, <2>4, <2>5, CreditUsed
<1>9. CASE s # w.svc
  <2>1. ~Ensuring(s) /\ ~Ensuring(s)'
    BY <1>5, <1>9 DEF Ensuring
  <2>2. VIPsOf(s)' \subseteq VIPsOf(s)
    BY <1>7, <1>9 DEF VIPsOf
  <2>3. Kept(s)' => Kept(s)
    BY <1>3, <2>1 DEF Kept
  <2> QED
    BY <1>3, <1>7, <2>1, <2>2, <2>3, RestCredit
<1> QED
  BY <1>8, <1>9

(* What a pass does to its own listeners and annotations is nothing to the   *)
(* others.                                                                   *)
LEMMA OthersCredit ==
    ASSUME TypeOK, CreditInv, NEW s \in Services, s # w.svc, faults' = faults,
           w'.svc = w.svc \/ pc' \notin EnsurePCs, obj'[s] = obj[s], ann'[s] = ann[s],
           VIPsOf(s)' \subseteq VIPsOf(s), \A P : HealthyStay(s, P)
    PROVE  Credit(s)'
<1>1. Credit(s) /\ faults \in Nat /\ ~Ensuring(s) /\ ~Ensuring(s)'
  BY DEF CreditInv, TypeOK, Ensuring
<1>2. Kept(s)' => Kept(s)
  BY <1>1 DEF Kept
<1> QED
  BY <1>1, <1>2, RestCredit

(* A pass without a recorded VIP deletes only a listener that has failed.    *)
LEMMA DeleteListenerCredit ==
    ASSUME BaseInv, HomeInv, CreditInv, DeleteListener
    PROVE  CreditInv'
<1>1. /\ TypeOK /\ AtHome /\ RecordsHold /\ ParentInv /\ pc = "vs-delete" /\ pc \in EnsurePCs
      /\ w.vs \in VsIds /\ (vss[w.vs].st = "absent" \/ vss[w.vs].by = w.svc)
      /\ pc' = "idle" /\ UNCHANGED <<obj, ann, faults, lbs, vips>> /\ VSDeleteAccepted(w.vs)
  BY DEF BaseInv, SeedInv, BridgeInv, HomeInv, PassInv, DeleteListener, Return, EnsurePCs
<1>2. w.svc \in Services /\ (w.base.vip = NoId => ~Healthy(vss[w.vs].st))
  BY <1>1, EnsureFacts DEF EnsureAt
<1>3. /\ \A v \in VsIds : v # w.vs => vss'[v] = vss[v]
      /\ vss[w.vs].st = "absent" => vss'[w.vs] = vss[w.vs]
  BY <1>1 DEF VSDeleteAccepted, Visible, TypeOK, CMPTypeOK
<1> SUFFICES ASSUME NEW s \in Services PROVE Credit(s)'
  BY DEF CreditInv
<1>4. Credit(s) /\ faults \in Nat /\ VIPsOf(s)' \subseteq VIPsOf(s)
  BY <1>1 DEF CreditInv, TypeOK, VIPsOf
<1>5. CASE s = w.svc
  <2>1. HealthyStay(s, w.ports) \/ w.base.vip # NoId
    BY <1>2, <1>3 DEF HealthyStay
  <2>2. Ensuring(s) /\ ~Ensuring(s)' /\ ~OnItsWay(s)
    BY <1>1, <1>5 DEF Ensuring, OnItsWay, EnsurePCs
  <2> QED
    BY <1>1, <1>4, <2>1, <2>2, EndCredit
<1>6. CASE s # w.svc
  <2>1. \A P : HealthyStay(s, P)
    BY <1>1, <1>3, <1>6 DEF HealthyStay, Healthy
  <2>2. pc' \notin EnsurePCs
    BY <1>1 DEF EnsurePCs
  <2> QED
    BY <1>1, <1>4, <1>6, <2>1, <2>2, OthersCredit
<1> QED
  BY <1>5, <1>6

(* The listener created becomes the anchor.                                  *)
LEMMA CreateListenerCredit ==
    ASSUME BaseInv, HomeInv, CreditInv, Recoverable, CreateListener
    PROVE  CreditInv'
<1>1. PICK v \in VsIds :
         /\ v \in UnusedVSs
         /\ VSAccepted(v, [NoVS EXCEPT !.lb = w.lb, !.vip = w.vip, !.by = w.svc,
                                       !.port = NextPort, !.hash = w.hash])
         /\ Continue("vs-check", [w EXCEPT !.vs = v])
  BY DEF CreateListener, Next0
<1>2. PICK r : r.st \in Born /\ r.by = w.svc /\ r.port = NextPort /\ vss' = [vss EXCEPT ![v] = r]
  <2>1. PICK st \in Born : vss' = [vss EXCEPT ![v] =
                  [[NoVS EXCEPT !.lb = w.lb, !.vip = w.vip, !.by = w.svc,
                                !.port = NextPort, !.hash = w.hash] EXCEPT !.st = st]]
    BY <1>1 DEF VSAccepted
  <2> QED
    BY <2>1 DEF NoVS
<1>3. /\ pc = "vs-create" /\ {"vs-create", "vs-check"} \subseteq EnsurePCs /\ TypeOK /\ OnePort /\ PassInv
      /\ UNCHANGED <<obj, ann, faults, vips>> /\ pc' = "vs-check"
  BY <1>1 DEF CreateListener, Continue, EnsurePCs, BaseInv, SeedInv, BridgeInv
<1>4. w \in Work /\ w.svc \in Services
  BY <1>3, EnsureFacts
<1>5. w'.svc = w.svc /\ w'.ports = w.ports /\ w'.base = w.base
  BY <1>1, <1>4 DEF Continue, Work
<1>6. NextPort \in w.ports
  <2>1. PICK p \in w.todo : \A q \in w.todo : p <= q
    BY <1>3 DEF PassInv
  <2> QED
    BY <1>3, <2>1, NextPortIs DEF OnePort
<1>7. vss[v].st = "absent" /\ vss'[v] = r /\ \A x \in VsIds : x # v => vss'[x] = vss[x]
  BY <1>1, <1>2, <1>3 DEF UnusedVSs, TypeOK, CMPTypeOK
<1> SUFFICES ASSUME NEW s \in Services PROVE Credit(s)'
  BY DEF CreditInv
<1>8. Credit(s) /\ faults \in Nat /\ VIPsOf(s)' \subseteq VIPsOf(s) /\ \A P : HealthyStay(s, P)
  BY <1>3, <1>7 DEF CreditInv, TypeOK, VIPsOf, HealthyStay, Healthy
<1>9. CASE s = w.svc
  <2>1. Ensuring(s) /\ Ensuring(s)'
    BY <1>3, <1>5, <1>9 DEF Ensuring
  <2>2. \E x \in VsIds : Healthy(vss'[x].st) /\ vss'[x].by = s /\ vss'[x].port \in w'.ports
    BY <1>2, <1>5, <1>6, <1>7, <1>9 DEF Recoverable, Healthy
  <2>3. Anchored(s, w.ports, w.base)'
    BY <2>2 DEF Anchored, Healthy
  <2> QED
    BY <1>3, <1>5, <1>8, <2>1, <2>3, OnCredit
<1>10. CASE s # w.svc
  BY <1>3, <1>5, <1>8, <1>10, OthersCredit
<1> QED
  BY <1>9, <1>10

(* A listener of a port that is gone is nobody's anchor.                     *)
LEMMA ObsoleteCredit ==
    ASSUME BaseInv, HomeInv, CreditInv, DeleteObsoleteListener
    PROVE  CreditInv'
<1>1. PICK p \in Obsolete : /\ VSDeleteAccepted(w.graph.vs[p].id)
                            /\ Continue("listener", [w EXCEPT !.graph.vs[p] = NoListener])
  BY DEF DeleteObsoleteListener
<1>2. /\ pc = "listener" /\ pc' = "listener" /\ "listener" \in EnsurePCs /\ TypeOK /\ RecordedOwned
      /\ UNCHANGED <<obj, ann, faults, lbs, vips>>
  BY <1>1 DEF DeleteObsoleteListener, Continue, EnsurePCs, BaseInv, SeedInv, BridgeInv
<1>3. w \in Work /\ w.graph \in Graph /\ w.svc \in Services
  BY <1>2, EnsureFacts
<1>4. PICK x : x = w.graph.vs[p].id
  OBVIOUS
<1>5. p \in Ports \ w.ports /\ x \in VsIds /\ x # NoId
  <2>1. p \in Ports \ w.ports /\ x # NoId
    BY <1>4 DEF Obsolete
  <2>2. \A q \in Ports : w.graph.vs[q].id \in VsIds \cup {NoId}
    BY <1>3 DEF Graph, Listener
  <2> QED
    BY <1>4, <2>1, <2>2
<1>6. vss[x].st = "absent" \/ (vss[x].by = w.svc /\ vss[x].port = p)
  BY <1>2, <1>4, <1>5, HandOwned
<1>7. /\ \A v \in VsIds : v # x => vss'[v] = vss[v]
      /\ vss[x].st = "absent" => vss'[x] = vss[x]
      /\ vss[x].st # "absent" => vss'[x].by = vss[x].by /\ vss'[x].port = vss[x].port
  BY <1>1, <1>2, <1>4, <1>5 DEF VSDeleteAccepted, Visible, TypeOK, CMPTypeOK, VSRecord
<1>8. w'.svc = w.svc /\ w'.ports = w.ports /\ w'.base = w.base
  <2>1. PICK work : work = [w EXCEPT !.graph.vs[p] = NoListener]
    OBVIOUS
  <2>2. work.svc = w.svc /\ work.ports = w.ports /\ work.base = w.base
    BY <1>3, <2>1 DEF Work
  <2> QED
    BY <1>1, <2>1, <2>2 DEF Continue
<1> SUFFICES ASSUME NEW s \in Services PROVE Credit(s)'
  BY DEF CreditInv
<1>9. Credit(s) /\ faults \in Nat /\ VIPsOf(s)' \subseteq VIPsOf(s)
  BY <1>2 DEF CreditInv, TypeOK, VIPsOf
<1>10. CASE s = w.svc
  <2>1. HealthyStay(s, w.ports)
    BY <1>5, <1>6, <1>7 DEF HealthyStay, Healthy
  <2>2. OnItsWay(s) => OnItsWay(s)'
    BY <1>2, <1>5, <1>6, <1>7, <1>8 DEF OnItsWay, NoListenerOn
  <2>3. Ensuring(s) /\ Ensuring(s)'
    BY <1>2, <1>8, <1>10 DEF Ensuring
  <2> QED
    BY <1>2, <1>8, <1>9, <2>1, <2>2, <2>3, OnCredit
<1>11. CASE s # w.svc
  <2>1. \A P : HealthyStay(s, P)
    BY <1>6, <1>7, <1>11 DEF HealthyStay, Healthy
  <2> QED
    BY <1>2, <1>8, <1>9, <1>11, <2>1, OthersCredit
<1> QED
  BY <1>10, <1>11

(* The VIP recorded becomes the anchor.                                      *)
LEMMA PersistCredit ==
    ASSUME BaseInv, HomeInv, CreditInv, SeedPersist
    PROVE  CreditInv'
<1>1. /\ TypeOK /\ ParentInv /\ pc = "listener" /\ pc \in EnsurePCs /\ pc \in ServePCs
      /\ "publish" \in EnsurePCs
      /\ pc' \in {"publish", "idle"} /\ obj[w.svc].there
      /\ UNCHANGED <<obj, faults, lbs, vips, vss>> /\ PatchAnnotations(SeedResultOf(w.base))
  BY DEF SeedPersist, PatchAnnotations, EnsurePCs, ServePCs, BaseInv, SeedInv, BridgeInv
<1>2. w \in Work /\ w.svc \in Services /\ w.vip # NoId /\ Kept(w.svc)
  BY <1>1, EnsureFacts DEF EnsureAt
<1>3. w.base = ann[w.svc]
  BY <1>1 DEF ParentInv, Current
<1>4. ann'[w.svc].vip = w.vip
  <2>1. PICK new : new = SeedResultOf(w.base)
    OBVIOUS
  <2>2. new.vip = w.vip
    BY <1>1, <2>1, SeedResultType
  <2>3. ann'[w.svc] = MergePatch(ann[w.svc], ann[w.svc], new)
    BY <1>1, <1>2, <1>3, <2>1 DEF PatchAnnotations, Patched, TypeOK
  <2> QED
    BY <2>2, <2>3, PatchOnCurrent
<1>5. pc' = "publish" => w'.svc = w.svc /\ w'.ports = w.ports /\ w'.base = ann'[w.svc]
  BY <1>1, <1>2 DEF SeedPersist, Work
<1> SUFFICES ASSUME NEW s \in Services PROVE Credit(s)'
  BY DEF CreditInv
<1>6. Credit(s) /\ faults \in Nat /\ VIPsOf(s)' \subseteq VIPsOf(s) /\ \A P : HealthyStay(s, P)
  BY <1>1 DEF CreditInv, TypeOK, VIPsOf, HealthyStay
<1>7. CASE s = w.svc
  <2>1. CASE pc' = "publish"
    <3>1. Ensuring(s)' /\ Anchored(s, w.ports, w.base)'
      BY <1>1, <1>2, <1>4, <1>5, <1>7, <2>1 DEF Ensuring, Anchored
    <3>2. Anchor(s)' /\ (Moved(s)' => Moved(s))
      BY <1>1, <1>5, <1>7, <2>1, <3>1 DEF Anchor, Moved, Ensuring
    <3> QED
      BY <1>1, <1>2, <1>6, <1>7, <3>2, CreditStays
  <2>2. CASE pc' = "idle"
    <3>1. ~Ensuring(s)' /\ Anchored(s, obj[s].ports, ann[s])'
      BY <1>1, <1>2, <1>4, <1>7, <2>2 DEF Ensuring, Anchored, EnsurePCs
    <3>2. Anchor(s)' /\ ~Moved(s)'
      BY <3>1 DEF Anchor, Moved
    <3> QED
      BY <1>1, <1>2, <1>6, <1>7, <3>2, CreditStays
  <2> QED
    BY <1>1, <2>1, <2>2
<1>8. CASE s # w.svc
  <2>1. ann'[s] = ann[s] /\ (w'.svc = w.svc \/ pc' \notin EnsurePCs)
    BY <1>1, <1>5, <1>8 DEF PatchAnnotations, TypeOK, EnsurePCs
  <2> QED
    BY <1>1, <1>6, <1>8, <2>1, OthersCredit
<1> QED
  BY <1>7, <1>8

(* A pass begins with the Service as it is.                                  *)
LEMMA BeginCredit ==
    ASSUME BaseInv, CreditInv, ~StaleReads, NEW t \in Services, SeedBeginEnsure(t) \/ SeedBeginCleanup(t)
    PROVE  CreditInv'
<1>1. /\ TypeOK /\ pc = "idle" /\ View(t).obj = obj[t] /\ View(t).ann = ann[t]
      /\ UNCHANGED <<obj, ann, faults, vips, vss>>
  BY DEF BaseInv, SeedInv, BridgeInv, SeedBeginEnsure, SeedBeginCleanup, Dequeue, View
<1> SUFFICES ASSUME NEW s \in Services PROVE Credit(s)'
  BY DEF CreditInv
<1>2. /\ Credit(s) /\ faults \in Nat /\ VIPsOf(s)' \subseteq VIPsOf(s) /\ (\A P : HealthyStay(s, P))
      /\ ~Ensuring(s) /\ ~Moved(s)
  BY <1>1 DEF CreditInv, TypeOK, VIPsOf, HealthyStay, Ensuring, Moved, EnsurePCs
<1>3. CASE Ensuring(s)'
  <2>1. SeedBeginEnsure(t)
    BY <1>3 DEF SeedBeginCleanup, Ensuring, EnsurePCs
  <2>2. /\ w'.svc = t /\ w'.base = ann[t] /\ w'.ports = obj[t].ports /\ ~obj[t].del
    BY <1>1, <2>1 DEF SeedBeginEnsure, IdleWork, Managed
  <2>3. s = t
    BY <1>3, <2>2 DEF Ensuring
  <2>4. Kept(s) /\ ~Moved(s)'
    BY <1>1, <2>2, <2>3 DEF Kept, Moved
  <2>5. Anchored(s, obj[s].ports, ann[s]) => Anchored(s, w.ports, w.base)'
    BY <1>1, <2>2, <2>3 DEF Anchored
  <2>6. Anchor(s) => Anchor(s)'
    BY <1>2, <1>3, <2>5 DEF Anchor
  <2> QED
    BY <1>1, <1>2, <2>4, <2>6, CreditStays
<1>4. CASE ~Ensuring(s)'
  <2>1. Kept(s)' => Kept(s)
    BY <1>1, <1>4 DEF Kept
  <2> QED
    BY <1>1, <1>2, <1>4, <2>1, RestCredit
<1> QED
  BY <1>3, <1>4

(* CMP brings listeners on or takes what it was asked to take; the rest is   *)
(* paid for.                                                                 *)
LEMMA ProviderCredit ==
    ASSUME BaseInv, HomeInv, CreditInv, Recoverable, SeedProvider
    PROVE  CreditInv'
<1>1. /\ BridgeInv /\ TypeOK /\ AtHome /\ UniqueInv
      /\ HomeInv' /\ KeptShrinks /\ CMPAges /\ UNCHANGED <<obj, pc, w, ann>>
      /\ \A v \in VsIds : \/ vss'[v].st = vss[v].st
                          \/ Healthy(vss[v].st) /\ Healthy(vss'[v].st)
                          \/ vss[v].st = "deleting" \/ faults' = faults + 1
                          \/ ~Kept(vss[v].by)
      /\ faults' \in {faults, faults + 1}
  BY ProviderHome DEF BaseInv, SeedInv, BridgeInv, HomeInv
<1> SUFFICES ASSUME NEW s \in Services PROVE Credit(s)'
  BY DEF CreditInv
<1>2. VIPsOf(s)' \subseteq VIPsOf(s)
  <2>1. s # NoOwner
    BY NameAssumption
  <2>2. \A v \in VipIds : vips'[v].by = s => vips[v].by = s
    BY <1>1, <2>1 DEF CMPAges
  <2> QED
    BY <2>2 DEF VIPsOf
<1>3. /\ Credit(s) /\ faults \in Nat /\ (Kept(s)' <=> Kept(s)) /\ (Moved(s)' <=> Moved(s))
      /\ (Ensuring(s)' <=> Ensuring(s))
  BY <1>1 DEF CreditInv, TypeOK, Kept, Moved, Ensuring
<1>4. CASE faults' = faults + 1
  BY <1>2, <1>3, <1>4, CreditPaid
<1>5. CASE faults' = faults
  <2>1. faults' # faults + 1
    BY <1>3, <1>5
  <2>2. ASSUME Kept(s), NEW v \in VsIds, Healthy(vss[v].st), vss[v].by = s
        PROVE  Healthy(vss'[v].st) /\ vss'[v].by = s /\ vss'[v].port = vss[v].port
    <3>1. vss[v].st # "deleting" /\ Kept(vss[v].by)
      BY <2>2 DEF Healthy
    <3>2. Healthy(vss'[v].st)
      BY <1>1, <2>1, <2>2, <3>1
    <3>3. vss'[v].st # "absent"
      BY <3>2 DEF Healthy
    <3> QED
      BY <1>1, <2>2, <3>2, <3>3 DEF CMPAges
  <2>3. Kept(s) => \A P : HealthyStay(s, P)
    BY <2>2 DEF HealthyStay
  <2>4. OnItsWay(s) => OnItsWay(s)'
    <3>1. PICK P : P = w.ports
      OBVIOUS
    <3>2. NoListenerOn(s, P) => NoListenerOn(s, P)'
      BY <1>1, AgesHome
    <3> QED
      BY <1>1, <3>1, <3>2 DEF OnItsWay
  <2>5. CASE Ensuring(s)
    <3>1. Kept(s) /\ HealthyStay(s, w.ports)
      BY <2>3, <2>5 DEF Kept
    <3> QED
      BY <1>1, <1>2, <1>3, <1>5, <2>4, <2>5, <3>1, OnCredit
  <2>6. CASE ~Ensuring(s)
    BY <1>1, <1>2, <1>3, <1>5, <2>3, <2>6, RestCredit
  <2> QED
    BY <2>5, <2>6
<1> QED
  BY <1>1, <1>4, <1>5

(* A clean-up takes from a deleted Service what that Service had.            *)
LEMMA CleanupCredit ==
    ASSUME BaseInv, HomeInv, CreditInv, Cleanup
    PROVE  CreditInv'
<1>1. /\ BridgeInv /\ TypeOK /\ PassInv /\ RecordedOwned /\ HandInv /\ HomeInv' /\ KeptShrinks /\ CMPAges
      /\ HandAt(pc, w)
  BY CleanupHome DEF BaseInv, SeedInv, BridgeInv, HomeInv
<1>2. pc \in CleanupPCs /\ pc \notin EnsurePCs /\ pc # "idle"
  BY DEF Cleanup, RefuseAmbiguousCleanup, CleanListener, ConfirmListenerGone, CleanVIP, CleanLB,
         ConfirmLBGone, RemoveFinalizer, CleanupPCs, EnsurePCs
<1>3. w.svc \in Services /\ obj[w.svc].del /\ w.graph \in Graph
  BY <1>1, <1>2 DEF TypeOK, HandAt, Work
<1>4. pc' \notin EnsurePCs /\ faults' = faults
  <2>1. /\ pc' \in {"idle", "clean-vs", "clean-vs-get", "clean-vip", "clean-lb", "clean-lb-get",
                     "unfinalize"}
        /\ faults' = faults
    <3>1. CASE RefuseAmbiguousCleanup \/ CleanListener \/ ConfirmListenerGone
      BY <3>1 DEF RefuseAmbiguousCleanup, CleanListener, ConfirmListenerGone, Continue, Return
    <3>2. CASE CleanVIP \/ CleanLB
      BY <3>2 DEF CleanVIP, CleanLB, Continue, AfterVIPs
    <3>3. CASE ConfirmLBGone \/ RemoveFinalizer
      BY <3>3 DEF ConfirmLBGone, RemoveFinalizer, Continue, Return
    <3> QED
      BY <3>1, <3>2, <3>3 DEF Cleanup
  <2> QED
    BY <2>1 DEF EnsurePCs
<1>5. \A v \in VsIds : vss'[v] = vss[v] \/ vss[v].st = "absent" \/ vss[v].by = w.svc
  <2>1. ASSUME NEW x \in CleanupListeners(w.graph), VSDeleteAccepted(x), NEW v \in VsIds
        PROVE  vss'[v] = vss[v] \/ vss[v].st = "absent" \/ vss[v].by = w.svc
    <3>1. PICK p \in Ports : x = w.graph.vs[p].id /\ x # NoId
      BY <2>1 DEF CleanupListeners
    <3>2. vss[x].st = "absent" \/ vss[x].by = w.svc
      BY <1>1, <3>1, HandOwned
    <3> QED
      BY <1>1, <2>1, <3>2 DEF VSDeleteAccepted, TypeOK, CMPTypeOK
  <2>2. UNCHANGED vss \/ \E x \in CleanupListeners(w.graph) : VSDeleteAccepted(x)
    BY DEF Cleanup, RefuseAmbiguousCleanup, CleanListener, ConfirmListenerGone, CleanVIP, CleanLB,
           ConfirmLBGone, RemoveFinalizer
  <2> QED
    BY <2>1, <2>2
<1>6. \A t \in Services : t # w.svc => obj'[t] = obj[t] /\ ann'[t] = ann[t]
  BY <1>1 DEF Cleanup, RefuseAmbiguousCleanup, CleanListener, ConfirmListenerGone, CleanVIP, CleanLB,
              ConfirmLBGone, RemoveFinalizer, Continue, Return, TypeOK
<1> SUFFICES ASSUME NEW s \in Services PROVE Credit(s)'
  BY DEF CreditInv
<1>7. VIPsOf(s)' \subseteq VIPsOf(s)
  <2>1. s # NoOwner
    BY NameAssumption
  <2>2. \A v \in VipIds : vips'[v].by = s => vips[v].by = s
    BY <1>1, <2>1 DEF CMPAges
  <2> QED
    BY <2>2 DEF VIPsOf
<1>8. Credit(s) /\ faults \in Nat /\ ~Ensuring(s) /\ ~Ensuring(s)'
  BY <1>1, <1>2, <1>4 DEF CreditInv, TypeOK, Ensuring
<1>9. CASE s = w.svc
  <2>1. ~Kept(s)'
    BY <1>1, <1>3, <1>8, <1>9 DEF KeptShrinks, Kept
  <2> QED
    BY <1>4, <1>7, <1>8, <2>1, RestCredit
<1>10. CASE s # w.svc
  <2>1. \A P : HealthyStay(s, P)
    BY <1>5, <1>10 DEF HealthyStay, Healthy
  <2> QED
    BY <1>1, <1>4, <1>6, <1>7, <1>10, <2>1, OthersCredit
<1> QED
  BY <1>9, <1>10

(* What users do.                                                            *)
LEMMA UserCredit ==
    ASSUME BaseInv, HomeInv, CreditInv, Recoverable, NEW t \in Services,
           \/ ChangeType(t) \/ SeedChangePort(t) \/ ChangeBackends(t) \/ DeleteService(t)
           \/ InformerSync(t) \/ Resync(t) \/ SeedIgnore(t)
    PROVE  CreditInv'
<1>1. /\ TypeOK /\ BridgeInv /\ KeptShrinks /\ UNCHANGED <<pc, w, vips, vss>>
  <2>1. TypeOK /\ BridgeInv /\ ~StaleReads
    BY DEF BaseInv, SeedInv, BridgeInv, Recoverable
  <2>2. KeptShrinks
    BY <2>1, UserHome
  <2>3. UNCHANGED <<pc, w, vips, vss>>
    BY DEF ChangeType, SeedChangePort, ChangeBackends, DeleteService, UserChange, InformerSync,
           Resync, SeedIgnore
  <2> QED
    BY <2>1, <2>2, <2>3
<1>2. CASE ChangeType(t) \/ SeedChangePort(t) \/ ChangeBackends(t)
  <2>1. faults' = faults + 1
    BY <1>2 DEF ChangeType, SeedChangePort, ChangeBackends, Disturb
  <2> QED
    BY <1>1, <2>1, PaidCredit
<1>3. CASE DeleteService(t) \/ InformerSync(t) \/ Resync(t) \/ SeedIgnore(t)
  <2> SUFFICES ASSUME NEW s \in Services PROVE Credit(s)'
    BY DEF CreditInv
  <2>1. /\ Credit(s) /\ faults \in Nat /\ VIPsOf(s)' \subseteq VIPsOf(s) /\ (\A P : HealthyStay(s, P))
        /\ (Kept(s)' => Kept(s)) /\ faults' = faults /\ (Ensuring(s)' <=> Ensuring(s))
    BY <1>1, <1>3 DEF CreditInv, TypeOK, VIPsOf, HealthyStay, KeptShrinks, Ensuring,
                      DeleteService, InformerSync, Resync, SeedIgnore
  <2>2. /\ obj'[s].ports = obj[s].ports
        /\ obj'[s].del \/ ann'[s] = ann[s]
    <3>1. CASE InformerSync(t) \/ Resync(t) \/ SeedIgnore(t)
      BY <3>1 DEF InformerSync, Resync, SeedIgnore
    <3>2. CASE DeleteService(t)
      <4>1. PICK o : o = [obj[t] EXCEPT !.del = TRUE, !.there = obj[t].fin]
        OBVIOUS
      <4>2. o.del = TRUE /\ o.ports = obj[t].ports
        BY <1>1, <4>1 DEF TypeOK, Object
      <4>3. obj' = [obj EXCEPT ![t] = o] /\ (ann' = ann \/ ann' = [ann EXCEPT ![t] = NoAnnotations])
        BY <3>2, <4>1 DEF DeleteService, UserChange
      <4> QED
        BY <1>1, <4>2, <4>3 DEF TypeOK
    <3> QED
      BY <1>3, <3>1, <3>2
  <2>3. CASE Ensuring(s)
    <3>1. OnItsWay(s) => OnItsWay(s)'
      BY <1>1 DEF OnItsWay, NoListenerOn
    <3> QED
      BY <1>1, <2>1, <2>2, <2>3, <3>1, OnCredit
  <2>4. CASE ~Ensuring(s)
    <3>1. Kept(s)' => ann'[s] = ann[s]
      BY <2>1, <2>2, <2>4 DEF Kept
    <3> QED
      BY <2>1, <2>2, <2>4, <3>1, RestCredit
  <2> QED
    BY <2>3, <2>4
<1> QED
  BY <1>2, <1>3

(* Every step keeps the account.                                             *)
LEMMA SeedNextCredit ==
    ASSUME BaseInv, HomeInv, CreditInv, Recoverable, UnusedVSs # {}, [SeedNext]_vars
    PROVE  CreditInv'
<1>1. TypeOK /\ KeptShrinks /\ ~StaleReads /\ ~DeleteFailedLB /\ ~DeleteFailedVIP
  BY SeedNextHome, NothingFailed DEF BaseInv, SeedInv, BridgeInv, Recoverable
<1>2. CASE SeedEnsure
  <2>1. CASE \/ EnsureFinalizer \/ SeedLoad \/ GetRecordedLB \/ FindLBByName \/ CreateLB
             \/ CheckCreatedLB \/ WithoutCheckpoint \/ RecoverByName \/ EnsureVIP
             \/ CheckCreatedListener \/ PublishVIP
    BY <2>1, LookingCredit
  <2>2. CASE CreateVIP
    BY <2>2, CreateVIPCredit
  <2>3. CASE \E p \in Ports : SeedEnsureListener(p)
    BY <2>3, ListenerCredit
  <2>4. CASE DeleteListener
    BY <2>4, DeleteListenerCredit
  <2>5. CASE CreateListener
    BY <2>5, CreateListenerCredit
  <2>6. CASE DeleteObsoleteListener
    BY <2>6, ObsoleteCredit
  <2>7. CASE SeedPersist
    BY <2>7, PersistCredit
  <2> QED
    BY <1>1, <1>2, <2>1, <2>2, <2>3, <2>4, <2>5, <2>6, <2>7 DEF SeedEnsure
<1>3. CASE Cleanup
  BY <1>3, CleanupCredit
<1>4. CASE CallRefused
  BY <1>4, RefusedCredit
<1>5. CASE FailedCall
  <2>1. faults' = faults + 1 /\ UNCHANGED <<vips, vss>> /\ pc' = "idle"
    BY <1>5 DEF FailedCall, Disturb
  <2> QED
    BY <1>1, <2>1, PaidCredit
<1>6. CASE SeedProvider
  BY <1>6, ProviderCredit
<1>7. CASE UNCHANGED vars
  <2>1. UNCHANGED <<obj, ann, pc, w, faults, vips, vss>>
    BY <1>7 DEF vars
  <2> QED
    BY <2>1 DEF CreditInv, Credit, VIPsOf, Kept, Ensuring, Anchor, Anchored, OnItsWay, NoListenerOn, Moved
<1>8. CASE \E s \in Services : SeedBeginEnsure(s) \/ SeedBeginCleanup(s)
  BY <1>1, <1>8, BeginCredit
<1>9. CASE \E s \in Services : \/ ChangeType(s) \/ SeedChangePort(s) \/ ChangeBackends(s)
                               \/ DeleteService(s) \/ InformerSync(s) \/ Resync(s) \/ SeedIgnore(s)
  BY <1>9, UserCredit
<1> QED
  BY <1>2, <1>3, <1>4, <1>5, <1>6, <1>7, <1>8, <1>9, SeedStepParts

(* It starts with no VIP and no disturbance.                                 *)
LEMMA InitCredit == ASSUME Recoverable, SeedInit PROVE CreditInv
<1> SUFFICES ASSUME NEW s \in Services PROVE Credit(s)
  BY DEF CreditInv
<1>1. vips = [v \in VipIds |-> NoVIP] /\ faults = 0 /\ pc = "idle"
  BY DEF SeedInit, Init, CMPInit, Recoverable
<1>2. s # NoOwner
  BY NameAssumption
<1>3. VIPsOf(s) = {}
  BY <1>1, <1>2 DEF VIPsOf, NoVIP
<1>4. IsFiniteSet(VIPsOf(s)) /\ Cardinality(VIPsOf(s)) = 0
  BY <1>3, FS_EmptySet
<1>5. ~Moved(s)
  BY <1>1 DEF Moved, Ensuring, EnsurePCs
<1> QED
  BY <1>1, <1>4, <1>5 DEF Credit

(* OneVIPPerDisturbance: with fresh reads, what is recovered from and a      *)
(* quota that lasts, no Service ever has more VIPs at CMP than one and one   *)
(* for each disturbance: a failed call, a listener that failed or was lost,  *)
(* a change of port, backends or type.  Nothing is recorded before a pass    *)
(* has succeeded as a whole, yet a pass that only waits, or is repeated,     *)
(* never creates a second.                                                   *)
THEOREM SeedOneVIPPerDisturbance ==
    ASSUME Recoverable
    PROVE  SeedSpec /\ [](UnusedVSs # {}) => []OneVIPPerDisturbance
<1>1. SeedInit => CreditInv
  BY InitCredit
<1>2. BaseInv /\ HomeInv /\ CreditInv /\ UnusedVSs # {} /\ [SeedNext]_vars => CreditInv'
  BY SeedNextCredit
<1>3. BaseInv /\ CreditInv => OneVIPPerDisturbance
  <2> SUFFICES ASSUME BaseInv, CreditInv, NEW s \in Services
               PROVE  Cardinality({v \in VipIds : vips[v].by = s}) <= 1 + faults
    BY DEF OneVIPPerDisturbance
  <2>1. PICK n : n = Cardinality({v \in VipIds : vips[v].by = s})
    OBVIOUS
  <2>2. faults \in Nat /\ IsFiniteSet(VIPsOf(s)) /\ n = Cardinality(VIPsOf(s)) /\ n <= faults + 1
    BY <2>1 DEF BaseInv, SeedInv, BridgeInv, TypeOK, CreditInv, Credit, VIPsOf
  <2>3. n \in Nat
    BY <2>2, FS_CardinalityType
  <2>4. n <= 1 + faults
    BY <2>2, <2>3
  <2> QED
    BY <2>1, <2>4
<1> QED
  BY <1>1, <1>2, <1>3, SeedBaseInvariant, SeedHomeInvariant, PTL DEF SeedSpec

=============================================================================

---------------------- MODULE ServiceBridgeCleanupProofs ----------------------
(* What TLAPS proves of the clean-up of a Service, for every instance of     *)
(* ServiceBridge whose reads are fresh: a working LBService that a sibling   *)
(* of the vip-group still has recorded is not deleted, and the finalizer     *)
(* goes only when what the Service had is gone.                              *)
EXTENDS ServiceBridgeServeProofs

-----------------------------------------------------------------------------
(* The parent LBService of a Service.                                        *)

(* The calls at which the pass has an LBService in hand, and those after it  *)
(* has loaded a graph.                                                       *)
WithLBPCs == {"lb-get", "lb-delete", "lb-check", "checkpoint"} \cup SettledPCs
LoadedPCs == EnsurePCs \ {"finalizer", "load"}

(* With fresh reads the worker's snapshot is the object as it is.            *)
Current == pc # "idle" /\ obj[w.svc].there => w.base = ann[w.svc]

(* A graph is recorded together with the LBService it hangs on, under the    *)
(* Service's own key.                                                        *)
Rooted(s, a) ==
    /\ a.graph.has => a.lb # NoId /\ a.graph.lb[s] = a.lb
    /\ ~a.graph.has => a.graph = NoGraph
AllRooted == \A s \in Services : Rooted(s, ann[s])

(* The pass has a parent, and from the checkpoint on it is in the graph. *)
ChosenAt(p, work) ==
    /\ p \in WithLBPCs => work.lb # NoId
    /\ p \in SettledPCs => work.graph.lb[work.svc] = work.lb
    /\ p \in LoadedPCs => work.graph.has
Chosen == ChosenAt(pc, w)

(* Only an LBService found failed is replaced: it is never ready again.      *)
FailedOnly == pc = "lb-delete" => lbs[w.lb].st \notin {"hidden", "pending", "ready"}
HoldsFinalizer == pc \in CleanupPCs => obj[w.svc].fin

ParentInv == Current /\ AllRooted /\ Chosen /\ FailedOnly /\ HoldsFinalizer

(* Who owes what depends on the pass only through its Service and snapshot.  *)
LEMMA IdleParent ==
    ASSUME pc' = "idle"
    PROVE  Current' /\ Chosen' /\ FailedOnly' /\ HoldsFinalizer'
BY DEF Current, Chosen, ChosenAt, FailedOnly, HoldsFinalizer, WithLBPCs, LoadedPCs, SettledPCs,
   ServePCs, EnsurePCs, CleanupPCs

(* A pass that returns.                                                      *)
LEMMA ReturnParent ==
    ASSUME ParentInv, NEW again, Return(again)
    PROVE  ParentInv'
<1>1. AllRooted'
  BY DEF Return, ParentInv, AllRooted
<1> QED
  BY <1>1, IdleParent DEF Return, ParentInv

(* A pass that goes on to a call other than "lb-delete".                     *)
LEMMA ContinueParent ==
    ASSUME ParentInv, pc # "idle", NEW next, NEW work, Continue(next, work), work.svc = w.svc,
           work.base = w.base, ChosenAt(next, work), next # "lb-delete",
           next \in CleanupPCs => pc \in CleanupPCs
    PROVE  ParentInv'
BY DEF Continue, ParentInv, Current, AllRooted, Chosen, FailedOnly, HoldsFinalizer, ChosenAt

(* Others move.                                                              *)
LEMMA OutsideParent ==
    ASSUME TypeOK, ParentInv, Outside
    PROVE  ParentInv'
<1>1. UNCHANGED <<pc, w>> /\ ObjectsKept /\ LbsKeeps
  BY OutsideFacts
<1>2. (pc # "idle" => w.svc \in Services) /\ (w.lb = NoId \/ w.lb \in LbIds)
      /\ CleanupPCs \cap {"idle"} = {}
  BY DEF TypeOK, Work, CleanupPCs
<1>3. Current'
  BY <1>1, <1>2 DEF ParentInv, Current, ObjectsKept
<1>4. AllRooted'
  <2>1. \A s \in Services : Rooted(s, NoAnnotations)
    BY DEF Rooted, NoAnnotations, NoGraph
  <2> QED
    BY <1>1, <2>1 DEF ParentInv, AllRooted, ObjectsKept
<1>5. Chosen'
  BY <1>1 DEF ParentInv, Chosen
<1>6. FailedOnly'
  <2> SUFFICES ASSUME pc = "lb-delete"
               PROVE  lbs'[w.lb].st \notin {"hidden", "pending", "ready"}
    BY <1>1 DEF FailedOnly
  <2>1. w.lb \in LbIds /\ lbs[w.lb].st \notin {"hidden", "pending", "ready"}
    BY <1>2 DEF ParentInv, FailedOnly, Chosen, ChosenAt, WithLBPCs
  <2> QED
    BY <1>1, <2>1 DEF LbsKeeps, Ages
<1>7. HoldsFinalizer'
  BY <1>1, <1>2 DEF ParentInv, HoldsFinalizer, ObjectsKept
<1> QED
  BY <1>3, <1>4, <1>5, <1>6, <1>7 DEF ParentInv

(* The start of a pass: fresh reads see the annotations as they are.         *)
LEMMA FirstParent ==
    ASSUME TypeOK, ParentInv, ~StaleReads, FirstStep
    PROVE  ParentInv'
<1>1. \A s \in Services : View(s).ann = ann[s] /\ View(s).obj = obj[s]
  BY DEF View
<1>2. ASSUME NEW s \in Services, BeginEnsure(s) PROVE ParentInv'
  <2>1. w'.svc = s /\ w'.base = ann[s] /\ pc' \in {"load", "finalizer"}
        /\ UNCHANGED <<obj, ann>>
    BY <1>1, <1>2 DEF BeginEnsure, IdleWork
  <2> QED
    BY <2>1
    DEF ParentInv, Current, AllRooted, Chosen, ChosenAt, FailedOnly, HoldsFinalizer, WithLBPCs,
        LoadedPCs, SettledPCs, ServePCs, CleanupPCs
<1>3. ASSUME NEW s \in Services, BeginCleanup(s) PROVE ParentInv'
  <2>1. w'.svc = s /\ w'.base = ann[s] /\ pc' \in {"clean-vs", "unfinalize"}
        /\ UNCHANGED <<obj, ann>> /\ obj[s].fin
    BY <1>1, <1>3 DEF BeginCleanup, IdleWork
  <2> QED
    BY <2>1
    DEF ParentInv, Current, AllRooted, Chosen, ChosenAt, FailedOnly, HoldsFinalizer, WithLBPCs,
        LoadedPCs, SettledPCs, ServePCs, EnsurePCs
<1>4. CASE EnsureFinalizer
  <2>1. w'.svc = w.svc /\ w'.base = ann[w.svc] /\ pc' = "load" /\ ann' = ann
    BY <1>4 DEF EnsureFinalizer, TypeOK, Work
  <2> QED
    BY <2>1
    DEF ParentInv, Current, AllRooted, Chosen, ChosenAt, FailedOnly, HoldsFinalizer, WithLBPCs,
        LoadedPCs, SettledPCs, ServePCs, CleanupPCs
<1>5. CASE LoadObserved
  <2>1. pc = "load" /\ w.base \in Annotations /\ w \in Work
    BY <1>5 DEF LoadObserved, TypeOK, Work
  <2>2. ASSUME NEW lb \in LbIds \cup {NoId}, NEW vip \in VipIds \cup {NoId}, NEW g \in Graph
        PROVE  LET work == Loaded(lb, vip, g) IN
               work.svc = w.svc /\ work.base = w.base /\ work.lb = lb /\ work.graph.has
    BY <2>1 DEF Loaded, EnsureGraph, Work, Graph
  <2>3. ASSUME NEW lb \in LbIds \cup {NoId}, NEW vip \in VipIds \cup {NoId}, NEW g \in Graph,
               NEW next \in {"lb-find", "lb-get"}, next = "lb-get" => lb # NoId,
               Continue(next, Loaded(lb, vip, g))
        PROVE  ParentInv'
    <3> DEFINE work == Loaded(lb, vip, g)
    <3>1. work.svc = w.svc /\ work.base = w.base /\ work.lb = lb /\ work.graph.has
      BY <2>2
    <3> HIDE DEF work
    <3>2. ChosenAt(next, work)
      BY <2>3, <3>1 DEF ChosenAt, WithLBPCs, SettledPCs, ServePCs
    <3>3. next # "lb-delete" /\ next \notin CleanupPCs
      BY DEF CleanupPCs
    <3> QED
      BY <2>1, <2>3, <3>1, <3>2, <3>3, ContinueParent DEF work
  <2>4. CASE Continue(IF w.base.lb = NoId THEN "lb-find" ELSE "lb-get",
                      Loaded(w.base.lb, w.base.vip, w.base.graph))
    <3>1. w.base.lb \in LbIds \cup {NoId} /\ w.base.vip \in VipIds \cup {NoId}
          /\ w.base.graph \in Graph
      BY <2>1 DEF Annotations
    <3> QED
      BY <2>3, <2>4, <3>1
  <2>5. ASSUME NEW t \in VIPGroup, NEW k \in VIPGroup, SharedParent(w.svc, t, k),
               Continue("lb-get", Loaded(ParentGraph(t, k).lb[k], ParentGraph(t, k).vip,
                                         ParentGraph(t, k)))
        PROVE  ParentInv'
    <3>1. ParentGraph(t, k) \in Graph /\ k \in Services /\ t \in Services
      BY ParentGraphType, BridgeAssumption
    <3>2. ParentGraph(t, k).lb[k] \in LbIds \cup {NoId} /\ ParentGraph(t, k).vip \in VipIds \cup {NoId}
      BY <3>1 DEF Graph
    <3>3. ParentGraph(t, k).lb[k] # NoId
      BY <2>5, <3>1 DEF ParentGraph, SharedParent, NoGraph
    <3> QED
      BY <2>3, <2>5, <3>1, <3>2, <3>3
  <2> QED
    BY <1>5, <2>4, <2>5 DEF LoadObserved
<1> QED
  BY <1>2, <1>3, <1>4, <1>5 DEF FirstStep

(* A pass before the checkpoint: a call that needs an LBService has one.     *)
LEMMA ContinueEarly ==
    ASSUME TypeOK, ParentInv, pc \in LoadedPCs,
           NEW next \in LoadedPCs \ SettledPCs, next # "lb-delete",
           NEW work \in Work, Continue(next, work), work.svc = w.svc, work.base = w.base,
           work.graph = w.graph, next \in WithLBPCs => work.lb # NoId
    PROVE  ParentInv'
<1>1. w.graph.has /\ pc # "idle"
  BY DEF ParentInv, Chosen, ChosenAt, LoadedPCs, EnsurePCs
<1>2. ChosenAt(next, work)
  BY <1>1 DEF ChosenAt
<1>3. next \notin CleanupPCs
  BY DEF LoadedPCs, EnsurePCs, CleanupPCs
<1> QED
  BY <1>1, <1>2, <1>3, ContinueParent

(* What is patched onto a current snapshot is what ends up recorded.         *)
LEMMA PatchRooted ==
    ASSUME TypeOK, ParentInv, pc # "idle", NEW new, PatchAnnotations(new), Rooted(w.svc, new)
    PROVE  AllRooted'
<1>1. /\ ann \in [Services -> Annotations] /\ w.svc \in Services /\ obj[w.svc].there
      /\ ann' = [ann EXCEPT ![w.svc] = Patched(new)]
  BY DEF TypeOK, PatchAnnotations
<1>2. Patched(new) = MergePatch(w.base, w.base, new)
  BY <1>1 DEF ParentInv, Current, Patched
<1>3. Rooted(w.svc, Patched(new))
  BY <1>2, PatchOnCurrent DEF Rooted
<1> QED
  BY <1>1, <1>3 DEF ParentInv, AllRooted

(* The steps at the LBService.                                               *)
LEMMA LBParent ==
    ASSUME TypeOK, ParentInv, LBStep
    PROVE  ParentInv'
<1>1. w \in Work /\ w.graph \in Graph /\ w.base \in Annotations /\ w.svc \in Services
      /\ w.lb \in LbIds \cup {NoId} /\ pc \in LoadedPCs
  BY DEF TypeOK, Work, LBStep, GetRecordedLB, DeleteFailedLB, FindLBByName, CreateLB,
     CheckCreatedLB, PersistCheckpoint, BumpRepairs, LoadedPCs, EnsurePCs
<1>2. /\ \A l \in LbIds \cup {NoId} : LET work == [w EXCEPT !.lb = l] IN
            /\ work \in Work /\ work.svc = w.svc /\ work.base = w.base /\ work.graph = w.graph
            /\ work.lb = l
      /\ \A o \in {"ok", "pending", "terminal"} : LET work == [w EXCEPT !.outcome = o] IN
            /\ work \in Work /\ work.svc = w.svc /\ work.base = w.base /\ work.graph = w.graph
            /\ work.lb = w.lb
  BY <1>1 DEF Work
<1>3. /\ pc \in {"lb-get", "lb-delete", "lb-check", "checkpoint", "bump"} => w.lb # NoId
      /\ w.graph.has
  BY <1>1 DEF ParentInv, Chosen, ChosenAt, WithLBPCs, SettledPCs
<1>4. {"lb-get", "lb-find", "lb-create", "lb-check", "checkpoint"} \subseteq LoadedPCs \ SettledPCs
  BY DEF LoadedPCs, EnsurePCs, SettledPCs, ServePCs
<1>5. \A l \in LbIds : l # NoId
  BY IdAssumption
<1>6. ASSUME NEW o \in {"ok", "pending", "terminal"},
             Continue("checkpoint", [w EXCEPT !.outcome = o]),
             pc \in {"lb-get", "lb-delete", "lb-check"}
      PROVE  ParentInv'
  <2> DEFINE work == [w EXCEPT !.outcome = o]
  <2>1. /\ work \in Work /\ work.svc = w.svc /\ work.base = w.base /\ work.graph = w.graph
        /\ work.lb = w.lb
    BY <1>2
  <2> HIDE DEF work
  <2> QED
    BY <1>1, <1>3, <1>4, <1>6, <2>1, ContinueEarly DEF work
<1>7. ASSUME NEW l \in LbIds \cup {NoId}, NEW next \in {"lb-find", "lb-check"},
             next = "lb-check" => l # NoId, Continue(next, [w EXCEPT !.lb = l])
      PROVE  ParentInv'
  <2> DEFINE work == [w EXCEPT !.lb = l]
  <2>1. /\ work \in Work /\ work.svc = w.svc /\ work.base = w.base /\ work.graph = w.graph
        /\ work.lb = l
    BY <1>2
  <2>2. "lb-find" \notin WithLBPCs
    BY DEF WithLBPCs, SettledPCs, ServePCs
  <2> HIDE DEF work
  <2> QED
    BY <1>1, <1>3, <1>4, <1>7, <2>1, <2>2, ContinueEarly DEF work
<1>8. CASE GetRecordedLB
  <2>1. CASE LBVisible(w.lb) /\ lbs[w.lb].st = "failed" /\ Continue("lb-delete", w)
    <3>1. pc = "lb-get" /\ w.lb # NoId /\ lbs' = lbs
      BY <1>3, <1>8 DEF GetRecordedLB
    <3> QED
      BY <1>3, <2>1, <3>1
      DEF Continue, ParentInv, Current, AllRooted, Chosen, ChosenAt, FailedOnly, HoldsFinalizer,
          SettledPCs, ServePCs, CleanupPCs
  <2>2. pc = "lb-get" /\ LBOutcome(lbs[w.lb].st) \in {"ok", "pending", "terminal"}
    BY <1>8, OutcomeType DEF GetRecordedLB
  <2> QED
    BY <1>6, <1>7, <1>8, <2>1, <2>2, ReturnParent DEF GetRecordedLB
<1>9. CASE DeleteFailedLB
  BY <1>6, <1>9 DEF DeleteFailedLB
<1>10. CASE FindLBByName
  <2>1. CASE Continue("lb-create", w)
    <3>1. "lb-create" \notin WithLBPCs
      BY DEF WithLBPCs, SettledPCs, ServePCs
    <3> QED
      BY <1>1, <1>4, <2>1, <3>1, ContinueEarly
  <2> QED
    BY <1>5, <1>7, <1>10, <2>1, ReturnParent DEF FindLBByName, LBsNamed
<1>11. CASE CreateLB
  BY <1>5, <1>7, <1>11 DEF CreateLB
<1>12. CASE CheckCreatedLB
  <2>1. PICK o \in {"ok", "pending", "terminal"} :
               o = IF LBVisible(w.lb) THEN LBOutcome(lbs[w.lb].st) ELSE "pending"
    BY OutcomeType
  <2>2. pc = "lb-check" /\ Continue("checkpoint", [w EXCEPT !.outcome = o])
    BY <1>12, <2>1 DEF CheckCreatedLB
  <2> QED
    BY <1>6, <2>2
<1>13. CASE PersistCheckpoint
  <2>1. /\ WithLB(w.graph) \in Graph /\ WithLB(w.graph).lb[w.svc] = w.lb
        /\ WithLB(w.graph).has = w.graph.has
    BY <1>1 DEF WithLB, Graph
  <2>2. w.lb # NoId
    BY <1>3, <1>13 DEF PersistCheckpoint
  <2>3. CheckpointOf(w.base).lb = w.lb /\ CheckpointOf(w.base).graph = WithLB(w.graph)
    BY <1>1 DEF CheckpointOf, Annotations
  <2>4. AllRooted'
    <3>1. Rooted(w.svc, CheckpointOf(w.base))
      BY <1>3, <2>1, <2>2, <2>3 DEF Rooted
    <3> QED
      BY <1>13, <3>1, PatchRooted DEF PersistCheckpoint
  <2>5. CASE pc' = "idle"
    BY <2>4, <2>5, IdleParent DEF ParentInv
  <2>6. CASE pc' # "idle"
    <3>1. w' = [w EXCEPT !.base = ann'[w.svc], !.graph = WithLB(w.graph)]
          /\ pc' \in {"bump", "recover"} /\ obj' = obj
      BY <1>13, <2>6 DEF PersistCheckpoint, CheckpointNext, PatchAnnotations
    <3>2. /\ w'.svc = w.svc /\ w'.base = ann'[w.svc] /\ w'.graph = WithLB(w.graph)
          /\ w'.lb = w.lb
      BY <1>1, <3>1 DEF Work
    <3> QED
      BY <1>3, <2>1, <2>2, <2>4, <3>1, <3>2
      DEF ParentInv, Current, Chosen, ChosenAt, FailedOnly, HoldsFinalizer, CleanupPCs
  <2> QED
    BY <2>5, <2>6
<1>14. CASE BumpRepairs
  <2>1. CASE \E again : Return(again)
    BY <2>1, ReturnParent
  <2>2. CASE PatchAnnotations([w.base EXCEPT !.repairID = w.lb,
                                             !.repairs = RepairsOf(w.base) + 1])
             /\ pc' = "idle"
    <3> DEFINE new == [w.base EXCEPT !.repairID = w.lb, !.repairs = RepairsOf(w.base) + 1]
    <3>1. new.lb = w.base.lb /\ new.graph = w.base.graph
      BY <1>1 DEF Annotations
    <3>2. w.base = ann[w.svc] /\ pc # "idle" /\ PatchAnnotations(new)
      BY <1>14, <2>2 DEF BumpRepairs, PatchAnnotations, ParentInv, Current
    <3> HIDE DEF new
    <3>3. Rooted(w.svc, new)
      BY <1>1, <3>1, <3>2 DEF ParentInv, AllRooted, Rooted
    <3> QED
      BY <2>2, <3>2, <3>3, PatchRooted, IdleParent DEF ParentInv
  <2> QED
    BY <1>14, <2>1, <2>2 DEF BumpRepairs
<1> QED
  BY <1>8, <1>9, <1>10, <1>11, <1>12, <1>13, <1>14 DEF LBStep

(* From the checkpoint on a pass keeps its parent.                           *)
LEMMA ContinueSettled ==
    ASSUME ParentInv, pc \in SettledPCs, NEW next \in SettledPCs, NEW work, Continue(next, work),
           work.svc = w.svc, work.base = w.base, work.lb = w.lb,
           work.graph.lb = w.graph.lb, work.graph.has = w.graph.has
    PROVE  ParentInv'
<1>1. /\ pc # "idle" /\ pc \in WithLBPCs /\ pc \in LoadedPCs
      /\ next # "lb-delete" /\ next \notin CleanupPCs
  BY DEF SettledPCs, ServePCs, WithLBPCs, LoadedPCs, EnsurePCs, CleanupPCs
<1>2. ChosenAt(next, work)
  BY <1>1 DEF ParentInv, Chosen, ChosenAt
<1> QED
  BY <1>1, <1>2, ContinueParent

(* The steps at the VIP.                                                     *)
LEMMA VIPParent ==
    ASSUME TypeOK, ParentInv, VIPStep
    PROVE  ParentInv'
<1>1. w \in Work /\ w.graph \in Graph /\ pc \in SettledPCs
  BY DEF TypeOK, Work, VIPStep, RecoverByName, EnsureVIP, DeleteFailedVIP, CreateVIP, SettledPCs
<1>2. {"vip", "vip-delete", "vip-create", "listener"} \subseteq SettledPCs
  BY DEF SettledPCs, ServePCs
<1>3. ASSUME NEW v, NEW b, UseVIP(v, b) PROVE ParentInv'
  <2> DEFINE work == [w EXCEPT !.vip = v, !.addressed = b, !.todo = w.ports,
                               !.graph = WithVIP(w.graph, v)]
  <2>1. /\ work.svc = w.svc /\ work.base = w.base /\ work.lb = w.lb
        /\ work.graph.lb = w.graph.lb /\ work.graph.has = w.graph.has
    BY <1>1 DEF Work, WithVIP, Graph
  <2>2. Continue("listener", work)
    BY <1>3 DEF UseVIP
  <2> HIDE DEF work
  <2> QED
    BY <1>1, <1>2, <2>1, <2>2, ContinueSettled
<1>4. ASSUME NEW v, Continue("vip", [w EXCEPT !.vip = v, !.graph = Recovered])
      PROVE  ParentInv'
  <2> DEFINE work == [w EXCEPT !.vip = v, !.graph = Recovered]
  <2>1. Recovered.lb = w.graph.lb /\ Recovered.has = w.graph.has
    BY <1>1 DEF Recovered, Graph
  <2>2. /\ work.svc = w.svc /\ work.base = w.base /\ work.lb = w.lb /\ work.graph = Recovered
    BY <1>1 DEF Work
  <2> HIDE DEF work
  <2> QED
    BY <1>1, <1>2, <1>4, <2>1, <2>2, ContinueSettled DEF work
<1>5. ASSUME NEW next \in {"vip", "vip-delete", "vip-create"}, Continue(next, w)
      PROVE  ParentInv'
  BY <1>1, <1>2, <1>5, ContinueSettled
<1> QED
  BY <1>3, <1>4, <1>5, ReturnParent
  DEF VIPStep, RecoverByName, EnsureVIP, DeleteFailedVIP, CreateVIP

(* The steps at the listeners.                                               *)
LEMMA ListenerParent ==
    ASSUME TypeOK, ParentInv, ListenerStep
    PROVE  ParentInv'
<1>1. w \in Work /\ w.graph \in Graph /\ pc \in SettledPCs
  BY DEF TypeOK, Work, ListenerStep, EnsureListener, DeleteListener, CreateListener,
     CheckCreatedListener, DeleteObsoleteListener, SettledPCs, ServePCs
<1>2. {"listener", "vs-create", "vs-check", "vs-delete"} \subseteq SettledPCs
  BY DEF SettledPCs, ServePCs
<1>3. ASSUME NEW next \in {"vs-create", "vs-check", "vs-delete"}, NEW v,
             Continue(next, w) \/ Continue(next, [w EXCEPT !.vs = v])
      PROVE  ParentInv'
  <2> DEFINE work == [w EXCEPT !.vs = v]
  <2>1. work.svc = w.svc /\ work.base = w.base /\ work.lb = w.lb /\ work.graph = w.graph
    BY <1>1 DEF Work
  <2> HIDE DEF work
  <2> QED
    BY <1>1, <1>2, <1>3, <2>1, ContinueSettled DEF work
<1>4. ASSUME NEW work, Continue("listener", work), NEW p,
             \/ \E v : work = DoneWith(p, v)
             \/ work = [w EXCEPT !.graph.vs[p] = NoListener]
      PROVE  ParentInv'
  <2>1. ASSUME NEW g, NEW todo, NEW vs, g.lb = w.graph.lb, g.has = w.graph.has,
               \/ work = [w EXCEPT !.graph = g, !.todo = todo, !.vs = vs]
               \/ work = [w EXCEPT !.graph = g]
        PROVE  ParentInv'
    <3>1. /\ work.svc = w.svc /\ work.base = w.base /\ work.lb = w.lb /\ work.graph = g
      BY <1>1, <2>1 DEF Work
    <3> QED
      BY <1>1, <1>2, <1>4, <2>1, <3>1, ContinueSettled
  <2>2. \A x : LET g == [w.graph EXCEPT !.vs[p] = x] IN g.lb = w.graph.lb /\ g.has = w.graph.has
    BY <1>1 DEF Graph
  <2>3. CASE work = [w EXCEPT !.graph.vs[p] = NoListener]
    <3>1. work = [w EXCEPT !.graph = [w.graph EXCEPT !.vs[p] = NoListener]]
      BY <1>1, <2>3
    <3> QED
      BY <2>1, <2>2, <3>1
  <2>4. ASSUME NEW v, work = DoneWith(p, v) PROVE ParentInv'
    <3>1. work = [w EXCEPT !.graph = [w.graph EXCEPT !.vs[p] = [id |-> v, hash |-> w.hash]],
                           !.todo = w.todo \ {p}, !.vs = NoId]
      BY <1>1, <2>4 DEF DoneWith
    <3> QED
      BY <2>1, <2>2, <3>1
  <2> QED
    BY <1>4, <2>3, <2>4
<1>5. ASSUME NEW p \in Ports, EnsureListener(p) PROVE ParentInv'
  BY <1>3, <1>4, <1>5, ReturnParent DEF EnsureListener
<1>6. CASE DeleteListener
  BY <1>6, ReturnParent DEF DeleteListener
<1>7. CASE CreateListener
  BY <1>3, <1>7 DEF CreateListener
<1>8. CASE CheckCreatedListener
  BY <1>3, <1>4, <1>8, ReturnParent DEF CheckCreatedListener
<1>9. CASE DeleteObsoleteListener
  BY <1>4, <1>9 DEF DeleteObsoleteListener
<1> QED
  BY <1>5, <1>6, <1>7, <1>8, <1>9 DEF ListenerStep

(* The result patch and its publication.                                     *)
LEMMA LastParent ==
    ASSUME TypeOK, ParentInv, LastStep
    PROVE  ParentInv'
<1>1. w \in Work /\ w.graph \in Graph /\ w.base \in Annotations /\ w.svc \in Services
      /\ pc \in {"listener", "publish"}
  BY DEF TypeOK, Work, LastStep, PersistResult, PublishVIP
<1>2. w.lb # NoId /\ w.graph.has /\ w.graph.lb[w.svc] = w.lb /\ w.svc # Legacy
  BY <1>1, NameAssumption
  DEF ParentInv, Chosen, ChosenAt, WithLBPCs, LoadedPCs, EnsurePCs, SettledPCs, ServePCs
<1>3. CASE PersistResult
  <2> DEFINE g == DropMigratedLegacyAliases(w.graph)
  <2>1. g.has /\ g.lb[w.svc] = w.lb
    BY <1>1, <1>2 DEF DropMigratedLegacyAliases, Graph
  <2>2. ResultOf(w.base).lb = w.lb /\ ResultOf(w.base).graph = g
    BY <1>1 DEF ResultOf, Annotations
  <2>3. AllRooted'
    <3>1. Rooted(w.svc, ResultOf(w.base))
      BY <1>2, <2>1, <2>2 DEF Rooted
    <3> QED
      BY <1>1, <1>3, <3>1, PatchRooted DEF PersistResult
  <2>4. CASE pc' = "idle"
    BY <2>3, <2>4, IdleParent DEF ParentInv
  <2>5. CASE pc' # "idle"
    <3>1. w' = [w EXCEPT !.base = ann'[w.svc]] /\ pc' = "publish" /\ obj' = obj
      BY <1>3, <2>5 DEF PersistResult, PatchAnnotations
    <3>2. w'.svc = w.svc /\ w'.base = ann'[w.svc] /\ w'.graph = w.graph /\ w'.lb = w.lb
      BY <1>1, <3>1 DEF Work
    <3> QED
      BY <1>2, <2>3, <3>1, <3>2
      DEF ParentInv, Current, Chosen, ChosenAt, FailedOnly, HoldsFinalizer, CleanupPCs
  <2> QED
    BY <2>4, <2>5
<1>4. CASE PublishVIP
  BY <1>4, IdleParent DEF PublishVIP, ParentInv, AllRooted
<1> QED
  BY <1>3, <1>4 DEF LastStep

(* The clean-up.                                                             *)
LEMMA CleanupParent ==
    ASSUME TypeOK, ParentInv, Cleanup
    PROVE  ParentInv'
<1>1. w \in Work /\ w.graph \in Graph /\ pc \in CleanupPCs /\ pc # "idle"
  BY DEF TypeOK, Work, Cleanup, RefuseAmbiguousCleanup, CleanListener, ConfirmListenerGone,
     CleanVIP, CleanLB, ConfirmLBGone, RemoveFinalizer, CleanupPCs
<1>2. ASSUME NEW next \in CleanupPCs, NEW work, Continue(next, work), work.svc = w.svc,
             work.base = w.base
      PROVE  ParentInv'
  <2>1. ChosenAt(next, work) /\ next # "lb-delete"
    BY DEF ChosenAt, WithLBPCs, LoadedPCs, EnsurePCs, SettledPCs, ServePCs, CleanupPCs
  <2> QED
    BY <1>1, <1>2, <2>1, ContinueParent
<1>3. ASSUME NEW g, NEW next \in CleanupPCs,
             \/ \E v : Continue(next, [w EXCEPT !.vs = v])
             \/ Continue(next, w)
             \/ Continue(next, [w EXCEPT !.graph = g])
             \/ \E v : Continue(next, [w EXCEPT !.graph = g, !.vs = v])
      PROVE  ParentInv'
  <2>1. w'.svc = w.svc /\ w'.base = w.base /\ Continue(next, w')
    BY <1>1, <1>3 DEF Continue, Work
  <2> QED
    BY <1>2, <2>1
<1>4. CASE RefuseAmbiguousCleanup
  BY <1>4, ReturnParent DEF RefuseAmbiguousCleanup
<1>5. CASE CleanListener
  BY <1>3, <1>5 DEF CleanListener, CleanupPCs
<1>6. CASE ConfirmListenerGone
  BY <1>3, <1>6, ReturnParent DEF ConfirmListenerGone, CleanupPCs
<1>7. CASE CleanVIP
  BY <1>3, <1>7 DEF CleanVIP, AfterVIPs, CleanupPCs
<1>8. CASE CleanLB
  BY <1>3, <1>8 DEF CleanLB, CleanupPCs
<1>9. CASE ConfirmLBGone
  BY <1>3, <1>9, ReturnParent DEF ConfirmLBGone, CleanupPCs
<1>10. CASE RemoveFinalizer
  <2>1. Rooted(w.svc, NoAnnotations)
    BY DEF Rooted, NoAnnotations, NoGraph
  <2>2. AllRooted'
    BY <1>10, <2>1 DEF RemoveFinalizer, ParentInv, AllRooted, TypeOK
  <2> QED
    BY <1>10, <2>2, IdleParent DEF RemoveFinalizer, ParentInv
<1> QED
  BY <1>4, <1>5, <1>6, <1>7, <1>8, <1>9, <1>10 DEF Cleanup

(* A pass that is broken off.                                                *)
LEMMA BrokenParent ==
    ASSUME ParentInv, BrokenOff
    PROVE  ParentInv'
<1>1. CASE CallRefused
  BY <1>1, ReturnParent DEF CallRefused
<1>2. CASE FailedCall
  BY <1>2, IdleParent DEF FailedCall, ParentInv, AllRooted
<1> QED
  BY <1>1, <1>2 DEF BrokenOff

(* At the start nothing is recorded in a graph.                              *)
LEMMA InitParent == Init => ParentInv
<1> SUFFICES ASSUME Init PROVE ParentInv
  OBVIOUS
<1>1. \A s \in Services : ann[s].graph = NoGraph
  BY InitialGraph DEF Init
<1>2. NoGraph.has = FALSE /\ pc = "idle"
  BY DEF Init, NoGraph
<1> QED
  BY <1>1, <1>2
  DEF ParentInv, Current, AllRooted, Rooted, Chosen, ChosenAt, FailedOnly, HoldsFinalizer,
      WithLBPCs, LoadedPCs, SettledPCs, ServePCs, EnsurePCs, CleanupPCs

(* With fresh reads the parents are as described in every state.             *)
LEMMA ParentInvariant == ASSUME ~StaleReads PROVE Spec => []ParentInv
<1>1. TypeOK /\ ParentInv /\ [Next]_vars => ParentInv'
  BY StepKinds, OutsideParent, FirstParent, LBParent, VIPParent, ListenerParent, LastParent,
     CleanupParent, BrokenParent
<1> QED
  BY <1>1, InitParent, TypeCorrect, PTL DEF Spec

-----------------------------------------------------------------------------
(* What a clean-up may delete, and what it has deleted.                      *)

(* Another Service that still holds the finalizer has l as its parent. *)
SharedWith(l) == \E t \in Services \ {w.svc} : obj[t].fin /\ ann[t].lb = l

(* What the pass decided at its start about the parent is still so: nobody   *)
(* else's annotations or finalizer change while the one worker is at it.     *)
SharingInv ==
    pc \in CleanupPCs =>
        /\ w.deleteLB /\ w.base.lb # NoId => ~SharedWith(w.base.lb)
        /\ ~w.deleteLB /\ w.base.lb # NoId /\ w.base.lbMode = "managed" => SharedWith(w.base.lb)

(* The LBService in hand is the recorded one once it was found unambiguous.  *)
HandInv ==
    pc \in CleanupPCs =>
        /\ pc \in {"clean-lb", "clean-lb-get"} => w.deleteLB
        /\ pc = "clean-vs" => w.lb \in CleanupLBs(w.base.lb, w.graph)
        /\ pc # "unfinalize" => w.base.lb # NoId
        /\ pc \notin {"unfinalize", "clean-vs"} => w.lb = w.base.lb

(* Every recorded listener is still on the list or confirmed gone.           *)
GoneInv ==
    pc \in CleanupPCs =>
        \A p \in Ports : LET v == w.base.graph.vs[p].id IN
            v # NoId => \/ vss[v].st = "absent"
                        \/ /\ pc \in {"clean-vs", "clean-vs-get"}
                           /\ v \in CleanupListeners(w.graph)

(* And so is a managed LBService that is not shared. *)
ParentGone ==
    pc = "unfinalize" /\ w.base.lb # NoId /\ w.base.lbMode = "managed" =>
        lbs[w.base.lb].st = "absent" \/ SharedWith(w.base.lb)

CleanupInv == SharingInv /\ HandInv /\ GoneInv

(* A pass that does not clean up owes nothing of this.                       *)
LEMMA NotCleaning == pc' \notin CleanupPCs => CleanupInv' /\ ParentGone'
BY DEF CleanupInv, SharingInv, HandInv, GoneInv, ParentGone, CleanupPCs

(* Sharing does not change under a pass: the others keep finalizer and       *)
(* annotations as long as they hold the finalizer.                           *)
LEMMA SharingKept ==
    ASSUME TypeOK, FinThere', w'.svc = w.svc, NEW l \in LbIds,
           ObjectsKept \/ UNCHANGED <<obj, ann>>
    PROVE  SharedWith(l)' <=> SharedWith(l)
<1>1. l # NoId /\ NoAnnotations.lb = NoId
  BY IdAssumption DEF NoAnnotations
<1>2. CASE UNCHANGED <<obj, ann>>
  BY <1>2 DEF SharedWith
<1>3. CASE ObjectsKept
  <2>1. \A t \in Services : (obj'[t].fin /\ ann'[t].lb = l) <=> (obj[t].fin /\ ann[t].lb = l)
    BY <1>1, <1>3 DEF ObjectsKept, FinThere
  <2> QED
    BY <2>1 DEF SharedWith
<1> QED
  BY <1>2, <1>3

(* With fresh reads the siblings a clean-up sees are those that have the     *)
(* LBService as their parent.                                                *)
LEMMA SharedIsSeen ==
    ASSUME ~StaleReads, ParentInv, FinThere, NEW s \in Services, NEW l
    PROVE  IsLBShared(s, l) <=>
               l # NoId /\ \E t \in Services \ {s} : obj[t].fin /\ ann[t].lb = l
<1>1. \A t \in Services : KeepsParent(t, l) <=>
         obj[t].there /\ obj[t].fin /\ (IF ann[t].graph.has THEN ann[t].graph.lb[t] = l
                                                            ELSE ann[t].lb = l)
  BY DEF KeepsParent, View
<1>2. \A t \in Services : KeepsParent(t, l) <=> obj[t].fin /\ ann[t].lb = l
  BY <1>1 DEF ParentInv, AllRooted, Rooted, FinThere
<1> QED
  BY <1>2 DEF IsLBShared

(* The clean-up candidates of one Service are finitely many.                 *)
LEMMA CandidatesFinite ==
    ASSUME NEW lb, NEW g \in Graph
    PROVE  IsFiniteSet(CleanupLBs(lb, g))
<1> DEFINE K == Services \cup {Legacy}
           T == {g.lb[k] : k \in K}
<1>1. IsFiniteSet(K)
  BY BridgeAssumption, FS_AddElement
<1>2. IsFiniteSet(T)
  <2>1. g.lb \in [K -> T]
    BY DEF Graph
  <2>2. g.lb \in Surjection(K, T)
    BY <2>1 DEF Surjection
  <2> HIDE DEF K, T
  <2> QED
    BY <1>1, <2>2, FS_Surjection
<1>3. IsFiniteSet({lb} \cup T)
  BY <1>2, FS_Singleton, FS_Union
<1> QED
  BY <1>3, FS_RemoveElement DEF CleanupLBs

(* A unique candidate is the recorded LBService.                             *)
LEMMA OnlyCandidate ==
    ASSUME NEW lb, lb # NoId, NEW g \in Graph, Cardinality(CleanupLBs(lb, g)) = 1,
           NEW l \in CleanupLBs(lb, g)
    PROVE  l = lb
<1>1. PICK x : CleanupLBs(lb, g) = {x}
  BY CandidatesFinite, FS_Singleton
<1>2. lb \in CleanupLBs(lb, g)
  BY DEF CleanupLBs
<1> QED
  BY <1>1, <1>2

(* A Service that has recorded no LBService has recorded nothing.            *)
LEMMA NothingToClean ==
    ASSUME TypeOK, NEW s \in Services, Rooted(s, ann[s]),
           CleanupLBs(ann[s].lb, EnsureGraph(ann[s].graph, ann[s].lb, ann[s].vip)) = {}
           \/ ann[s].lb = NoId
    PROVE  /\ ann[s].lb = NoId /\ ann[s].graph = NoGraph
           /\ CleanupLBs(ann[s].lb, EnsureGraph(ann[s].graph, ann[s].lb, ann[s].vip)) = {}
<1> DEFINE a == ann[s]
           g == EnsureGraph(a.graph, a.lb, a.vip)
<1>1. a.lb = NoId
  BY DEF CleanupLBs
<1>2. a.graph = NoGraph
  BY <1>1 DEF Rooted
<1>3. \A k \in Services \cup {Legacy} : EnsureGraph(NoGraph, NoId, a.vip).lb[k] = NoId
  BY DEF EnsureGraph, NoGraph
<1>4. CleanupLBs(NoId, EnsureGraph(NoGraph, NoId, a.vip)) = {}
  BY <1>3 DEF CleanupLBs
<1> QED
  BY <1>1, <1>2, <1>4

(* The decisions of a clean-up are right when it begins.                     *)
LEMMA BeginsClean ==
    ASSUME TypeOK, FinThere, ParentInv, ~StaleReads, NEW s \in Services, BeginCleanup(s)
    PROVE  CleanupInv' /\ ParentGone'
<1> DEFINE a == ann[s]
           g == EnsureGraph(a.graph, a.lb, a.vip)
           C == CleanupLBs(a.lb, g)
<1>1. View(s).ann = a /\ a \in Annotations /\ a.graph \in Graph /\ Rooted(s, a)
  BY DEF View, TypeOK, Annotations, ParentInv, AllRooted
<1>2. /\ pc' = IF C = {} THEN "unfinalize" ELSE "clean-vs"
      /\ w'.svc = s /\ w'.base = a /\ w'.graph = g
      /\ w'.lb = IF C = {} THEN NoId ELSE CHOOSE l \in C : TRUE
      /\ w'.deleteLB = (~IsLBShared(s, a.lb) /\ a.lbMode # "provided")
      /\ UNCHANGED <<obj, ann, lbs, vss>>
  BY <1>1 DEF BeginCleanup, IdleWork
<1>3. g.vs = a.graph.vs
  BY <1>1, EnsureGraphType DEF Annotations
<1>4. C = {} <=> a.lb = NoId
  BY <1>1, NothingToClean
<1>5. a.lb = NoId => \A p \in Ports : a.graph.vs[p].id = NoId
  BY <1>1, NothingToClean DEF NoGraph, NoListener
<1>6. IsLBShared(s, a.lb) <=> a.lb # NoId /\ \E t \in Services \ {s} : obj[t].fin /\ ann[t].lb = a.lb
  BY SharedIsSeen
<1> HIDE DEF a, g, C
<1>7. SharingInv'
  BY <1>2, <1>6 DEF SharingInv, SharedWith, a
<1>8. HandInv'
  BY <1>2, <1>4 DEF HandInv, C
<1>9. GoneInv'
  BY <1>2, <1>3, <1>4, <1>5 DEF GoneInv, CleanupListeners
<1>10. ParentGone'
  BY <1>2, <1>4 DEF ParentGone
<1> QED
  BY <1>7, <1>8, <1>9, <1>10 DEF CleanupInv

(* While a clean-up is under way CMP gets nothing new.                       *)
LEMMA NothingNew ==
    ASSUME TypeOK, [Next]_vars, pc \in CleanupPCs
    PROVE  LbsKeeps /\ VssKeeps
BY OnlyCreatesAdd DEF CreateLB, CreateListener, CleanupPCs

(* Others move.                                                              *)
LEMMA OutsideClean ==
    ASSUME TypeOK, FinThere', CleanupInv, Outside
    PROVE  CleanupInv' /\ (ParentGone => ParentGone')
<1>1. UNCHANGED <<pc, w>> /\ LbsKeeps /\ VssKeeps /\ ObjectsKept
  BY OutsideFacts
<1>2. w.base.lb # NoId => w.base.lb \in LbIds
  BY DEF TypeOK, Work, Annotations
<1>3. \A p \in Ports : w.base.graph.vs[p].id # NoId => w.base.graph.vs[p].id \in VsIds
  BY DEF TypeOK, Work, Annotations, Graph, Listener
<1>4. w.base.lb # NoId => (SharedWith(w.base.lb)' <=> SharedWith(w.base.lb))
  BY <1>1, <1>2, SharingKept
<1>5. SharingInv'
  BY <1>1, <1>4 DEF CleanupInv, SharingInv
<1>6. HandInv'
  BY <1>1 DEF CleanupInv, HandInv
<1>7. GoneInv'
  BY <1>1, <1>3 DEF CleanupInv, GoneInv, VssKeeps, Ages
<1>8. ParentGone => ParentGone'
  BY <1>1, <1>2, <1>4 DEF ParentGone, LbsKeeps, Ages
<1> QED
  BY <1>5, <1>6, <1>7, <1>8 DEF CleanupInv

(* The clean-up goes on only when CMP has answered 404, with the parent and  *)
(* the decisions it began with.                                              *)
LEMMA CleansOn ==
    ASSUME BridgeInv, HandInv, GoneInv, Cleanup
    PROVE  /\ HandInv' /\ GoneInv'
           /\ pc' \in CleanupPCs => /\ UNCHANGED <<obj, ann>> /\ w'.svc = w.svc /\ w'.base = w.base
                                    /\ w'.deleteLB = w.deleteLB
<1>1. /\ TypeOK /\ w \in Work /\ w.graph \in Graph /\ w.base \in Annotations
      /\ w.base.graph \in Graph /\ vss \in [VsIds -> VSRecord]
  BY DEF BridgeInv, TypeOK, CMPTypeOK, Work, Annotations
<1>2. pc \in CleanupPCs
  BY DEF Cleanup, RefuseAmbiguousCleanup, CleanListener, ConfirmListenerGone, CleanVIP, CleanLB,
     ConfirmLBGone, RemoveFinalizer, CleanupPCs
<1>3. VssKeeps
  BY <1>1, CleanupKeeps
<1>4. \A p \in Ports : w.base.graph.vs[p].id \in VsIds \cup {NoId}
  BY <1>1 DEF Graph, Listener
<1> DEFINE Stays == /\ UNCHANGED <<obj, ann>> /\ w'.svc = w.svc /\ w'.base = w.base
                    /\ w'.deleteLB = w.deleteLB
<1> SUFFICES HandInv' /\ GoneInv' /\ (pc' \in CleanupPCs => Stays)
  OBVIOUS
<1>5. ASSUME NEW next \in CleanupPCs, Continue(next, w'), w'.svc = w.svc, w'.base = w.base,
             w'.deleteLB = w.deleteLB, w'.lb = w.lb
      PROVE  Stays
  BY <1>5 DEF Continue
<1>6. ASSUME RemoveFinalizer \/ \E again : Return(again)
      PROVE  HandInv' /\ GoneInv' /\ (pc' \in CleanupPCs => Stays)
  BY <1>6 DEF RemoveFinalizer, Return, HandInv, GoneInv, CleanupPCs
<1> HIDE DEF Stays
<1>7. CASE CleanListener
  <2>1. pc = "clean-vs" /\ Cardinality(CleanupLBs(w.base.lb, w.graph)) = 1
    BY <1>7 DEF CleanListener
  <2>2. w.lb = w.base.lb /\ w.base.lb # NoId
    <3>1. w.lb \in CleanupLBs(w.base.lb, w.graph) /\ w.base.lb # NoId
      BY <1>2, <1>4, <2>1 DEF HandInv
    <3> QED
      BY <1>1, <2>1, <3>1, OnlyCandidate
  <2>3. CASE CleanupListeners(w.graph) = {} /\ Continue("clean-vip", w)
    <3>1. w' = w /\ pc' = "clean-vip" /\ Stays
      BY <1>5, <2>3 DEF Continue, CleanupPCs
    <3>2. GoneInv'
      BY <1>2, <1>3, <1>4, <2>3, <3>1 DEF GoneInv, VssKeeps, Ages
    <3> QED
      BY <2>2, <3>1, <3>2 DEF HandInv
  <2>4. ASSUME NEW v, Continue("clean-vs-get", [w EXCEPT !.vs = v]) PROVE HandInv' /\ GoneInv' /\ Stays
    <3>1. /\ w'.svc = w.svc /\ w'.base = w.base /\ w'.deleteLB = w.deleteLB /\ w'.lb = w.lb
          /\ w'.graph = w.graph /\ pc' = "clean-vs-get" /\ Continue("clean-vs-get", w')
      BY <1>1, <2>4 DEF Continue, Work
    <3>2. Stays
      BY <1>5, <3>1 DEF CleanupPCs
    <3>3. GoneInv'
      BY <1>2, <1>3, <1>4, <2>1, <3>1 DEF GoneInv, VssKeeps, Ages
    <3> QED
      BY <2>2, <3>1, <3>2, <3>3 DEF HandInv
  <2> QED
    BY <1>7, <2>3, <2>4 DEF CleanListener
<1>8. CASE ConfirmListenerGone
  <2>1. pc = "clean-vs-get" /\ vss' = vss /\ w.lb = w.base.lb /\ w.base.lb # NoId /\ w.vs \in VsIds
    BY <1>2, <1>4, <1>8 DEF ConfirmListenerGone, HandInv, BridgeInv, PassInv
  <2>2. CASE /\ ~Visible(vss[w.vs].st)
             /\ Continue("clean-vs", [w EXCEPT !.graph = WithoutListener(w.graph, w.vs),
                                               !.vs = NoId])
    <3>1. /\ w'.svc = w.svc /\ w'.base = w.base /\ w'.deleteLB = w.deleteLB /\ w'.lb = w.lb
          /\ w'.graph = WithoutListener(w.graph, w.vs) /\ pc' = "clean-vs"
          /\ Continue("clean-vs", w')
      BY <1>1, <2>2 DEF Continue, Work
    <3>2. /\ w'.graph.lb = w.graph.lb
          /\ \A p \in Ports : w.graph.vs[p].id # w.vs => w'.graph.vs[p] = w.graph.vs[p]
      BY <1>1, <3>1 DEF WithoutListener, Graph
    <3>3. Stays
      BY <1>5, <3>1 DEF CleanupPCs
    <3>4. HandInv'
      <4>1. w.base.lb \in CleanupLBs(w'.base.lb, w'.graph)
        BY <2>1, <3>1 DEF CleanupLBs
      <4> QED
        BY <2>1, <3>1, <4>1 DEF HandInv
    <3>5. GoneInv'
      <4> SUFFICES ASSUME NEW p \in Ports, w.base.graph.vs[p].id # NoId
                   PROVE  \/ vss[w.base.graph.vs[p].id].st = "absent"
                          \/ w.base.graph.vs[p].id \in CleanupListeners(w'.graph)
        BY <2>1, <3>1 DEF GoneInv
      <4> DEFINE v == w.base.graph.vs[p].id
      <4>1. v \in VsIds
        BY <1>4
      <4>2. vss[v].st # "hidden"
        BY DEF BridgeInv, RecordedOwned, WorkOwned, OwnListeners
      <4>3. CASE v = w.vs
        BY <1>1, <2>2, <4>1, <4>2, <4>3 DEF VSRecord, Statuses, Visible
      <4>4. CASE v # w.vs /\ vss[v].st # "absent"
        <5>1. PICK q \in Ports : w.graph.vs[q].id = v
          BY <1>2, <1>4, <4>4 DEF GoneInv, CleanupListeners
        <5>2. w'.graph.vs[q].id = v
          BY <3>2, <4>4, <5>1
        <5> QED
          BY <5>2 DEF CleanupListeners
      <4> QED
        BY <4>3, <4>4
    <3> QED
      BY <3>3, <3>4, <3>5
  <2> QED
    BY <1>6, <1>8, <2>2 DEF ConfirmListenerGone
<1>9. CASE CleanVIP \/ CleanLB \/ ConfirmLBGone
  <2>1. w.lb = w.base.lb /\ pc \in {"clean-vip", "clean-lb", "clean-lb-get"} /\ w.base.lb # NoId
    BY <1>2, <1>4, <1>9 DEF CleanVIP, CleanLB, ConfirmLBGone, HandInv
  <2>2. ASSUME NEW next \in {"clean-vip", "clean-lb", "clean-lb-get", "unfinalize"},
               next \in {"clean-lb", "clean-lb-get"} => w.deleteLB,
               \/ Continue(next, w)
               \/ \E v : Continue(next, [w EXCEPT !.graph = WithoutVIP(@, v)])
        PROVE  HandInv' /\ GoneInv' /\ Stays
    <3>1. /\ w'.svc = w.svc /\ w'.base = w.base /\ w'.deleteLB = w.deleteLB /\ w'.lb = w.lb
          /\ pc' = next /\ Continue(next, w')
      BY <1>1, <2>2 DEF Continue, Work
    <3>2. Stays
      BY <1>5, <3>1 DEF CleanupPCs
    <3>3. GoneInv'
      BY <1>2, <1>3, <1>4, <2>1, <3>1 DEF GoneInv, VssKeeps, Ages
    <3>4. HandInv'
      BY <2>1, <2>2, <3>1 DEF HandInv
    <3> QED
      BY <3>2, <3>3, <3>4
  <2>3. pc \in {"clean-lb", "clean-lb-get"} => w.deleteLB
    BY <1>2, <1>4 DEF HandInv
  <2> QED
    BY <1>6, <1>9, <2>2, <2>3 DEF CleanVIP, AfterVIPs, CleanLB, ConfirmLBGone
<1>10. CASE RefuseAmbiguousCleanup
  BY <1>6, <1>10 DEF RefuseAmbiguousCleanup
<1>11. CASE RemoveFinalizer
  BY <1>6, <1>11
<1> QED
  BY <1>7, <1>8, <1>9, <1>10, <1>11 DEF Cleanup

(* So it is inductive: nobody's annotations change under it.                 *)
LEMMA CleansOnShared ==
    ASSUME BridgeInv, CleanupInv, Cleanup
    PROVE  CleanupInv'
<1>1. /\ HandInv' /\ GoneInv'
      /\ pc' \in CleanupPCs => /\ UNCHANGED <<obj, ann>> /\ w'.svc = w.svc /\ w'.base = w.base
                               /\ w'.deleteLB = w.deleteLB
  BY CleansOn DEF CleanupInv
<1>2. pc \in CleanupPCs
  BY DEF Cleanup, RefuseAmbiguousCleanup, CleanListener, ConfirmListenerGone, CleanVIP, CleanLB,
     ConfirmLBGone, RemoveFinalizer, CleanupPCs
<1> QED
  BY <1>1, <1>2 DEF CleanupInv, SharingInv, SharedWith

(* An Ensure pass never turns into a clean-up.                               *)
LEMMA EnsureNeverCleans ==
    ASSUME FirstStep \/ LBStep \/ VIPStep \/ ListenerStep \/ LastStep \/ BrokenOff,
           \A s \in Services : ~BeginCleanup(s)
    PROVE  pc' \notin CleanupPCs
<1>1. CASE FirstStep
  BY <1>1 DEF FirstStep, BeginEnsure, EnsureFinalizer, LoadObserved, Continue, CleanupPCs
<1>2. CASE LBStep
  BY <1>2, ReturnIdles
  DEF LBStep, GetRecordedLB, DeleteFailedLB, FindLBByName, CreateLB, CheckCreatedLB,
      PersistCheckpoint, CheckpointNext, BumpRepairs, Continue, CleanupPCs
<1>3. CASE VIPStep
  BY <1>3, ReturnIdles
  DEF VIPStep, RecoverByName, EnsureVIP, DeleteFailedVIP, CreateVIP, UseVIP, Continue, CleanupPCs
<1>4. CASE ListenerStep
  BY <1>4, ReturnIdles
  DEF ListenerStep, EnsureListener, DeleteListener, CreateListener, CheckCreatedListener,
      DeleteObsoleteListener, Continue, CleanupPCs
<1>5. CASE LastStep
  BY <1>5 DEF LastStep, PersistResult, PublishVIP, CleanupPCs
<1>6. CASE BrokenOff
  BY <1>6, ReturnIdles DEF BrokenOff, CallRefused, FailedCall, CleanupPCs
<1> QED
  BY <1>1, <1>2, <1>3, <1>4, <1>5, <1>6

(* Every step keeps what a clean-up relies on.                               *)
LEMMA NextClean ==
    ASSUME BridgeInv, FinThere, FinThere', ParentInv, CleanupInv, ~StaleReads, [Next]_vars
    PROVE  CleanupInv'
<1>1. TypeOK
  BY DEF BridgeInv
<1>2. CASE Outside
  BY <1>1, <1>2, OutsideClean
<1>3. CASE \E s \in Services : BeginCleanup(s)
  BY <1>1, <1>3, BeginsClean
<1>4. CASE Cleanup
  BY <1>4, CleansOnShared
<1> QED
  BY <1>2, <1>3, <1>4, StepKinds, EnsureNeverCleans, NotCleaning

(* With fresh reads that holds in every state.                               *)
LEMMA CleanupInvariant == ASSUME ~StaleReads PROVE Spec => []CleanupInv
<1>1. Init => CleanupInv
  BY DEF Init, CleanupInv, SharingInv, HandInv, GoneInv, CleanupPCs
<1>2. ServeInv => FinThere
  BY DEF ServeInv
<1>3. BridgeInv /\ FinThere /\ FinThere' /\ ParentInv /\ CleanupInv /\ [Next]_vars => CleanupInv'
  BY NextClean
<1> QED
  BY <1>1, <1>2, <1>3, BridgeInvariant, ServeInvariant, ParentInvariant, PTL DEF Spec

-----------------------------------------------------------------------------
(* The theorems.                                                             *)

(* A DELETE reaches one LBService, the one in its argument.                  *)
LEMMA LBDeleteReachesOne ==
    ASSUME TypeOK, NEW x, LBDeleteAccepted(x), NEW l \in LbIds,
           lbs'[l].st = "deleting", lbs[l].st # "deleting"
    PROVE  l = x
BY DEF TypeOK, CMPTypeOK, LBDeleteAccepted

(* Nobody but the worker asks CMP for a deletion.                            *)
LEMMA OutsideDeletesNoLB ==
    ASSUME TypeOK, Outside, NEW l \in LbIds, lbs[l].st = "ready"
    PROVE  lbs'[l].st # "deleting"
<1>1. lbs \in [LbIds -> LBRecord]
  BY DEF TypeOK, CMPTypeOK
<1>2. ASSUME NEW x, LBGone(x) PROVE lbs'[l].st # "deleting"
  BY <1>1, <1>2 DEF LBGone, NoLB
<1>3. ASSUME NEW x, NEW from, NEW to \in {"pending", "ready", "failed"}, LBBecomes(x, from, to)
      PROVE  lbs'[l].st # "deleting"
  BY <1>1, <1>3 DEF LBBecomes, LBRecord
<1>4. ASSUME NEW x \in LbIds, LBSettles(x) \/ LBDeleted(x) \/ LBFails(x) \/ LBLost(x)
      PROVE  lbs'[l].st # "deleting"
  BY <1>2, <1>3, <1>4 DEF LBSettles, LBDeleted, LBFails, LBLost
<1>5. CASE lbs' = lbs
  BY <1>5
<1>6. CASE ProviderStep
  <2>1. \A v \in VipIds : VIPSettles(v) \/ VIPFails(v) \/ VIPLost(v) => lbs' = lbs
    BY DEF VIPSettles, VIPFails, VIPLost, VIPBecomes
  <2>2. \A v \in VsIds : VSSettles(v) \/ VSDeleted(v) \/ VSFails(v) \/ VSLost(v) => lbs' = lbs
    BY DEF VSSettles, VSDeleted, VSFails, VSLost, VSBecomes, VSGone
  <2> QED
    BY <1>4, <1>5, <1>6, <2>1, <2>2 DEF ProviderStep
<1>7. CASE UserStep
  BY <1>5, <1>7, UserKeeps
<1>8. CASE UNCHANGED vars \/ \E s \in Services : InformerSync(s) \/ Resync(s) \/ IgnoreService(s)
  BY <1>5, <1>8 DEF vars, InformerSync, Resync, IgnoreService
<1> QED
  BY <1>6, <1>7, <1>8 DEF Outside

(* A step that asks for the deletion of a working LBService is the clean-up  *)
(* of the Service that has it recorded and shares it with nobody.            *)
LEMMA DeletesOwnLB ==
    ASSUME BridgeInv, ParentInv, CleanupInv, [Next]_vars, NEW l \in LbIds, lbs[l].st = "ready",
           lbs'[l].st = "deleting"
    PROVE  ~SharedWith(l)
<1>1. TypeOK /\ lbs \in [LbIds -> LBRecord] /\ lbs' # lbs
  BY DEF BridgeInv, TypeOK, CMPTypeOK
<1>2. CASE Outside
  BY <1>1, <1>2, OutsideDeletesNoLB
<1>3. CASE DeleteFailedLB
  <2>1. l = w.lb /\ pc = "lb-delete"
    BY <1>1, <1>3, LBDeleteReachesOne DEF DeleteFailedLB
  <2> QED
    BY <2>1 DEF ParentInv, FailedOnly
<1>4. CASE CleanLB
  <2>1. l = w.lb /\ pc = "clean-lb"
    BY <1>1, <1>4, LBDeleteReachesOne DEF CleanLB
  <2>2. w.deleteLB /\ w.lb = w.base.lb /\ w.base.lb # NoId
    BY <2>1 DEF CleanupInv, HandInv, CleanupPCs
  <2> QED
    BY <2>1, <2>2 DEF CleanupInv, SharingInv, CleanupPCs
<1>5. CASE CreateLB
  <2>1. PICK x \in LbIds, st \in Born : lbs' = [lbs EXCEPT ![x] = [st |-> st, name |-> w.svc]]
    BY <1>5 DEF CreateLB, LBAccepted
  <2> QED
    BY <1>1, <2>1, BornAssumption
<1>6. CASE FirstStep \/ VIPStep \/ LastStep \/ BrokenOff
  BY <1>1, <1>6, QuietSteps
<1>7. CASE GetRecordedLB \/ FindLBByName \/ CheckCreatedLB \/ PersistCheckpoint \/ BumpRepairs
  BY <1>1, <1>7, QuietSteps
<1>8. CASE ListenerStep
  BY <1>1, <1>8 DEF ListenerStep, EnsureListener, DeleteListener, CreateListener,
     CheckCreatedListener, DeleteObsoleteListener
<1>9. CASE RefuseAmbiguousCleanup \/ CleanListener \/ ConfirmListenerGone \/ CleanVIP
           \/ ConfirmLBGone \/ RemoveFinalizer
  BY <1>1, <1>9 DEF RefuseAmbiguousCleanup, CleanListener, ConfirmListenerGone, CleanVIP,
     ConfirmLBGone, RemoveFinalizer
<1> QED
  BY <1>2, <1>3, <1>4, <1>5, <1>6, <1>7, <1>8, <1>9, StepKinds DEF LBStep, Cleanup

(* SharedParentKept: a working LBService is not deleted while a sibling of   *)
(* the vip-group that holds the finalizer has it recorded as its parent,     *)
(* provided the worker's reads are fresh.                                    *)
THEOREM SharedParentsSurvive == ASSUME ~StaleReads PROVE Spec => SharedParentKept
<1>1. ASSUME BridgeInv, ParentInv, CleanupInv, [Next]_vars
      PROVE  [\A l \in LbIds : lbs[l].st = "ready" /\ lbs'[l].st = "deleting" =>
                 \A t \in Services \ {w.svc} : obj[t].fin => ann[t].lb # l]_vars
  BY <1>1, DeletesOwnLB DEF SharedWith
<1> QED
  BY <1>1, BridgeInvariant, ParentInvariant, CleanupInvariant, PTL DEF Spec, SharedParentKept

(* A pass gets as far as the finalizer only past a 404 for the LBService, or *)
(* because a sibling has it.                                                 *)
LEMMA NextParentGone ==
    ASSUME BridgeInv, FinThere, FinThere', ParentInv, CleanupInv, LookInv, ParentGone,
           ~StaleReads, [Next]_vars
    PROVE  ParentGone'
<1>1. TypeOK /\ w \in Work /\ lbs \in [LbIds -> LBRecord]
  BY DEF BridgeInv, TypeOK, CMPTypeOK
<1>2. CASE Outside
  BY <1>1, <1>2, OutsideClean
<1>3. CASE \E s \in Services : BeginCleanup(s)
  BY <1>1, <1>3, BeginsClean
<1>4. CASE CleanVIP /\ pc' = "unfinalize"
  <2>1. w' = w /\ UNCHANGED <<obj, ann>> /\ ~w.deleteLB /\ pc = "clean-vip"
    BY <1>4 DEF CleanVIP, AfterVIPs, Continue
  <2>2. w.base.lb # NoId /\ w.base.lbMode = "managed" => SharedWith(w.base.lb)
    BY <2>1 DEF CleanupInv, SharingInv, CleanupPCs
  <2> QED
    BY <2>1, <2>2 DEF ParentGone, SharedWith
<1>5. CASE ConfirmLBGone /\ pc' = "unfinalize"
  <2>1. w' = w /\ lbs' = lbs /\ ~LBVisible(w.lb) /\ w.lb = w.base.lb
    BY <1>5 DEF ConfirmLBGone, Continue, Return, CleanupInv, HandInv, CleanupPCs
  <2>2. w.lb = NoId \/ w.lb \in LbIds
    BY <1>1 DEF Work
  <2>3. w.lb # NoId => lbs[w.lb].st = "absent"
    BY <1>1, <2>1, <2>2 DEF LBVisible, Visible, LookInv, LBRecord, Statuses
  <2> QED
    BY <2>1, <2>3 DEF ParentGone
<1>6. CASE Cleanup /\ pc' # "unfinalize"
  BY <1>6 DEF ParentGone
<1>7. CASE Cleanup /\ pc' = "unfinalize" /\ ~CleanVIP /\ ~ConfirmLBGone
  BY <1>7, ReturnIdles DEF Cleanup, RefuseAmbiguousCleanup, CleanListener, ConfirmListenerGone,
     CleanLB, RemoveFinalizer, Continue
<1> QED
  BY <1>2, <1>3, <1>4, <1>5, <1>6, <1>7, StepKinds, EnsureNeverCleans, NotCleaning

(* The finalizer is taken off only by the last step of a clean-up.           *)
LEMMA ReleasedByCleanup ==
    ASSUME TypeOK, [Next]_vars, NEW s \in Services, obj[s].fin, ~obj'[s].fin
    PROVE  RemoveFinalizer /\ s = w.svc
<1>1. obj \in [Services -> Object] /\ obj' # obj
  BY DEF TypeOK
<1>2. CASE Outside
  <2>1. ObjectsKept
    BY <1>2, OutsideFacts
  <2> QED
    BY <2>1 DEF ObjectsKept
<1>3. CASE RemoveFinalizer
  <2>1. \A t \in Services : t # w.svc => obj'[t] = obj[t]
    BY <1>1, <1>3 DEF RemoveFinalizer
  <2> QED
    BY <1>3, <2>1
<1>4. CASE EnsureFinalizer
  <2>1. obj' = [obj EXCEPT ![w.svc] = [obj[w.svc] EXCEPT !.fin = TRUE]]
    BY <1>4 DEF EnsureFinalizer
  <2>2. obj[s] \in Object
    BY <1>1
  <2>3. [obj[s] EXCEPT !.fin = TRUE].fin = TRUE
    BY <2>2 DEF Object
  <2>4. \A t \in Services : obj'[t] = obj[t] \/ obj'[t] = [obj[t] EXCEPT !.fin = TRUE]
    BY <1>1, <2>1
  <2> QED
    BY <2>3, <2>4
<1>5. CASE FirstStep /\ ~EnsureFinalizer
  BY <1>1, <1>5 DEF FirstStep, BeginEnsure, BeginCleanup, LoadObserved, Continue
<1>6. CASE LBStep \/ VIPStep
  BY <1>1, <1>6
  DEF LBStep, GetRecordedLB, DeleteFailedLB, FindLBByName, CreateLB, CheckCreatedLB,
      PersistCheckpoint, BumpRepairs, PatchAnnotations, VIPStep, RecoverByName, EnsureVIP,
      DeleteFailedVIP, CreateVIP, UseVIP, Continue, Return
<1>7. CASE ListenerStep \/ LastStep \/ BrokenOff
  BY <1>1, <1>7
  DEF ListenerStep, EnsureListener, DeleteListener, CreateListener, CheckCreatedListener,
      DeleteObsoleteListener, LastStep, PersistResult, PublishVIP, PatchAnnotations, BrokenOff,
      CallRefused, FailedCall, Continue, Return
<1>8. CASE Cleanup /\ ~RemoveFinalizer
  BY <1>1, <1>8
  DEF Cleanup, RefuseAmbiguousCleanup, CleanListener, ConfirmListenerGone, CleanVIP, CleanLB,
      ConfirmLBGone, Continue, Return
<1> QED
  BY <1>2, <1>3, <1>4, <1>5, <1>6, <1>7, <1>8, StepKinds

(* CleanBeforeRelease: the finalizer goes only when CMP has answered 404 for *)
(* every listener the Service has recorded, and for a managed LBService that *)
(* no other Service uses, provided reads are fresh and see every create.     *)
THEOREM ReleasedClean ==
    ASSUME ~StaleReads, "hidden" \notin Born
    PROVE  Spec => CleanBeforeRelease
<1> DEFINE Clean ==
      \A s \in Services : obj[s].fin /\ ~obj'[s].fin =>
          /\ \A p \in Ports : LET v == ann[s].graph.vs[p].id IN v # NoId => vss[v].st = "absent"
          /\ ann[s].lb # NoId /\ ann[s].lbMode = "managed" =>
                \/ lbs[ann[s].lb].st = "absent"
                \/ \E t \in Services \ {s} : obj[t].fin /\ ann[t].lb = ann[s].lb
<1>1. ASSUME BridgeInv, FinThere, ParentInv, CleanupInv, ParentGone, [Next]_vars
      PROVE  [Clean]_vars
  <2> SUFFICES ASSUME NEW s \in Services, obj[s].fin, ~obj'[s].fin
               PROVE  /\ \A p \in Ports : LET v == ann[s].graph.vs[p].id IN
                                             v # NoId => vss[v].st = "absent"
                      /\ ann[s].lb # NoId /\ ann[s].lbMode = "managed" =>
                            \/ lbs[ann[s].lb].st = "absent"
                            \/ \E t \in Services \ {s} : obj[t].fin /\ ann[t].lb = ann[s].lb
    OBVIOUS
  <2>1. RemoveFinalizer /\ s = w.svc
    BY <1>1, ReleasedByCleanup DEF BridgeInv
  <2>2. pc = "unfinalize" /\ w.base = ann[s]
    BY <1>1, <2>1 DEF RemoveFinalizer, ParentInv, Current
  <2>3. \A p \in Ports : LET v == ann[s].graph.vs[p].id IN v # NoId => vss[v].st = "absent"
    BY <1>1, <2>2 DEF CleanupInv, GoneInv, CleanupPCs
  <2> QED
    BY <1>1, <2>1, <2>2, <2>3 DEF ParentGone, SharedWith
<1>2. Init => ParentGone
  BY DEF Init, ParentGone
<1>3. ServeInv => FinThere
  BY DEF ServeInv
<1>4. UniqueInv => LookInv
  BY DEF UniqueInv
<1>5. /\ BridgeInv /\ FinThere /\ FinThere' /\ ParentInv /\ CleanupInv /\ LookInv
         /\ ParentGone /\ [Next]_vars => ParentGone'
  BY NextParentGone
<1>6. Spec => []ParentGone
  BY <1>2, <1>3, <1>4, <1>5, BridgeInvariant, ServeInvariant, ParentInvariant, CleanupInvariant,
     UniqueInvariant, PTL DEF Spec
<1> QED
  BY <1>1, <1>3, <1>6, BridgeInvariant, ServeInvariant, ParentInvariant, CleanupInvariant, PTL
  DEF Spec, CleanBeforeRelease

=============================================================================

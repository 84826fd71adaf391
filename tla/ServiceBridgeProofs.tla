------------------------- MODULE ServiceBridgeProofs -------------------------
(* What TLAPS proves of ServiceBridge for every set of Services, ports and   *)
(* provider ids, every vip-group, fresh or stale reads, and every selection  *)
(* and number of faults: type correctness, and that the worker never deletes *)
(* a listener another Service created.                                       *)
EXTENDS ServiceBridge, TLAPS

-----------------------------------------------------------------------------
(* The operators of ObservedState.                                           *)

(* The "nothing recorded" values are of the right type. *)
LEMMA NullTypes ==
    /\ NoListener \in Listener /\ NoGraph \in Graph /\ NoAnnotations \in Annotations
    /\ IdleWork \in Work
<1>1. NoListener \in Listener
  BY DEF NoListener, Listener
<1>2. NoGraph \in Graph
  BY <1>1 DEF NoGraph, Graph
<1>3. NoAnnotations \in Annotations
  BY <1>2 DEF NoAnnotations, Annotations, Modes
<1>4. IdleWork \in Work
  BY <1>2, <1>3 DEF IdleWork, Work
<1> QED
  BY <1>1, <1>2, <1>3, <1>4

(* Mirroring the scalar ids into the graph leaves its listeners alone. *)
LEMMA EnsureGraphType ==
    ASSUME NEW g \in Graph, NEW lb \in LbIds \cup {NoId}, NEW vip \in VipIds \cup {NoId}
    PROVE  EnsureGraph(g, lb, vip) \in Graph /\ EnsureGraph(g, lb, vip).vs = g.vs
BY DEF EnsureGraph, Graph

(* So does dropping the migrated aliases. *)
LEMMA DropAliasesType ==
    ASSUME NEW g \in Graph
    PROVE  /\ DropMigratedLegacyAliases(g) \in Graph
           /\ DropMigratedLegacyAliases(g).vs = g.vs
BY DEF DropMigratedLegacyAliases, Graph

(* A patched object carries, field by field, the server's or the worker's    *)
(* value: never a third one.                                                 *)
LEMMA MergePatchType ==
    ASSUME NEW server \in Annotations, NEW base \in Annotations, NEW new \in Annotations
    PROVE  /\ MergePatch(server, base, new) \in Annotations
           /\ MergePatch(server, base, new).graph \in {server.graph, new.graph}
BY DEF MergePatch, MergeField, Annotations

-----------------------------------------------------------------------------
(* Type correctness.                                                         *)

(* The part of TypeOK that CMP's own steps leave alone. *)
BridgeTypeOK ==
    /\ obj \in [Services -> Object]
    /\ ann \in [Services -> Annotations]
    /\ status \in [Services -> VipIds \cup {NoId}]
    /\ seen \in [Services -> [obj : Object, ann : Annotations]]
    /\ queue \in SUBSET Services
    /\ pc \in {"idle"} \cup EnsurePCs \cup CleanupPCs
    /\ w \in Work
    /\ pc # "idle" => w.svc \in Services
    /\ faults \in Nat

(* What the local variables hold while a listener is being made or deleted:  *)
(* there is a next port, the listener in hand has an id and is the Service's *)
(* own or gone, and the one just created is for that port on the pass's VIP. *)
PassInv ==
    /\ pc \in {"vs-create", "vs-check"} => \E p \in w.todo : \A q \in w.todo : p <= q
    /\ pc \in {"vs-delete", "vs-check", "clean-vs-get"} =>
          w.vs \in VsIds /\ (vss[w.vs].st = "absent" \/ vss[w.vs].by = w.svc)
    /\ pc = "vs-check" =>
          vss[w.vs].st = "absent" \/ (vss[w.vs].vip = w.vip /\ vss[w.vs].port = NextPort)

(* The type invariant by who writes the variables.                           *)
LEMMA TypeParts == (TypeOK <=> CMPTypeOK /\ BridgeTypeOK) /\ (CMPTypeOK' /\ BridgeTypeOK' => TypeOK')
BY DEF TypeOK, BridgeTypeOK

(* Steps that leave CMP alone keep its types.                                *)
LEMMA CMPUnchanged == TypeOK /\ UNCHANGED <<lbs, vips, vss>> => CMPTypeOK'
BY DEF TypeOK, CMPTypeOK

(* The initial states are typed.                                             *)
LEMMA InitType == Init => TypeOK
<1> SUFFICES ASSUME Init PROVE TypeOK
  OBVIOUS
<1>1. InitialAnnotations \subseteq Annotations
  <2>1. \A v \in UserVIPs : OnlyVIP(v) \in Annotations
    BY NullTypes, UserAssumption DEF OnlyVIP, Annotations
  <2>2. \A l \in UserLBs, m \in Modes : OnlyLB(l, m) \in Annotations
    BY NullTypes, UserAssumption DEF OnlyLB, Annotations
  <2>3. \A v \in UserVIPs, m \in Modes : LBAndVIP(v, m) \in Annotations
    <3> SUFFICES ASSUME NEW v \in UserVIPs, NEW m \in Modes
                 PROVE  LBAndVIP(v, m) \in Annotations
      OBVIOUS
    <3>1. OnlyLB(UserVIPParent, m) \in Annotations /\ v \in VipIds
      BY <2>2, UserAssumption
    <3> QED
      BY <3>1 DEF LBAndVIP, Annotations
  <2>4. ASSUME NEW m \in Modes PROVE Supplied(m) \subseteq Annotations
    BY <2>2, <2>3 DEF Supplied
  <2> QED
    BY <2>1, <2>4, NullTypes DEF InitialAnnotations, Modes
<1>2. CMPTypeOK
  <2>1. NoLB \in LBRecord /\ NoVIP \in VIPRecord /\ NoVS \in VSRecord
    BY DEF NoLB, NoVIP, NoVS, LBRecord, VIPRecord, VSRecord, Statuses
  <2>2. [st |-> "ready", name |-> User] \in LBRecord
    BY DEF LBRecord, Statuses
  <2>3. ASSUME NEW v \in UserVIPs
        PROVE  [st |-> "active", lb |-> UserVIPParent, by |-> User] \in VIPRecord
    BY UserAssumption DEF VIPRecord
  <2> QED
    BY <2>1, <2>2, <2>3 DEF Init, CMPInit, CMPTypeOK
<1>3. BridgeTypeOK
  <2>1. obj \in [Services -> Object]
    BY BridgeAssumption DEF Init, Object
  <2>2. ann \in [Services -> Annotations]
    BY <1>1 DEF Init
  <2> QED
    BY <2>1, <2>2, NullTypes DEF Init, BridgeTypeOK
<1> QED
  BY <1>2, <1>3, TypeParts

(* What the three ways to end a step leave well typed. *)
LEMMA ContinueType ==
    ASSUME TypeOK, NEW next \in EnsurePCs \cup CleanupPCs, NEW work \in Work,
           work.svc \in Services, Continue(next, work)
    PROVE  BridgeTypeOK'
BY DEF TypeOK, BridgeTypeOK, Continue

(* A pass that returns leaves typed variables.                               *)
LEMMA ReturnType ==
    ASSUME TypeOK, pc # "idle", NEW again, Return(again)
    PROVE  BridgeTypeOK'
BY NullTypes DEF TypeOK, BridgeTypeOK, Return

(* A merge patch gives typed annotations.                                    *)
LEMMA PatchedType ==
    ASSUME TypeOK, pc # "idle", NEW new \in Annotations, PatchAnnotations(new)
    PROVE  /\ ann' \in [Services -> Annotations]
           /\ ann'[w.svc] \in Annotations
<1>1. Patched(new) \in Annotations
  BY MergePatchType DEF TypeOK, Patched, Work
<1> QED
  BY <1>1 DEF TypeOK, PatchAnnotations

(* Queueing a Service keeps the types.                                       *)
LEMMA EnqueuedType ==
    ASSUME TypeOK, NEW S \in SUBSET Services, NEW changed
    PROVE  Enqueued(S, changed) \in SUBSET Services
BY DEF TypeOK, Enqueued

(* The informer's copy is typed.                                             *)
LEMMA ViewType ==
    ASSUME TypeOK, NEW s \in Services
    PROVE  View(s).obj \in Object /\ View(s).ann \in Annotations
BY DEF TypeOK, View

(* What a clean-up starts with.                                              *)
LEMMA CleanupWorkType ==
    ASSUME NEW s \in Services, NEW a \in Annotations, NEW g \in Graph, NEW l \in LbIds \cup {NoId},
           NEW b \in BOOLEAN, NEW c \in BOOLEAN
    PROVE  LET work == [IdleWork EXCEPT !.svc = s, !.base = a, !.graph = g, !.lb = l,
                                        !.deleteVIP = b, !.deleteLB = c]
           IN  work \in Work /\ work.svc = s
<1>1. ASSUME NEW r \in Work
      PROVE  [r EXCEPT !.svc = s, !.base = a, !.graph = g] \in Work
  BY <1>1 DEF Work
<1>2. ASSUME NEW r \in Work
      PROVE  [r EXCEPT !.lb = l, !.deleteVIP = b, !.deleteLB = c] \in Work
  BY <1>2 DEF Work
<1>3. IdleWork \in Work
  BY NullTypes
<1> DEFINE r == [IdleWork EXCEPT !.svc = s, !.base = a, !.graph = g]
<1>4. r \in Work /\ [r EXCEPT !.lb = l, !.deleteVIP = b, !.deleteLB = c] \in Work
  BY <1>1, <1>2, <1>3
<1>5. /\ [IdleWork EXCEPT !.svc = s, !.base = a, !.graph = g, !.lb = l, !.deleteVIP = b,
                         !.deleteLB = c]
            = [r EXCEPT !.lb = l, !.deleteVIP = b, !.deleteLB = c]
      /\ [r EXCEPT !.lb = l, !.deleteVIP = b, !.deleteLB = c].svc = s
  BY DEF IdleWork
<1> QED
  BY <1>4, <1>5

(* The start of a pass. *)
LEMMA StartPassType ==
    ASSUME TypeOK, NEW s \in Services, StartPass(s)
    PROVE  TypeOK'
<1> SUFFICES CMPTypeOK' /\ BridgeTypeOK'
  BY TypeParts
<1>1. CASE IgnoreService(s)
  BY <1>1 DEF IgnoreService, Dequeue, TypeOK, BridgeTypeOK, CMPTypeOK
<1>2. CASE BeginEnsure(s)
  <2>1. w' \in Work /\ w'.svc = s
    BY <1>2, ViewType, NullTypes DEF BeginEnsure, Work, Object, IdleWork
  <2> QED
    BY <1>2, <2>1 DEF BeginEnsure, Dequeue, TypeOK, BridgeTypeOK, CMPTypeOK, EnsurePCs
<1>3. CASE BeginCleanup(s)
  <2> DEFINE a == View(s).ann
             g == EnsureGraph(a.graph, a.lb, a.vip)
  <2>1. a \in Annotations /\ g \in Graph
    BY ViewType, EnsureGraphType DEF Annotations
  <2>2. CleanupLBs(a.lb, g) \subseteq LbIds
    BY <2>1 DEF CleanupLBs, Annotations, Graph
  <2>3. w' \in Work /\ w'.svc = s
    <3> DEFINE l == IF CleanupLBs(a.lb, g) = {} THEN NoId
                    ELSE CHOOSE x \in CleanupLBs(a.lb, g) : TRUE
               b == ~IsVIPShared(s, a.lb, a.vip) /\ a.vipMode # "provided"
               c == ~IsLBShared(s, a.lb) /\ a.lbMode # "provided"
    <3>1. w' = [IdleWork EXCEPT !.svc = s, !.base = a, !.graph = g, !.lb = l,
                                !.deleteVIP = b, !.deleteLB = c]
      BY <1>3 DEF BeginCleanup
    <3>2. b \in BOOLEAN /\ c \in BOOLEAN
      OBVIOUS
    <3>3. l \in LbIds \cup {NoId}
      BY <2>2
    <3> HIDE DEF a, g, l, b, c
    <3>4. PICK x \in BOOLEAN, y \in BOOLEAN, z \in LbIds \cup {NoId} : x = b /\ y = c /\ z = l
      BY <3>2, <3>3
    <3>5. w' = [IdleWork EXCEPT !.svc = s, !.base = a, !.graph = g, !.lb = z,
                                !.deleteVIP = x, !.deleteLB = y]
      BY <3>1, <3>4
    <3>6. [IdleWork EXCEPT !.svc = s, !.base = a, !.graph = g, !.lb = z, !.deleteVIP = x,
                           !.deleteLB = y] \in Work
      BY <2>1, CleanupWorkType
    <3> QED
      BY <3>5, <3>6 DEF IdleWork
  <2> QED
    BY <1>3, <2>3 DEF BeginCleanup, Dequeue, TypeOK, BridgeTypeOK, CMPTypeOK, CleanupPCs
<1> QED
  BY <1>1, <1>2, <1>3 DEF StartPass

(* Loading what is recorded, from the Service or from a sibling. *)
LEMMA LoadedType ==
    ASSUME TypeOK, pc # "idle", NEW lb \in LbIds \cup {NoId}, NEW vip \in VipIds \cup {NoId},
           NEW g \in Graph
    PROVE  /\ Loaded(lb, vip, g) \in Work
           /\ Loaded(lb, vip, g).svc = w.svc
           /\ Loaded(lb, vip, g).base = w.base
           /\ Loaded(lb, vip, g).graph.vs = g.vs
<1>1. EnsureGraph(g, lb, vip) \in Graph /\ EnsureGraph(g, lb, vip).vs = g.vs
  BY EnsureGraphType
<1>2. StrictLB(w.svc, w.base, g) \in BOOLEAN /\ StrictVIP(w.svc, w.base, g) \in BOOLEAN
  BY DEF StrictLB, StrictVIP
<1> DEFINE h == EnsureGraph(g, lb, vip)
           slb == StrictLB(w.svc, w.base, g)
           svip == StrictVIP(w.svc, w.base, g)
           work == [w EXCEPT !.lb = lb, !.vip = vip, !.graph = h, !.strictLB = slb,
                             !.strictVIP = svip]
<1>3. Loaded(lb, vip, g) = work
  BY DEF Loaded
<1>4. w \in Work
  BY DEF TypeOK
<1>5. h \in Graph /\ h.vs = g.vs /\ slb \in BOOLEAN /\ svip \in BOOLEAN
  BY <1>1, <1>2
<1> HIDE DEF h, slb, svip
<1>6. work \in Work
  BY <1>4, <1>5 DEF Work
<1>7. work.svc = w.svc /\ work.base = w.base /\ work.graph = h
  BY <1>4 DEF Work
<1> QED
  BY <1>3, <1>5, <1>6, <1>7

(* The graph taken from a sibling is one.                                    *)
LEMMA ParentGraphType ==
    ASSUME TypeOK, NEW t \in VIPGroup, NEW k \in VIPGroup
    PROVE  /\ ParentGraph(t, k) \in Graph
           /\ ParentGraph(t, k).vs = NoGraph.vs
<1>1. t \in Services /\ k \in Services
  BY BridgeAssumption
<1>2. View(t).ann.graph \in Graph
  BY <1>1, ViewType DEF Annotations
<1> QED
  BY <1>1, <1>2, NullTypes DEF ParentGraph, Graph

(* Types: the start of a pass.                                               *)
LEMMA LoadObservedType == TypeOK /\ LoadObserved => TypeOK'
<1> SUFFICES ASSUME TypeOK, LoadObserved PROVE BridgeTypeOK'
  BY TypeParts, CMPUnchanged DEF LoadObserved
<1>1. pc = "load" /\ w \in Work /\ w.base \in Annotations /\ w.svc \in Services
  BY DEF LoadObserved, TypeOK, Work
<1>2. CASE Continue(IF w.base.lb = NoId THEN "lb-find" ELSE "lb-get",
                    Loaded(w.base.lb, w.base.vip, w.base.graph))
  BY <1>1, <1>2, LoadedType, ContinueType DEF EnsurePCs, Annotations
<1>3. ASSUME NEW t \in VIPGroup, NEW k \in VIPGroup,
             Continue("lb-get", Loaded(ParentGraph(t, k).lb[k], ParentGraph(t, k).vip,
                                       ParentGraph(t, k)))
      PROVE  BridgeTypeOK'
  <2>1. ParentGraph(t, k) \in Graph /\ k \in Services
    BY ParentGraphType, BridgeAssumption
  <2>2. ParentGraph(t, k).lb[k] \in LbIds \cup {NoId} /\ ParentGraph(t, k).vip \in VipIds \cup {NoId}
    BY <2>1 DEF Graph
  <2>3. Loaded(ParentGraph(t, k).lb[k], ParentGraph(t, k).vip, ParentGraph(t, k)) \in Work
        /\ Loaded(ParentGraph(t, k).lb[k], ParentGraph(t, k).vip, ParentGraph(t, k)).svc = w.svc
    BY <1>1, <2>1, <2>2, LoadedType
  <2> QED
    BY <1>1, <1>3, <2>3, ContinueType DEF EnsurePCs
<1> QED
  BY <1>2, <1>3 DEF LoadObserved

(* Every status of CMP has an outcome.                                       *)
LEMMA OutcomeType == \A st : LBOutcome(st) \in {"ok", "pending", "terminal"}
BY DEF LBOutcome

(* The steps that look the LBService up, create or replace it. *)
LEMMA LBStepType ==
    ASSUME TypeOK,
           EnsureFinalizer \/ GetRecordedLB \/ DeleteFailedLB \/ FindLBByName \/ CreateLB
              \/ CheckCreatedLB
    PROVE  TypeOK'
<1> SUFFICES CMPTypeOK' /\ BridgeTypeOK'
  BY TypeParts
<1>1. pc # "idle" => w \in Work /\ w.svc \in Services /\ w.lb \in LbIds \cup {NoId}
  BY DEF TypeOK, Work
<1>2. CASE EnsureFinalizer
  <2>1. obj' \in [Services -> Object]
    <3>1. obj[w.svc] \in Object /\ [obj[w.svc] EXCEPT !.fin = TRUE] \in Object
      BY <1>1, <1>2 DEF EnsureFinalizer, TypeOK, Object
    <3> QED
      BY <1>1, <1>2, <3>1 DEF EnsureFinalizer, TypeOK
  <2>2. w' \in Work /\ w'.svc = w.svc /\ pc' = "load"
    <3>1. ann[w.svc] \in Annotations
      BY <1>1, <1>2 DEF EnsureFinalizer, TypeOK
    <3> QED
      BY <1>1, <1>2, <3>1 DEF EnsureFinalizer, Work
  <2> QED
    BY <1>1, <1>2, <2>1, <2>2, EnqueuedType, CMPUnchanged
    DEF EnsureFinalizer, TypeOK, BridgeTypeOK, EnsurePCs
<1>3. CASE GetRecordedLB
  <2>1. CMPTypeOK'
    BY <1>3, CMPUnchanged DEF GetRecordedLB
  <2>2. \A st : [w EXCEPT !.outcome = LBOutcome(st)] \in Work
                /\ [w EXCEPT !.outcome = LBOutcome(st)].svc = w.svc
    BY <1>1, <1>3, OutcomeType DEF GetRecordedLB, Work
  <2>3. [w EXCEPT !.lb = NoId] \in Work /\ [w EXCEPT !.lb = NoId].svc = w.svc
    BY <1>1, <1>3 DEF GetRecordedLB, Work
  <2> QED
    BY <1>1, <1>3, <2>1, <2>2, <2>3, ContinueType, ReturnType DEF GetRecordedLB, EnsurePCs
<1>4. CASE DeleteFailedLB
  <2>1. CMPTypeOK'
    <3>1. \A r \in LBRecord : [r EXCEPT !.st = "deleting"] \in LBRecord
      BY DEF LBRecord, Statuses
    <3>2. UNCHANGED <<vips, vss>> /\ LBDeleteAccepted(w.lb)
      BY <1>4 DEF DeleteFailedLB
    <3>3. lbs \in [LbIds -> LBRecord]
      BY DEF TypeOK, CMPTypeOK
    <3>4. lbs' \in [LbIds -> LBRecord]
      BY <3>1, <3>2, <3>3 DEF LBDeleteAccepted
    <3> QED
      BY <3>2, <3>4 DEF TypeOK, CMPTypeOK
  <2>2. [w EXCEPT !.outcome = "pending"] \in Work /\ [w EXCEPT !.outcome = "pending"].svc = w.svc
    BY <1>1, <1>4 DEF DeleteFailedLB, Work
  <2> QED
    BY <1>1, <1>4, <2>1, <2>2, ContinueType DEF DeleteFailedLB, EnsurePCs
<1>5. CASE FindLBByName
  <2>1. \A l \in LbIds : [w EXCEPT !.lb = l] \in Work /\ [w EXCEPT !.lb = l].svc = w.svc
    BY <1>1, <1>5 DEF FindLBByName, Work
  <2> QED
    BY <1>1, <1>5, <2>1, ContinueType, ReturnType, CMPUnchanged
    DEF FindLBByName, EnsurePCs, LBsNamed
<1>6. CASE CreateLB
  <2>1. PICK l \in LbIds : LBAccepted(l, w.svc) /\ Continue("lb-check", [w EXCEPT !.lb = l])
    BY <1>6 DEF CreateLB
  <2>2. CMPTypeOK'
    BY <1>1, <1>6, <2>1, BornAssumption
    DEF CreateLB, LBAccepted, TypeOK, CMPTypeOK, LBRecord, Statuses
  <2>3. [w EXCEPT !.lb = l] \in Work /\ [w EXCEPT !.lb = l].svc = w.svc
    BY <1>1, <1>6 DEF CreateLB, Work
  <2> QED
    BY <1>1, <1>6, <2>1, <2>2, <2>3, ContinueType DEF CreateLB, EnsurePCs
<1>7. CASE CheckCreatedLB
  <2>1. [w EXCEPT !.outcome = IF LBVisible(w.lb) THEN LBOutcome(lbs[w.lb].st)
                              ELSE "pending"] \in Work
    BY <1>1, <1>7, OutcomeType DEF CheckCreatedLB, Work
  <2>2. [w EXCEPT !.outcome = IF LBVisible(w.lb) THEN LBOutcome(lbs[w.lb].st)
                              ELSE "pending"].svc = w.svc
    BY <1>1, <1>7 DEF CheckCreatedLB, Work
  <2> QED
    BY <1>1, <1>7, <2>1, <2>2, ContinueType, CMPUnchanged DEF CheckCreatedLB, EnsurePCs
<1> QED
  BY <1>2, <1>3, <1>4, <1>5, <1>6, <1>7

(* The checkpoint and the repair counter. *)
LEMMA CheckpointType ==
    ASSUME TypeOK, PersistCheckpoint \/ BumpRepairs
    PROVE  TypeOK'
<1> SUFFICES CMPTypeOK' /\ BridgeTypeOK'
  BY TypeParts
<1>1. w \in Work /\ w.svc \in Services /\ w.base \in Annotations /\ w.graph \in Graph
      /\ w.lb \in LbIds \cup {NoId} /\ pc # "idle"
  BY DEF TypeOK, Work, PersistCheckpoint, BumpRepairs
<1>2. CASE PersistCheckpoint
  <2>1. WithLB(w.graph) \in Graph
    BY <1>1 DEF WithLB, Graph
  <2>2. CheckpointOf(w.base) \in Annotations
    BY <1>1, <2>1 DEF CheckpointOf, Annotations, Modes
  <2>3. ann' \in [Services -> Annotations] /\ ann'[w.svc] \in Annotations
    BY <1>1, <1>2, <2>2, PatchedType DEF PersistCheckpoint
  <2>4. w' \in Work /\ (pc' # "idle" => w'.svc \in Services)
    BY <1>1, <1>2, <2>1, <2>3, NullTypes DEF PersistCheckpoint, CheckpointNext, Work
  <2>5. queue' \in SUBSET Services
    BY <1>1, <1>2, EnqueuedType DEF PersistCheckpoint
  <2>6. CMPTypeOK'
    BY <1>2, CMPUnchanged DEF PersistCheckpoint, PatchAnnotations
  <2> QED
    BY <1>2, <2>3, <2>4, <2>5, <2>6
    DEF PersistCheckpoint, PatchAnnotations, CheckpointNext, TypeOK, BridgeTypeOK, EnsurePCs
<1>3. CASE BumpRepairs
  <2>1. CASE Return(FALSE) /\ UNCHANGED <<lbs, vips, vss>>
    BY <1>1, <2>1, ReturnType, CMPUnchanged
  <2>2. CASE PatchAnnotations([w.base EXCEPT !.repairID = w.lb,
                                             !.repairs = RepairsOf(w.base) + 1])
             /\ pc' = "idle" /\ w' = IdleWork /\ queue' = queue \cup {w.svc}
    <3>1. RepairsOf(w.base) \in Nat
      BY <1>1 DEF RepairsOf, Annotations
    <3>2. [w.base EXCEPT !.repairID = w.lb, !.repairs = RepairsOf(w.base) + 1] \in Annotations
      <4>1. \A n \in Nat : [w.base EXCEPT !.repairID = w.lb, !.repairs = n] \in Annotations
        BY <1>1 DEF Annotations
      <4>2. RepairsOf(w.base) + 1 \in Nat
        BY <3>1
      <4> QED
        BY <4>1, <4>2, Zenon
    <3>3. ann' \in [Services -> Annotations]
      BY <1>1, <2>2, <3>2, PatchedType
    <3>4. queue' \in SUBSET Services /\ w' \in Work /\ CMPTypeOK'
      BY <1>1, <2>2, NullTypes, CMPUnchanged DEF PatchAnnotations, TypeOK
    <3> QED
      BY <2>2, <3>3, <3>4 DEF PatchAnnotations, TypeOK, BridgeTypeOK
  <2> QED
    BY <1>3, <2>1, <2>2 DEF BumpRepairs
<1> QED
  BY <1>2, <1>3

(* Recovery by name and the VIP. *)
LEMMA UseVIPType ==
    ASSUME TypeOK, pc # "idle", NEW v \in VipIds, NEW addressed \in BOOLEAN, UseVIP(v, addressed)
    PROVE  BridgeTypeOK'
<1>1. w \in Work /\ w.svc \in Services /\ w.graph \in Graph /\ w.ports \in SUBSET Ports
  BY DEF TypeOK, Work
<1>2. WithVIP(w.graph, v) \in Graph
  BY <1>1 DEF WithVIP, Graph
<1> DEFINE work == [w EXCEPT !.vip = v, !.addressed = addressed, !.todo = w.ports,
                             !.graph = WithVIP(w.graph, v)]
<1>3. work \in Work /\ work.svc = w.svc
  BY <1>1, <1>2 DEF Work
<1> QED
  BY <1>1, <1>3, ContinueType DEF UseVIP, EnsurePCs

(* Types: the steps of VIPManager.Ensure.                                    *)
LEMMA VIPStepType ==
    ASSUME TypeOK, RecoverByName \/ EnsureVIP \/ DeleteFailedVIP \/ CreateVIP
    PROVE  TypeOK'
<1> SUFFICES CMPTypeOK' /\ BridgeTypeOK'
  BY TypeParts
<1>1. w \in Work /\ w.svc \in Services /\ w.graph \in Graph /\ w.hash \in Digests \cup {NoDigest}
      /\ pc # "idle" /\ vss \in [VsIds -> VSRecord] /\ vips \in [VipIds -> VIPRecord]
  BY DEF TypeOK, CMPTypeOK, Work, RecoverByName, EnsureVIP, DeleteFailedVIP, CreateVIP
<1>2. CASE RecoverByName
  <2>1. Recovered \in Graph
    <3>1. ASSUME NEW p \in Ports
          PROVE  (IF p \in FoundPorts
                  THEN [id |-> CHOOSE v \in ListenersNamed(w.svc, p) : TRUE, hash |-> w.hash]
                  ELSE w.graph.vs[p]) \in Listener
      BY <1>1 DEF FoundPorts, ListenersNamed, ListenersOn, Listener, Graph
    <3> QED
      BY <1>1, <3>1 DEF Recovered, Graph
  <2>2. \A v \in VipIds : /\ [w EXCEPT !.vip = v, !.graph = Recovered] \in Work
                          /\ [w EXCEPT !.vip = v, !.graph = Recovered].svc = w.svc
    BY <1>1, <2>1 DEF Work
  <2>3. CMPTypeOK'
    BY <1>2, CMPUnchanged DEF RecoverByName
  <2> QED
    BY <1>1, <1>2, <2>2, <2>3, ContinueType, ReturnType DEF RecoverByName, VIPsUnder, EnsurePCs
<1>3. CASE EnsureVIP
  <2>1. CMPTypeOK'
    BY <1>3, CMPUnchanged DEF EnsureVIP
  <2> QED
    BY <1>1, <1>3, <2>1, ContinueType, ReturnType, UseVIPType DEF EnsureVIP, VIPsUnder, EnsurePCs
<1>4. CASE DeleteFailedVIP
  <2>1. CMPTypeOK'
    BY <1>4, IdAssumption
    DEF DeleteFailedVIP, VIPDeleteAccepted, TypeOK, CMPTypeOK, VIPRecord, NoVIP
  <2> QED
    BY <1>1, <1>4, <2>1, ReturnType DEF DeleteFailedVIP
<1>5. CASE CreateVIP
  <2>1. PICK v \in VipIds : VIPAccepted(v, w.lb, w.svc) /\ UseVIP(v, vips'[v].st = "active")
    BY <1>5 DEF CreateVIP
  <2>2. CMPTypeOK'
    BY <1>1, <1>5, <2>1
    DEF CreateVIP, VIPAccepted, TypeOK, CMPTypeOK, VIPRecord, Work
  <2>3. PICK b \in BOOLEAN : UseVIP(v, b)
    BY <2>1
  <2> QED
    BY <1>1, <2>2, <2>3, UseVIPType
<1> QED
  BY <1>2, <1>3, <1>4, <1>5

(* The listeners. *)
LEMMA NextPortType ==
    ASSUME TypeOK, PassInv, pc \in {"vs-create", "vs-check"}
    PROVE  NextPort \in w.todo /\ NextPort \in Ports
BY DEF PassInv, NextPort, TypeOK, Work

(* The work left after a port is typed.                                      *)
LEMMA DoneWithType ==
    ASSUME TypeOK, pc # "idle", NEW p \in Ports, NEW v \in VsIds
    PROVE  /\ DoneWith(p, v) \in Work
           /\ DoneWith(p, v).svc = w.svc
<1>1. w \in Work /\ w.graph \in Graph /\ w.hash \in Digests \cup {NoDigest}
  BY DEF TypeOK, Work
<1>2. [id |-> v, hash |-> w.hash] \in Listener
  BY <1>1 DEF Listener
<1>3. [w.graph EXCEPT !.vs[p] = [id |-> v, hash |-> w.hash]] \in Graph
  BY <1>1, <1>2 DEF Graph
<1> QED
  BY <1>1, <1>3 DEF DoneWith, Work

(* CMP keeps its types when it accepts the deletion of a listener.           *)
LEMMA VSDeleteType ==
    ASSUME TypeOK, NEW v, VSDeleteAccepted(v), UNCHANGED <<lbs, vips>>
    PROVE  CMPTypeOK'
<1>1. vss \in [VsIds -> VSRecord]
  BY DEF TypeOK, CMPTypeOK
<1>2. \A x \in VsIds : [vss[x] EXCEPT !.st = "deleting"] \in VSRecord
  BY <1>1 DEF VSRecord, Statuses
<1>3. vss' \in [VsIds -> VSRecord]
  <2>1. CASE v \in VsIds
    BY <1>1, <1>2, <2>1 DEF VSDeleteAccepted
  <2>2. CASE v \notin VsIds
    <3>1. vss' = vss
      BY <1>1, <2>2 DEF VSDeleteAccepted
    <3> QED
      BY <1>1, <3>1
  <2> QED
    BY <2>1, <2>2
<1> QED
  BY <1>3 DEF TypeOK, CMPTypeOK

(* The listener in question is an id or none.                                *)
LEMMA CurrentListenerType ==
    ASSUME TypeOK, NEW p \in Ports
    PROVE  CurrentListener(p) \in VsIds \cup {NoId}
BY DEF CurrentListener, RecordedListener, ListenersNamed, ListenersOn

(* Types: the steps of VirtualServerManager.Ensure.                          *)
LEMMA ListenerStepType ==
    ASSUME TypeOK, PassInv,
           (\E p \in Ports : EnsureListener(p)) \/ DeleteListener \/ CreateListener
              \/ CheckCreatedListener \/ DeleteObsoleteListener
    PROVE  TypeOK'
<1> SUFFICES CMPTypeOK' /\ BridgeTypeOK'
  BY TypeParts
<1>1. w \in Work /\ w.svc \in Services /\ w.graph \in Graph /\ w.hash \in Digests \cup {NoDigest}
      /\ w.lb \in LbIds \cup {NoId} /\ w.vip \in VipIds \cup {NoId}
      /\ pc # "idle" /\ vss \in [VsIds -> VSRecord]
  BY DEF TypeOK, CMPTypeOK, Work, EnsureListener, DeleteListener, CreateListener,
         CheckCreatedListener, DeleteObsoleteListener
<1>2. ASSUME NEW v \in VsIds \cup {NoId}
      PROVE  [w EXCEPT !.vs = v] \in Work /\ [w EXCEPT !.vs = v].svc = w.svc
  BY <1>1 DEF Work
<1>3. ASSUME NEW p \in Ports, EnsureListener(p) PROVE CMPTypeOK' /\ BridgeTypeOK'
  <2>1. CMPTypeOK'
    BY <1>3, CMPUnchanged DEF EnsureListener
  <2> DEFINE v == CurrentListener(p)
  <2>2. v \in VsIds \cup {NoId}
    BY CurrentListenerType
  <2>3. CASE Return(TRUE)
    BY <1>1, <2>1, <2>3, ReturnType
  <2>4. CASE Continue("vs-create", w)
    BY <1>1, <2>1, <2>4, ContinueType DEF EnsurePCs
  <2>5. CASE Continue("vs-delete", [w EXCEPT !.vs = v])
    BY <1>1, <1>2, <2>1, <2>2, <2>5, ContinueType DEF EnsurePCs
  <2>6. CASE v # NoId /\ Continue("listener", DoneWith(p, v))
    BY <1>1, <2>1, <2>2, <2>6, ContinueType, DoneWithType DEF EnsurePCs
  <2> QED
    BY <1>3, <2>3, <2>4, <2>5, <2>6 DEF EnsureListener
<1>4. CASE DeleteListener
  BY <1>1, <1>4, VSDeleteType, ReturnType DEF DeleteListener
<1>5. CASE CreateListener
  <2>1. NextPort \in Ports
    BY <1>5, NextPortType DEF CreateListener
  <2> DEFINE r == [NoVS EXCEPT !.lb = w.lb, !.vip = w.vip, !.by = w.svc, !.port = NextPort,
                               !.hash = w.hash]
  <2>2. PICK v \in VsIds : VSAccepted(v, r) /\ Continue("vs-check", [w EXCEPT !.vs = v])
    BY <1>5 DEF CreateListener
  <2>3. \A st \in Statuses : [r EXCEPT !.st = st] \in VSRecord
    BY <1>1, <2>1 DEF NoVS, VSRecord
  <2>4. Born \subseteq Statuses
    BY BornAssumption DEF Statuses
  <2>5. PICK st \in Statuses : vss' = [vss EXCEPT ![v] = [r EXCEPT !.st = st]]
    BY <2>2, <2>4 DEF VSAccepted
  <2>6. CMPTypeOK'
    <3> HIDE DEF r
    <3> QED
      BY <1>1, <1>5, <2>3, <2>5 DEF CreateListener, TypeOK, CMPTypeOK
  <2> QED
    BY <1>1, <1>2, <2>2, <2>6, ContinueType DEF EnsurePCs
<1>6. CASE CheckCreatedListener
  <2>1. NextPort \in Ports /\ w.vs \in VsIds
    BY <1>6, NextPortType DEF CheckCreatedListener, PassInv
  <2> QED
    BY <1>1, <1>6, <2>1, DoneWithType, ContinueType, ReturnType, CMPUnchanged
    DEF CheckCreatedListener, EnsurePCs
<1>7. CASE DeleteObsoleteListener
  <2>1. PICK p \in Ports : /\ VSDeleteAccepted(w.graph.vs[p].id)
                           /\ Continue("listener", [w EXCEPT !.graph.vs[p] = NoListener])
    BY <1>7 DEF DeleteObsoleteListener, Obsolete
  <2>2. [w.graph EXCEPT !.vs[p] = NoListener] \in Graph
    BY <1>1, NullTypes DEF Graph
  <2>3. [w EXCEPT !.graph.vs[p] = NoListener] \in Work
        /\ [w EXCEPT !.graph.vs[p] = NoListener].svc = w.svc
    BY <1>1, <2>2 DEF Work
  <2>4. CMPTypeOK'
    BY <1>7, <2>1, VSDeleteType DEF DeleteObsoleteListener
  <2> QED
    BY <1>1, <2>1, <2>3, <2>4, ContinueType DEF EnsurePCs
<1> QED
  BY <1>3, <1>4, <1>5, <1>6, <1>7

(* What is recorded at the end of a pass. *)
LEMMA ResultType ==
    ASSUME NEW a \in Annotations, w.lb \in LbIds \cup {NoId}, w.vip \in VipIds \cup {NoId},
           DropMigratedLegacyAliases(w.graph) \in Graph
    PROVE  ResultOf(a) \in Annotations /\ ResultOf(a).graph = DropMigratedLegacyAliases(w.graph)
<1> DEFINE lbMode == IF a.lbMode # "" THEN a.lbMode ELSE IF w.strictLB THEN "provided" ELSE "managed"
           vipMode == IF a.vipMode # "" THEN a.vipMode
                      ELSE IF w.strictVIP THEN "provided" ELSE "managed"
           g == DropMigratedLegacyAliases(w.graph)
           new == [a EXCEPT !.lb = w.lb, !.vip = w.vip, !.repairID = NoId, !.repairs = 0,
                            !.lbMode = lbMode, !.vipMode = vipMode, !.graph = g]
<1>1. ResultOf(a) = new
  BY DEF ResultOf
<1>2. lbMode \in Modes /\ vipMode \in Modes /\ g \in Graph
  BY DEF Annotations, Modes
<1> HIDE DEF lbMode, vipMode, g
<1>3. new \in Annotations /\ new.graph = g
  BY <1>2 DEF Annotations
<1> QED
  BY <1>1, <1>3 DEF g

(* Recording and showing the result. *)
LEMMA ResultStepType ==
    ASSUME TypeOK, PersistResult \/ PublishVIP
    PROVE  TypeOK'
<1> SUFFICES CMPTypeOK' /\ BridgeTypeOK'
  BY TypeParts
<1>1. w \in Work /\ w.svc \in Services /\ w.graph \in Graph /\ w.base \in Annotations
      /\ w.lb \in LbIds \cup {NoId} /\ w.vip \in VipIds \cup {NoId} /\ pc # "idle"
  BY DEF TypeOK, Work, PersistResult, PublishVIP
<1>2. CASE PersistResult
  <2>1. DropMigratedLegacyAliases(w.graph) \in Graph
    BY <1>1, DropAliasesType
  <2>2. ResultOf(w.base) \in Annotations
    BY <1>1, <2>1, ResultType
  <2>3. ann' \in [Services -> Annotations] /\ ann'[w.svc] \in Annotations
    BY <1>1, <1>2, <2>2, PatchedType DEF PersistResult
  <2>4. w' \in Work /\ (pc' # "idle" => w'.svc \in Services)
    BY <1>1, <1>2, <2>3, NullTypes DEF PersistResult, Work
  <2>5. queue' \in SUBSET Services
    BY <1>1, <1>2, EnqueuedType DEF PersistResult
  <2>6. CMPTypeOK'
    BY <1>2, CMPUnchanged DEF PersistResult, PatchAnnotations
  <2> QED
    BY <1>2, <2>3, <2>4, <2>5, <2>6
    DEF PersistResult, PatchAnnotations, TypeOK, BridgeTypeOK, EnsurePCs
<1>3. CASE PublishVIP
  <2>1. queue' \in SUBSET Services
    BY <1>1, <1>3, EnqueuedType DEF PublishVIP
  <2>2. CMPTypeOK'
    BY <1>3, CMPUnchanged DEF PublishVIP
  <2> QED
    BY <1>1, <1>3, <2>1, <2>2, NullTypes DEF PublishVIP, TypeOK, BridgeTypeOK
<1> QED
  BY <1>2, <1>3

(* The cleanup. *)
LEMMA WithoutListenerType ==
    ASSUME NEW g \in Graph, NEW v
    PROVE  WithoutListener(g, v) \in Graph
BY NullTypes DEF WithoutListener, Graph

(* The work left after a VIP is typed.                                       *)
LEMMA WithoutVIPType ==
    ASSUME NEW g \in Graph, NEW v
    PROVE  WithoutVIP(g, v) \in Graph /\ WithoutVIP(g, v).vs = g.vs
BY DEF WithoutVIP, Graph

(* Types: the steps of CleanupStack.                                         *)
LEMMA CleanupStepType ==
    ASSUME TypeOK, Cleanup
    PROVE  TypeOK'
<1> SUFFICES CMPTypeOK' /\ BridgeTypeOK'
  BY TypeParts
<1>1. w \in Work /\ w.svc \in Services /\ w.graph \in Graph /\ w.lb \in LbIds \cup {NoId}
      /\ pc # "idle" /\ lbs \in [LbIds -> LBRecord] /\ vips \in [VipIds -> VIPRecord]
  BY DEF TypeOK, CMPTypeOK, Work, Cleanup, RefuseAmbiguousCleanup, CleanListener,
         ConfirmListenerGone, CleanVIP, CleanLB, ConfirmLBGone, RemoveFinalizer
<1>2. CASE RefuseAmbiguousCleanup
  BY <1>1, <1>2, ReturnType, CMPUnchanged DEF RefuseAmbiguousCleanup
<1>3. CASE CleanListener
  <2>1. CASE Continue("clean-vip", w) /\ UNCHANGED vss
    BY <1>1, <1>3, <2>1, ContinueType, CMPUnchanged DEF CleanListener, CleanupPCs
  <2>2. ASSUME NEW v \in CleanupListeners(w.graph), VSDeleteAccepted(v),
               Continue("clean-vs-get", [w EXCEPT !.vs = v])
        PROVE  CMPTypeOK' /\ BridgeTypeOK'
    <3>1. v \in VsIds
      BY <1>1 DEF CleanupListeners, Graph, Listener
    <3>2. [w EXCEPT !.vs = v] \in Work /\ [w EXCEPT !.vs = v].svc = w.svc
      BY <1>1, <3>1 DEF Work
    <3>3. CMPTypeOK'
      BY <1>3, <2>2, VSDeleteType DEF CleanListener
    <3> QED
      BY <1>1, <2>2, <3>2, <3>3, ContinueType DEF CleanupPCs
  <2> QED
    BY <1>3, <2>1, <2>2 DEF CleanListener
<1>4. CASE ConfirmListenerGone
  <2> DEFINE work == [w EXCEPT !.graph = WithoutListener(w.graph, w.vs), !.vs = NoId]
  <2>1. work \in Work /\ work.svc = w.svc
    BY <1>1, WithoutListenerType DEF Work
  <2> QED
    BY <1>1, <1>4, <2>1, ContinueType, ReturnType, CMPUnchanged DEF ConfirmListenerGone, CleanupPCs
<1>5. CASE CleanVIP
  <2>1. CASE Continue(AfterVIPs, w) /\ UNCHANGED vips
    BY <1>1, <1>5, <2>1, ContinueType, CMPUnchanged DEF CleanVIP, AfterVIPs, CleanupPCs
  <2>2. ASSUME NEW v, VIPDeleteAccepted(v),
               Continue("clean-vip", [w EXCEPT !.graph = WithoutVIP(@, v)])
        PROVE  CMPTypeOK' /\ BridgeTypeOK'
    <3>1. WithoutVIP(w.graph, v) \in Graph
      BY <1>1, WithoutVIPType
    <3>2. [w EXCEPT !.graph = WithoutVIP(@, v)] \in Work
          /\ [w EXCEPT !.graph = WithoutVIP(@, v)].svc = w.svc
      BY <1>1, <3>1 DEF Work
    <3>3. vips' \in [VipIds -> VIPRecord]
      BY <1>1, <2>2 DEF VIPDeleteAccepted, VIPRecord, NoVIP
    <3>4. CMPTypeOK'
      BY <1>5, <3>3 DEF CleanVIP, TypeOK, CMPTypeOK
    <3> QED
      BY <1>1, <2>2, <3>2, <3>4, ContinueType DEF CleanupPCs
  <2> QED
    BY <1>5, <2>1, <2>2 DEF CleanVIP
<1>6. CASE CleanLB
  <2>1. CMPTypeOK'
    BY <1>6 DEF CleanLB, LBDeleteAccepted, TypeOK, CMPTypeOK, LBRecord, Statuses
  <2> QED
    BY <1>1, <1>6, <2>1, ContinueType DEF CleanLB, CleanupPCs
<1>7. CASE ConfirmLBGone
  BY <1>1, <1>7, ContinueType, ReturnType, CMPUnchanged DEF ConfirmLBGone, CleanupPCs
<1>8. CASE RemoveFinalizer
  <2>1. obj' \in [Services -> Object]
    <3>1. obj[w.svc] \in Object
      BY <1>1 DEF TypeOK
    <3>2. \A b \in BOOLEAN : [obj[w.svc] EXCEPT !.fin = FALSE, !.there = b] \in Object
      BY <3>1 DEF Object
    <3>3. PICK b \in BOOLEAN : obj' = [obj EXCEPT ![w.svc].fin = FALSE, ![w.svc].there = b]
      BY <1>8 DEF RemoveFinalizer
    <3>4. obj' = [obj EXCEPT ![w.svc] = [obj[w.svc] EXCEPT !.fin = FALSE, !.there = b]]
      BY <1>1, <3>3 DEF TypeOK
    <3> QED
      BY <3>2, <3>4 DEF TypeOK
  <2>2. ann' \in [Services -> Annotations] /\ status' \in [Services -> VipIds \cup {NoId}]
    BY <1>1, <1>8, NullTypes DEF RemoveFinalizer, TypeOK
  <2>3. queue' \in SUBSET Services
    BY <1>1, <1>8, EnqueuedType DEF RemoveFinalizer
  <2>4. CMPTypeOK'
    BY <1>8, CMPUnchanged DEF RemoveFinalizer
  <2> QED
    BY <1>8, <2>1, <2>2, <2>3, <2>4, NullTypes DEF RemoveFinalizer, TypeOK, BridgeTypeOK
<1> QED
  BY <1>2, <1>3, <1>4, <1>5, <1>6, <1>7, <1>8 DEF Cleanup

(* CMP on its own, and what befalls it. *)
LEMMA ProviderStepType ==
    ASSUME CMPTypeOK,
           \/ \E l \in LbIds : LBSettles(l) \/ LBDeleted(l) \/ LBFails(l) \/ LBLost(l)
           \/ \E v \in VipIds : VIPSettles(v) \/ VIPFails(v) \/ VIPLost(v)
           \/ \E v \in VsIds : VSSettles(v) \/ VSDeleted(v) \/ VSFails(v) \/ VSLost(v)
    PROVE  CMPTypeOK'
<1> USE DEF CMPTypeOK
<1>1. NoLB \in LBRecord /\ NoVIP \in VIPRecord /\ NoVS \in VSRecord
  BY DEF NoLB, NoVIP, NoVS, LBRecord, VIPRecord, VSRecord, Statuses
<1>2. ASSUME NEW l \in LbIds, NEW from, NEW to \in Statuses, LBBecomes(l, from, to)
      PROVE  CMPTypeOK'
  BY <1>2 DEF LBBecomes, LBRecord
<1>3. ASSUME NEW l \in LbIds, LBGone(l) PROVE CMPTypeOK'
  BY <1>1, <1>3 DEF LBGone
<1>4. ASSUME NEW v \in VipIds, NEW from, NEW to \in {"active", "failed"}, VIPBecomes(v, from, to)
      PROVE  CMPTypeOK'
  BY <1>4 DEF VIPBecomes, VIPRecord
<1>5. ASSUME NEW v \in VsIds, NEW from, NEW to \in Statuses, VSBecomes(v, from, to)
      PROVE  CMPTypeOK'
  BY <1>5 DEF VSBecomes, VSRecord
<1>6. ASSUME NEW v \in VsIds, VSGone(v) PROVE CMPTypeOK'
  BY <1>1, <1>6 DEF VSGone
<1>7. ASSUME NEW l \in LbIds, LBSettles(l) \/ LBDeleted(l) \/ LBFails(l) \/ LBLost(l)
      PROVE  CMPTypeOK'
  BY <1>2, <1>3, <1>7 DEF LBSettles, LBDeleted, LBFails, LBLost, Statuses
<1>8. ASSUME NEW v \in VipIds, VIPSettles(v) \/ VIPFails(v) \/ VIPLost(v)
      PROVE  CMPTypeOK'
  BY <1>1, <1>4, <1>8 DEF VIPSettles, VIPFails, VIPLost, VIPDeleteAccepted
<1>9. ASSUME NEW v \in VsIds, VSSettles(v) \/ VSDeleted(v) \/ VSFails(v) \/ VSLost(v)
      PROVE  CMPTypeOK'
  BY <1>5, <1>6, <1>9 DEF VSSettles, VSDeleted, VSFails, VSLost, Statuses
<1> QED
  BY <1>7, <1>8, <1>9

(* The count of disturbances stays within its bound.                         *)
LEMMA DisturbType ==
    ASSUME TypeOK, NEW kind, Disturb(kind)
    PROVE  faults' \in Nat
BY DEF TypeOK, Disturb

(* Users, the informer and the workqueue. *)
LEMMA UserStepType ==
    ASSUME TypeOK, NEW s \in Services,
           ChangeType(s) \/ ChangePorts(s) \/ ChangeBackends(s) \/ DeleteService(s)
    PROVE  TypeOK'
<1> SUFFICES CMPTypeOK' /\ BridgeTypeOK'
  BY TypeParts
<1>1. obj[s] \in Object
  BY DEF TypeOK
<1>2. ASSUME NEW o \in Object, UserChange(s, o), UNCHANGED <<ann, status>>, faults' \in Nat
      PROVE  CMPTypeOK' /\ BridgeTypeOK'
  BY <1>2, EnqueuedType, CMPUnchanged DEF UserChange, TypeOK, BridgeTypeOK
<1>3. CASE ChangeType(s)
  <2>1. \A b \in BOOLEAN : [obj[s] EXCEPT !.eligible = b] \in Object
    BY <1>1 DEF Object
  <2>2. PICK b \in BOOLEAN : UserChange(s, [obj[s] EXCEPT !.eligible = b])
    BY <1>3 DEF ChangeType
  <2> QED
    BY <1>2, <1>3, <2>1, <2>2, DisturbType DEF ChangeType
<1>4. CASE ChangePorts(s)
  <2>1. PICK P \in SUBSET Ports : UserChange(s, [obj[s] EXCEPT !.ports = P])
    BY <1>4 DEF ChangePorts
  <2>2. [obj[s] EXCEPT !.ports = P] \in Object
    BY <1>1 DEF Object
  <2> QED
    BY <1>2, <1>4, <2>1, <2>2, DisturbType DEF ChangePorts
<1>5. CASE ChangeBackends(s)
  <2>1. PICK h \in Digests : UserChange(s, [obj[s] EXCEPT !.hash = h])
    BY <1>5 DEF ChangeBackends
  <2>2. [obj[s] EXCEPT !.hash = h] \in Object
    BY <1>1 DEF Object
  <2> QED
    BY <1>2, <1>5, <2>1, <2>2, DisturbType DEF ChangeBackends
<1>6. CASE DeleteService(s)
  <2>1. \A b \in BOOLEAN : [obj[s] EXCEPT !.del = TRUE, !.there = b] \in Object
    BY <1>1 DEF Object
  <2>2. PICK b \in BOOLEAN : UserChange(s, [obj[s] EXCEPT !.del = TRUE, !.there = b])
    BY <1>1, <1>6 DEF DeleteService, Object
  <2>3. ann' \in [Services -> Annotations] /\ status' \in [Services -> VipIds \cup {NoId}]
    BY <1>6, NullTypes DEF DeleteService, TypeOK
  <2>4. PICK o \in Object : UserChange(s, o)
    BY <2>1, <2>2
  <2>5. obj' \in [Services -> Object] /\ queue' \in SUBSET Services /\ CMPTypeOK'
    BY <2>4, EnqueuedType, CMPUnchanged DEF UserChange, TypeOK
  <2> QED
    BY <1>6, <2>3, <2>4, <2>5 DEF DeleteService, UserChange, TypeOK, BridgeTypeOK
<1> QED
  BY <1>3, <1>4, <1>5, <1>6

(* Types: users, informer, CMP and network.                                  *)
LEMMA OtherStepType ==
    ASSUME TypeOK,
           CallRefused \/ FailedCall \/ \E s \in Services : InformerSync(s) \/ Resync(s)
    PROVE  TypeOK'
<1> SUFFICES CMPTypeOK' /\ BridgeTypeOK'
  BY TypeParts
<1>1. CASE CallRefused
  <2>1. pc # "idle" /\ Return(TRUE) /\ UNCHANGED <<lbs, vips, vss>>
    BY <1>1 DEF CallRefused
  <2> QED
    BY <2>1, ReturnType, CMPUnchanged
<1>2. CASE FailedCall
  <2>1. faults' \in Nat /\ CMPTypeOK'
    BY <1>2, DisturbType, CMPUnchanged DEF FailedCall
  <2> QED
    BY <1>2, <2>1, NullTypes DEF FailedCall, TypeOK, BridgeTypeOK
<1>3. ASSUME NEW s \in Services, InformerSync(s) PROVE CMPTypeOK' /\ BridgeTypeOK'
  <2>1. [obj |-> obj[s], ann |-> ann[s]] \in [obj : Object, ann : Annotations]
    BY DEF TypeOK
  <2>2. seen' \in [Services -> [obj : Object, ann : Annotations]]
    BY <1>3, <2>1 DEF InformerSync, TypeOK
  <2>3. CMPTypeOK'
    BY <1>3, CMPUnchanged DEF InformerSync
  <2> QED
    BY <1>3, <2>2, <2>3 DEF InformerSync, TypeOK, BridgeTypeOK
<1>4. ASSUME NEW s \in Services, Resync(s) PROVE CMPTypeOK' /\ BridgeTypeOK'
  BY <1>4, CMPUnchanged DEF Resync, TypeOK, BridgeTypeOK
<1> QED
  BY <1>1, <1>2, <1>3, <1>4

(* Types: nothing happens.                                                   *)
LEMMA StutterType == TypeOK /\ UNCHANGED vars => TypeOK'
BY DEF TypeOK, CMPTypeOK, vars

-----------------------------------------------------------------------------
(* Who created a recorded listener.                                          *)

(* A status goes forward: what has been seen stays visible, what was ready   *)
(* is not pending again, what failed does not recover on its own, and a      *)
(* deletion is not taken back.                                               *)
Ages(st, next) ==
    /\ st # "absent"
    /\ next = "hidden" => st = "hidden"
    /\ next = "pending" => st \in {"hidden", "pending"}
    /\ next = "ready" => st \in {"pending", "ready"}
    /\ Live(next) => Live(st)

(* An existing listener keeps its creator, its place and its port, and its   *)
(* id is not reused.                                                         *)
VssKeeps ==
    \A v \in VsIds :
        \/ vss'[v].st = "absent"
        \/ /\ Ages(vss[v].st, vss'[v].st)
           /\ vss'[v].by = vss[v].by /\ vss'[v].port = vss[v].port
           /\ vss'[v].lb = vss[v].lb /\ vss'[v].vip = vss[v].vip

(* No step but a create makes a listener. *)
LEMMA DeleteKeeps ==
    ASSUME TypeOK, NEW x, VSDeleteAccepted(x)
    PROVE  VssKeeps
<1>1. vss \in [VsIds -> VSRecord]
  BY DEF TypeOK, CMPTypeOK
<1>2. ASSUME NEW v \in VsIds, v # x PROVE vss'[v] = vss[v]
  BY <1>1, <1>2 DEF VSDeleteAccepted
<1>3. ASSUME x \in VsIds
      PROVE  \/ vss'[x] = vss[x]
             \/ /\ Visible(vss[x].st) /\ vss'[x].st = "deleting"
                /\ vss'[x].by = vss[x].by /\ vss'[x].port = vss[x].port
                /\ vss'[x].lb = vss[x].lb /\ vss'[x].vip = vss[x].vip
  BY <1>1, <1>3 DEF VSDeleteAccepted, VSRecord
<1> QED
  BY <1>1, <1>2, <1>3 DEF VssKeeps, Visible, Ages, Live

(* Nothing CMP does on its own gives a listener to another Service.          *)
LEMMA ProviderKeeps ==
    ASSUME TypeOK,
           \/ \E l \in LbIds : LBSettles(l) \/ LBDeleted(l) \/ LBFails(l) \/ LBLost(l)
           \/ \E v \in VipIds : VIPSettles(v) \/ VIPFails(v) \/ VIPLost(v)
           \/ \E v \in VsIds : VSSettles(v) \/ VSDeleted(v) \/ VSFails(v) \/ VSLost(v)
    PROVE  VssKeeps
<1>1. vss \in [VsIds -> VSRecord]
  BY DEF TypeOK, CMPTypeOK
<1>2. ASSUME NEW l \in LbIds, LBGone(l) PROVE VssKeeps
  BY <1>1, <1>2 DEF LBGone, VssKeeps, NoVS, Ages
<1>3. ASSUME NEW v \in VsIds, VSGone(v) PROVE VssKeeps
  BY <1>1, <1>3 DEF VSGone, VssKeeps, NoVS, Ages
<1>4. ASSUME NEW v \in VsIds, NEW from \in {"hidden", "pending", "ready"},
             NEW to \in {"pending", "ready", "failed"},
             to = "pending" => from = "hidden", to = "ready" => from = "pending",
             VSBecomes(v, from, to)
      PROVE  VssKeeps
  BY <1>1, <1>4 DEF VSBecomes, VssKeeps, VSRecord, Ages, Live
<1>5. vss' = vss => VssKeeps
  BY DEF VssKeeps, Ages
<1>6. ASSUME NEW l \in LbIds, LBSettles(l) \/ LBDeleted(l) \/ LBFails(l) \/ LBLost(l)
      PROVE  VssKeeps
  BY <1>2, <1>5, <1>6 DEF LBSettles, LBDeleted, LBFails, LBLost, LBBecomes
<1>7. ASSUME NEW v \in VipIds, VIPSettles(v) \/ VIPFails(v) \/ VIPLost(v)
      PROVE  VssKeeps
  BY <1>5, <1>7 DEF VIPSettles, VIPFails, VIPLost, VIPBecomes
<1>8. ASSUME NEW v \in VsIds, VSSettles(v) \/ VSDeleted(v) \/ VSFails(v) \/ VSLost(v)
      PROVE  VssKeeps
  BY <1>3, <1>4, <1>8 DEF VSSettles, VSDeleted, VSFails, VSLost
<1> QED
  BY <1>6, <1>7, <1>8

(* Only the listeners of a graph matter. *)
LEMMA SameListenersOwned ==
    ASSUME NEW table, NEW s, NEW g, NEW h, h.vs = g.vs, OwnListeners(table, s, g)
    PROVE  OwnListeners(table, s, h)
BY DEF OwnListeners

(* ... and of what the worker holds, its Service and its two graphs.         *)
LEMMA OwnedFromListeners ==
    ASSUME NEW table, NEW work, NEW s, NEW g, NEW b, work.svc = s, work.graph.vs = g.vs,
           work.base.graph.vs = b.vs, OwnListeners(table, s, g), OwnListeners(table, s, b)
    PROVE  WorkOwned(table, work)
BY SameListenersOwned DEF WorkOwned

(* A graph that has the listeners of an owned one, or none, port by port, is *)
(* owned as well; so is one with one more listener that is itself owned.     *)
LEMMA FewerListenersOwned ==
    ASSUME NEW table, NEW s, NEW g, NEW h, OwnListeners(table, s, g),
           \A p \in Ports : h.vs[p] \in {NoListener, g.vs[p]}
    PROVE  OwnListeners(table, s, h)
BY DEF OwnListeners, NoListener
LEMMA OneMoreListenerOwned ==
    ASSUME NEW table, NEW s, NEW g, NEW h, OwnListeners(table, s, g), NEW p \in Ports,
           \A q \in Ports : q # p => h.vs[q] = g.vs[q],
           table[h.vs[p].id].st # "hidden", table[h.vs[p].id].by = s, table[h.vs[p].id].port = p
    PROVE  OwnListeners(table, s, h)
BY DEF OwnListeners

(* So what was owned before such a step is owned after it. *)
LEMMA KeptOwned ==
    ASSUME TypeOK, VssKeeps, NEW s, NEW g \in Graph, OwnListeners(vss, s, g)
    PROVE  OwnListeners(vss', s, g)
BY DEF VssKeeps, Ages, OwnListeners, Graph, Listener

(* A worker that is done, and an empty graph, name no listener.              *)
LEMMA IdleOwned == \A table : WorkOwned(table, IdleWork) /\ \A s : OwnListeners(table, s, NoGraph)
<1>1. \A p \in Ports : NoGraph.vs[p].id = NoId
  BY DEF NoGraph, NoListener
<1>2. \A table, s : OwnListeners(table, s, NoGraph)
  BY <1>1 DEF OwnListeners
<1>3. IdleWork.graph = NoGraph /\ IdleWork.base.graph = NoGraph
  BY DEF IdleWork, NoAnnotations
<1> QED
  BY <1>2, <1>3 DEF WorkOwned

(* The inductive invariant. *)
BridgeInv == TypeOK /\ PassInv /\ RecordedOwned

HandPCs == {"vs-create", "vs-check", "vs-delete", "clean-vs-get"}

(* What is stored stays owned while CMP keeps its listeners' owners.         *)
LEMMA StoredKept ==
    ASSUME BridgeInv, VssKeeps
    PROVE  /\ \A s \in Services : /\ OwnListeners(vss', s, ann[s].graph)
                                  /\ OwnListeners(vss', s, seen[s].ann.graph)
           /\ WorkOwned(vss', w)
<1>1. TypeOK /\ RecordedOwned
  BY DEF BridgeInv
<1>2. \A s \in Services : ann[s].graph \in Graph /\ seen[s].ann.graph \in Graph
  BY <1>1 DEF TypeOK, Annotations
<1>3. w.graph \in Graph /\ w.base.graph \in Graph
  BY <1>1 DEF TypeOK, Work, Annotations
<1> QED
  BY <1>1, <1>2, <1>3, KeptOwned DEF RecordedOwned, WorkOwned

(* A step that stores nothing leaves the worker with an owned graph. *)
LEMMA UnstoredOwned ==
    ASSUME BridgeInv, VssKeeps, UNCHANGED <<ann, seen>>, WorkOwned(vss', w')
    PROVE  RecordedOwned'
BY StoredKept DEF RecordedOwned

(* Nor does one that erases a Service's annotations. *)
LEMMA ErasedOwned ==
    ASSUME BridgeInv, UNCHANGED <<seen, vss>>, WorkOwned(vss', w'),
           \A t \in Services : ann'[t] \in {ann[t], NoAnnotations}
    PROVE  RecordedOwned'
<1>1. NoAnnotations.graph = NoGraph
  BY DEF NoAnnotations
<1>2. ASSUME NEW t \in Services PROVE OwnListeners(vss', t, ann'[t].graph)
  <2>1. OwnListeners(vss', t, NoGraph)
    BY IdleOwned
  <2>2. OwnListeners(vss', t, ann[t].graph)
    BY DEF BridgeInv, RecordedOwned
  <2> QED
    BY <1>1, <2>1, <2>2
<1> QED
  BY <1>2 DEF BridgeInv, RecordedOwned

(* A worker that keeps its graph keeps its ownership.                        *)
LEMMA SameGraphOwned ==
    ASSUME NEW table, NEW work, WorkOwned(table, w), work.svc = w.svc, work.base = w.base,
           work.graph.vs = w.graph.vs
    PROVE  WorkOwned(table, work)
BY SameListenersOwned DEF WorkOwned

(* A return forgets everything; a step without hands on a listener keeps     *)
(* PassInv.                                                                  *)
LEMMA ReturnKeeps ==
    ASSUME BridgeInv, VssKeeps, NEW again, Return(again)
    PROVE  PassInv' /\ RecordedOwned'
<1>1. WorkOwned(vss', w')
  BY IdleOwned DEF Return
<1> QED
  BY <1>1, UnstoredOwned DEF Return, PassInv

(* So does one that only goes on to another step.                            *)
LEMMA ContinueKeeps ==
    ASSUME BridgeInv, VssKeeps, NEW next, NEW work, next \notin HandPCs, Continue(next, work),
           work.svc = w.svc, work.base = w.base, work.graph.vs = w.graph.vs
    PROVE  PassInv' /\ RecordedOwned'
<1>1. WorkOwned(vss', work)
  BY StoredKept, SameGraphOwned
<1> QED
  BY <1>1, UnstoredOwned DEF Continue, PassInv, HandPCs

(* A step of CMP or of a user keeps what the worker holds. *)
LEMMA OutsideKeeps ==
    ASSUME BridgeInv, VssKeeps, UNCHANGED <<pc, w>>
    PROVE  PassInv' /\ WorkOwned(vss', w')
<1>1. WorkOwned(vss', w')
  BY StoredKept
<1>2. PassInv'
  BY DEF BridgeInv, PassInv, VssKeeps, Ages, NextPort
<1> QED
  BY <1>1, <1>2

(* What a patch stores is what the server had or what the worker sent. *)
LEMMA PatchOwned ==
    ASSUME BridgeInv, pc # "idle", NEW new \in Annotations, PatchAnnotations(new),
           OwnListeners(vss, w.svc, new.graph)
    PROVE  /\ \A s \in Services : /\ OwnListeners(vss', s, ann'[s].graph)
                                  /\ OwnListeners(vss', s, seen'[s].ann.graph)
           /\ vss' = vss
<1>1. w.svc \in Services /\ w.base \in Annotations /\ ann \in [Services -> Annotations]
  BY DEF BridgeInv, TypeOK, Work
<1>2. Patched(new).graph \in {ann[w.svc].graph, new.graph}
  BY <1>1, MergePatchType DEF Patched
<1>3. OwnListeners(vss, w.svc, Patched(new).graph)
  BY <1>1, <1>2 DEF BridgeInv, RecordedOwned
<1>4. vss' = vss /\ seen' = seen /\ ann' = [ann EXCEPT ![w.svc] = Patched(new)]
  BY DEF PatchAnnotations
<1> QED
  BY <1>1, <1>3, <1>4 DEF BridgeInv, RecordedOwned

(* Steps that leave the listeners alone keep their owners.                   *)
LEMMA UnchangedKeeps == UNCHANGED vss /\ TypeOK => VssKeeps
BY DEF VssKeeps, Ages

(* Ownership: a pass begins.                                                 *)
LEMMA StartPassOwned ==
    ASSUME BridgeInv, NEW s \in Services, StartPass(s)
    PROVE  PassInv' /\ RecordedOwned'
<1>1. TypeOK /\ RecordedOwned
  BY DEF BridgeInv
<1>2. VssKeeps /\ UNCHANGED <<ann, seen, vss>>
  BY <1>1, UnchangedKeeps DEF StartPass, IgnoreService, BeginEnsure, BeginCleanup
<1>3. View(s).ann \in Annotations /\ OwnListeners(vss, s, View(s).ann.graph)
  BY <1>1, ViewType DEF View, RecordedOwned
<1>4. CASE IgnoreService(s)
  BY <1>2, <1>4, OutsideKeeps, UnstoredOwned DEF IgnoreService
<1>5. CASE BeginEnsure(s)
  <2>1. w'.svc = s /\ w'.graph = NoGraph /\ w'.base = View(s).ann
    BY <1>5 DEF BeginEnsure, IdleWork
  <2>2. WorkOwned(vss', w')
    BY <1>2, <1>3, <2>1, IdleOwned DEF WorkOwned
  <2> QED
    BY <1>2, <1>5, <2>2, UnstoredOwned DEF BeginEnsure, PassInv
<1>6. CASE BeginCleanup(s)
  <2> DEFINE a == View(s).ann
  <2>1. w'.svc = s /\ w'.graph = EnsureGraph(a.graph, a.lb, a.vip) /\ w'.base = a
    BY <1>6 DEF BeginCleanup, IdleWork
  <2>2. EnsureGraph(a.graph, a.lb, a.vip).vs = a.graph.vs
    BY <1>3, EnsureGraphType DEF Annotations
  <2>3. WorkOwned(vss', w')
    <3> DEFINE g == EnsureGraph(a.graph, a.lb, a.vip)
    <3>1. OwnListeners(vss', s, a.graph)
      BY <1>2, <1>3
    <3> HIDE DEF a, g
    <3>2. w'.svc = s /\ w'.graph.vs = a.graph.vs /\ w'.base.graph.vs = a.graph.vs
      BY <2>1, <2>2 DEF g
    <3> QED
      BY <3>1, <3>2, OwnedFromListeners
  <2> QED
    BY <1>2, <1>6, <2>3, UnstoredOwned DEF BeginCleanup, PassInv
<1> QED
  BY <1>4, <1>5, <1>6 DEF StartPass

(* Ownership: annotations and parent are read.                               *)
LEMMA LoadOwned ==
    ASSUME BridgeInv, LoadObserved
    PROVE  PassInv' /\ RecordedOwned'
<1>1. TypeOK /\ pc # "idle" /\ w \in Work /\ w.base \in Annotations /\ VssKeeps
  BY UnchangedKeeps DEF BridgeInv, TypeOK, Work, LoadObserved
<1>2. ASSUME NEW g \in Graph, NEW lb \in LbIds \cup {NoId}, NEW vip \in VipIds \cup {NoId},
             NEW next \in {"lb-get", "lb-find"}, Continue(next, Loaded(lb, vip, g)),
             OwnListeners(vss', w.svc, g)
      PROVE  PassInv' /\ RecordedOwned'
  <2>1. WorkOwned(vss', w')
    <3>1. /\ w'.svc = w.svc /\ w'.base = w.base /\ w'.graph.vs = g.vs
      BY <1>1, <1>2, LoadedType DEF Continue
    <3> QED
      BY <1>1, <1>2, <3>1, StoredKept, SameListenersOwned DEF WorkOwned
  <2> QED
    BY <1>1, <1>2, <2>1, UnstoredOwned DEF Continue, PassInv
<1>3. CASE Continue(IF w.base.lb = NoId THEN "lb-find" ELSE "lb-get",
                    Loaded(w.base.lb, w.base.vip, w.base.graph))
  <2>1. OwnListeners(vss', w.svc, w.base.graph)
    BY <1>1, StoredKept DEF WorkOwned
  <2>2. w.base.graph \in Graph /\ w.base.lb \in LbIds \cup {NoId} /\ w.base.vip \in VipIds \cup {NoId}
    BY <1>1 DEF Annotations
  <2> QED
    BY <1>2, <1>3, <2>1, <2>2
<1>4. ASSUME NEW t \in VIPGroup, NEW k \in VIPGroup,
             Continue("lb-get", Loaded(ParentGraph(t, k).lb[k], ParentGraph(t, k).vip,
                                       ParentGraph(t, k)))
      PROVE  PassInv' /\ RecordedOwned'
  <2>1. ParentGraph(t, k) \in Graph /\ ParentGraph(t, k).vs = NoGraph.vs /\ k \in Services
    BY <1>1, ParentGraphType, BridgeAssumption
  <2>2. ParentGraph(t, k).lb[k] \in LbIds \cup {NoId} /\ ParentGraph(t, k).vip \in VipIds \cup {NoId}
    BY <2>1 DEF Graph
  <2>3. OwnListeners(vss', w.svc, ParentGraph(t, k))
    <3>1. \A p \in Ports : ParentGraph(t, k).vs[p].id = NoId
      BY <2>1 DEF NoGraph, NoListener
    <3> QED
      BY <3>1 DEF OwnListeners
  <2> QED
    BY <1>2, <1>4, <2>1, <2>2, <2>3
<1> QED
  BY <1>3, <1>4 DEF LoadObserved

(* Ownership: the steps at the LBService.                                    *)
LEMMA LBStepOwned ==
    ASSUME BridgeInv,
           EnsureFinalizer \/ GetRecordedLB \/ DeleteFailedLB \/ FindLBByName \/ CreateLB
              \/ CheckCreatedLB
    PROVE  PassInv' /\ RecordedOwned'
<1>1. VssKeeps /\ w \in Work /\ w.svc \in Services
  BY UnchangedKeeps
  DEF BridgeInv, TypeOK, EnsureFinalizer, GetRecordedLB, DeleteFailedLB, FindLBByName, CreateLB,
      CheckCreatedLB
<1>2. ASSUME NEW next, next \notin HandPCs, NEW l, Continue(next, [w EXCEPT !.lb = l])
      PROVE  PassInv' /\ RecordedOwned'
  BY <1>1, <1>2, ContinueKeeps DEF Work
<1>3. ASSUME NEW next, next \notin HandPCs, NEW o, Continue(next, [w EXCEPT !.outcome = o])
      PROVE  PassInv' /\ RecordedOwned'
  BY <1>1, <1>3, ContinueKeeps DEF Work
<1>3a. ASSUME NEW next, next \notin HandPCs, Continue(next, w)
      PROVE  PassInv' /\ RecordedOwned'
  BY <1>1, <1>3a, ContinueKeeps
<1>4. CASE EnsureFinalizer
  <2>1. w'.svc = w.svc /\ w'.graph = w.graph /\ w'.base = ann[w.svc]
    BY <1>1, <1>4 DEF EnsureFinalizer, Work
  <2>2. WorkOwned(vss', w')
    BY <1>1, <2>1, StoredKept DEF WorkOwned
  <2> QED
    BY <1>1, <1>4, <2>2, UnstoredOwned DEF EnsureFinalizer, PassInv
<1>5. CASE GetRecordedLB
  BY <1>1, <1>2, <1>3, <1>3a, <1>5, ReturnKeeps DEF GetRecordedLB, HandPCs
<1>6. CASE DeleteFailedLB
  BY <1>3, <1>6 DEF DeleteFailedLB, HandPCs
<1>7. CASE FindLBByName
  BY <1>1, <1>2, <1>3a, <1>7, ReturnKeeps DEF FindLBByName, HandPCs
<1>8. CASE CreateLB
  BY <1>2, <1>8 DEF CreateLB, HandPCs
<1>9. CASE CheckCreatedLB
  BY <1>3, <1>9 DEF CheckCreatedLB, HandPCs
<1> QED
  BY <1>4, <1>5, <1>6, <1>7, <1>8, <1>9

(* Ownership: the checkpoint and the repair count.                           *)
LEMMA CheckpointOwned ==
    ASSUME BridgeInv, PersistCheckpoint \/ BumpRepairs
    PROVE  PassInv' /\ RecordedOwned'
<1>1. TypeOK /\ RecordedOwned /\ w \in Work /\ w.svc \in Services /\ w.base \in Annotations
      /\ w.graph \in Graph /\ w.lb \in LbIds \cup {NoId} /\ pc # "idle"
  BY DEF BridgeInv, TypeOK, Work, PersistCheckpoint, BumpRepairs
<1>2. CASE PersistCheckpoint
  <2>1. WithLB(w.graph) \in Graph /\ WithLB(w.graph).vs = w.graph.vs
    BY <1>1 DEF WithLB, Graph
  <2>2. CheckpointOf(w.base) \in Annotations /\ CheckpointOf(w.base).graph = WithLB(w.graph)
    BY <1>1, <2>1 DEF CheckpointOf, Annotations, Modes
  <2>3. OwnListeners(vss, w.svc, WithLB(w.graph))
    BY <1>1, <2>1, SameListenersOwned DEF RecordedOwned, WorkOwned
  <2>4. /\ \A s \in Services : /\ OwnListeners(vss', s, ann'[s].graph)
                               /\ OwnListeners(vss', s, seen'[s].ann.graph)
        /\ vss' = vss
    BY <1>1, <1>2, <2>2, <2>3, PatchOwned DEF PersistCheckpoint
  <2>5. WorkOwned(vss', w')
    <3>1. CASE w' = IdleWork
      BY <3>1, IdleOwned
    <3>2. CASE w' = [w EXCEPT !.base = ann'[w.svc], !.graph = WithLB(w.graph)]
      <4>1. w'.svc = w.svc /\ w'.graph = WithLB(w.graph) /\ w'.base = ann'[w.svc]
        BY <1>1, <3>2 DEF Work
      <4> QED
        BY <1>1, <2>3, <2>4, <4>1 DEF WorkOwned
    <3> QED
      BY <1>2, <3>1, <3>2 DEF PersistCheckpoint
  <2>6. PassInv'
    BY <1>2 DEF PersistCheckpoint, CheckpointNext, PassInv
  <2> QED
    BY <2>4, <2>5, <2>6 DEF RecordedOwned
<1>3. CASE BumpRepairs
  <2>1. CASE Return(FALSE) /\ UNCHANGED <<lbs, vips, vss>>
    BY <1>1, <2>1, ReturnKeeps, UnchangedKeeps
  <2>2. CASE PatchAnnotations([w.base EXCEPT !.repairID = w.lb,
                                             !.repairs = RepairsOf(w.base) + 1])
             /\ pc' = "idle" /\ w' = IdleWork /\ queue' = queue \cup {w.svc}
    <3>1. RepairsOf(w.base) + 1 \in Nat
      BY <1>1 DEF RepairsOf, Annotations
    <3>2. PICK n \in Nat : PatchAnnotations([w.base EXCEPT !.repairID = w.lb, !.repairs = n])
      BY <2>2, <3>1, Zenon
    <3> DEFINE new == [w.base EXCEPT !.repairID = w.lb, !.repairs = n]
    <3>3. new \in Annotations /\ new.graph = w.base.graph
      BY <1>1 DEF Annotations
    <3>4. OwnListeners(vss, w.svc, new.graph)
      BY <1>1, <3>3 DEF RecordedOwned, WorkOwned
    <3>5. /\ \A s \in Services : /\ OwnListeners(vss', s, ann'[s].graph)
                                 /\ OwnListeners(vss', s, seen'[s].ann.graph)
      BY <1>1, <3>2, <3>3, <3>4, PatchOwned
    <3> QED
      BY <2>2, <3>5, IdleOwned DEF RecordedOwned, PassInv
  <2> QED
    BY <1>3, <2>1, <2>2 DEF BumpRepairs
<1> QED
  BY <1>2, <1>3

(* Ownership: the steps at the VIP.                                          *)
LEMMA VIPStepOwned ==
    ASSUME BridgeInv, RecoverByName \/ EnsureVIP \/ DeleteFailedVIP \/ CreateVIP
    PROVE  PassInv' /\ RecordedOwned'
<1>1. VssKeeps /\ TypeOK /\ w \in Work /\ w.svc \in Services /\ w.graph \in Graph /\ vss' = vss
      /\ vss \in [VsIds -> VSRecord]
  BY UnchangedKeeps
  DEF BridgeInv, TypeOK, CMPTypeOK, Work, RecoverByName, EnsureVIP, DeleteFailedVIP, CreateVIP
<1>2. ASSUME NEW v, NEW b, UseVIP(v, b) PROVE PassInv' /\ RecordedOwned'
  <2> DEFINE work == [w EXCEPT !.vip = v, !.addressed = b, !.todo = w.ports,
                               !.graph = WithVIP(w.graph, v)]
  <2>1. WithVIP(w.graph, v).vs = w.graph.vs
    BY <1>1 DEF WithVIP, Graph
  <2>2. work.svc = w.svc /\ work.base = w.base /\ work.graph.vs = w.graph.vs
    BY <1>1, <2>1 DEF Work
  <2>3. Continue("listener", work) /\ "listener" \notin HandPCs
    BY <1>2 DEF UseVIP, HandPCs
  <2> HIDE DEF work
  <2> QED
    BY <1>1, <2>2, <2>3, ContinueKeeps
<1>3. ASSUME NEW next, next \notin HandPCs, Continue(next, w)
      PROVE  PassInv' /\ RecordedOwned'
  BY <1>1, <1>3, ContinueKeeps
<1>4. CASE RecoverByName
  <2>1. ASSUME NEW v, Continue("vip", [w EXCEPT !.vip = v, !.graph = Recovered])
        PROVE  PassInv' /\ RecordedOwned'
    <3>1. OwnListeners(vss', w.svc, Recovered)
      <4>1. ASSUME NEW p \in Ports, p \in FoundPorts
            PROVE  LET x == Recovered.vs[p].id IN
                   x \in VsIds /\ vss[x].by = w.svc /\ vss[x].port = p /\ vss[x].st # "hidden"
        BY <1>1, <4>1 DEF Recovered, FoundPorts, ListenersNamed, ListenersOn, Graph, Visible
      <4>2. ASSUME NEW p \in Ports, p \notin FoundPorts
            PROVE  Recovered.vs[p] = w.graph.vs[p]
        BY <1>1, <4>2 DEF Recovered, Graph
      <4>3. OwnListeners(vss', w.svc, w.graph)
        BY <1>1, StoredKept DEF WorkOwned
      <4> QED
        BY <1>1, <4>1, <4>2, <4>3 DEF OwnListeners
    <3>2. w'.svc = w.svc /\ w'.graph = Recovered /\ w'.base = w.base
      BY <1>1, <2>1 DEF Continue, Work
    <3>3. WorkOwned(vss', w')
      BY <1>1, <3>1, <3>2, StoredKept DEF WorkOwned
    <3> QED
      BY <1>1, <2>1, <3>3, UnstoredOwned DEF Continue, PassInv
  <2> QED
    BY <1>1, <1>3, <1>4, <2>1, ReturnKeeps DEF RecoverByName, HandPCs
<1>5. CASE EnsureVIP
  BY <1>1, <1>2, <1>3, <1>5, ReturnKeeps DEF EnsureVIP, HandPCs
<1>6. CASE DeleteFailedVIP
  BY <1>1, <1>6, ReturnKeeps DEF DeleteFailedVIP
<1>7. CASE CreateVIP
  BY <1>2, <1>7 DEF CreateVIP
<1> QED
  BY <1>4, <1>5, <1>6, <1>7

(* A listener the pass settles on for a port is the Service's own and for    *)
(* that port, and CMP lists it.                                              *)
LEMMA CurrentListenerOwned ==
    ASSUME BridgeInv, NEW p \in Ports, CurrentListener(p) # NoId
    PROVE  LET v == CurrentListener(p) IN
           /\ v \in VsIds /\ Visible(vss[v].st)
           /\ vss[v].by = w.svc /\ vss[v].port = p
<1>1. OwnListeners(vss, w.svc, w.graph)
  BY DEF BridgeInv, RecordedOwned, WorkOwned
<1>2. CASE RecordedListener(p) # NoId
  BY <1>1, <1>2
  DEF CurrentListener, RecordedListener, ListenersOn, Visible, OwnListeners
<1>3. CASE RecordedListener(p) = NoId
  BY <1>3 DEF CurrentListener, ListenersNamed, ListenersOn
<1> QED
  BY <1>2, <1>3

(* What a port leaves in the graph is the Service's own.                     *)
LEMMA DoneWithOwned ==
    ASSUME BridgeInv, pc # "idle", VssKeeps, NEW p \in Ports, NEW v \in VsIds,
           vss'[v].st # "hidden", vss'[v].by = w.svc, vss'[v].port = p,
           Continue("listener", DoneWith(p, v))
    PROVE  PassInv' /\ RecordedOwned'
<1>1. w \in Work /\ w.graph \in Graph /\ OwnListeners(vss', w.svc, w.graph)
      /\ OwnListeners(vss', w.svc, w.base.graph)
  BY StoredKept DEF BridgeInv, TypeOK, Work, WorkOwned
<1>2. w'.svc = w.svc /\ w'.base = w.base
      /\ w'.graph.vs = [w.graph.vs EXCEPT ![p] = [id |-> v, hash |-> w.hash]]
  BY <1>1 DEF Continue, DoneWith, Work, Graph
<1>3. OwnListeners(vss', w'.svc, w'.graph)
  <2>1. w'.graph.vs[p].id = v /\ \A q \in Ports : q # p => w'.graph.vs[q] = w.graph.vs[q]
    BY <1>1, <1>2 DEF Graph
  <2>2. LET u == w'.graph.vs[p].id IN vss'[u].st # "hidden" /\ vss'[u].by = w.svc /\ vss'[u].port = p
    BY <2>1
  <2>3. OwnListeners(vss', w.svc, w'.graph)
    BY <1>1, <2>1, <2>2, OneMoreListenerOwned
  <2> QED
    BY <1>2, <2>3
<1>4. WorkOwned(vss', w')
  BY <1>1, <1>2, <1>3 DEF WorkOwned
<1> QED
  BY <1>4, UnstoredOwned DEF Continue, PassInv

(* Ownership: the steps at a listener.                                       *)
LEMMA ListenerStepOwned ==
    ASSUME BridgeInv,
           (\E p \in Ports : EnsureListener(p)) \/ DeleteListener \/ CreateListener
              \/ CheckCreatedListener \/ DeleteObsoleteListener
    PROVE  PassInv' /\ RecordedOwned'
<1>1. TypeOK /\ PassInv /\ RecordedOwned /\ w \in Work /\ w.svc \in Services /\ w.graph \in Graph
      /\ pc # "idle" /\ vss \in [VsIds -> VSRecord]
  BY DEF BridgeInv, TypeOK, CMPTypeOK, Work, EnsureListener, DeleteListener, CreateListener,
         CheckCreatedListener, DeleteObsoleteListener
<1>2. UNCHANGED vss => VssKeeps
  BY <1>1, UnchangedKeeps
<1>3. \A v : LET work == [w EXCEPT !.vs = v] IN
               /\ work.svc = w.svc /\ work.base = w.base /\ work.graph = w.graph
               /\ work.todo = w.todo /\ work.vs = v /\ work.vip = w.vip
  BY <1>1 DEF Work
<1>4. ASSUME NEW p \in Ports, EnsureListener(p) PROVE PassInv' /\ RecordedOwned'
  <2>1. VssKeeps /\ vss' = vss
    BY <1>2, <1>4 DEF EnsureListener
  <2> DEFINE v == CurrentListener(p)
  <2>2. CASE Return(TRUE)
    BY <2>1, <2>2, ReturnKeeps
  <2>3. CASE Continue("vs-create", w)
    <3>1. WorkOwned(vss', w')
      BY <2>1, <2>3, StoredKept DEF Continue
    <3>2. PassInv'
      BY <1>4, <2>3 DEF EnsureListener, Continue, PassInv
    <3> QED
      BY <2>1, <2>3, <3>1, <3>2, UnstoredOwned DEF Continue
  <2>4. CASE v # NoId /\ Continue("vs-delete", [w EXCEPT !.vs = v])
    <3>1. v \in VsIds /\ vss[v].by = w.svc
      BY <2>4, CurrentListenerOwned
    <3>2. w'.svc = w.svc /\ w'.base = w.base /\ w'.graph = w.graph /\ w'.vs = v /\ pc' = "vs-delete"
      BY <1>3, <2>4 DEF Continue
    <3>3. WorkOwned(vss', w')
      BY <2>1, <3>2, StoredKept DEF WorkOwned
    <3>4. PassInv'
      BY <2>1, <3>1, <3>2 DEF PassInv
    <3> QED
      BY <2>1, <2>4, <3>3, <3>4, UnstoredOwned DEF Continue
  <2>5. CASE v # NoId /\ Continue("listener", DoneWith(p, v))
    <3>1. v \in VsIds /\ Visible(vss[v].st) /\ vss[v].by = w.svc /\ vss[v].port = p
      BY <2>5, CurrentListenerOwned
    <3> HIDE DEF v
    <3> QED
      BY <1>1, <2>1, <2>5, <3>1, DoneWithOwned DEF Visible
  <2> QED
    BY <1>4, <2>2, <2>3, <2>4, <2>5 DEF EnsureListener
<1>5. CASE DeleteListener
  BY <1>1, <1>5, DeleteKeeps, ReturnKeeps DEF DeleteListener
<1>6. CASE CreateListener
  <2> DEFINE r == [NoVS EXCEPT !.lb = w.lb, !.vip = w.vip, !.by = w.svc, !.port = NextPort,
                               !.hash = w.hash]
  <2>1. PICK v \in UnusedVSs : VSAccepted(v, r) /\ Continue("vs-check", [w EXCEPT !.vs = v])
    BY <1>6 DEF CreateListener, Next0
  <2>2. /\ v \in VsIds /\ vss'[v].by = w.svc /\ vss'[v].vip = w.vip /\ vss'[v].port = NextPort
        /\ \A x \in VsIds : x # v => vss'[x] = vss[x]
    <3>1. PICK st \in Born : vss' = [vss EXCEPT ![v] = [r EXCEPT !.st = st]]
      BY <2>1 DEF VSAccepted
    <3>2. LET new == [r EXCEPT !.st = st] IN
             new.by = w.svc /\ new.vip = w.vip /\ new.port = NextPort
      BY DEF NoVS
    <3>3. v \in VsIds
      BY DEF UnusedVSs
    <3> HIDE DEF r
    <3> QED
      BY <1>1, <3>1, <3>2, <3>3
  <2>3. ASSUME NEW s, NEW g \in Graph, OwnListeners(vss, s, g), \A p \in Ports : g.vs[p].id # v
        PROVE  OwnListeners(vss', s, g)
    BY <2>2, <2>3 DEF OwnListeners, Graph, Listener
  <2>4. \A s \in Services : /\ OwnListeners(vss', s, ann[s].graph)
                            /\ OwnListeners(vss', s, seen[s].ann.graph)
    <3>1. \A s \in Services : ann[s].graph \in Graph /\ seen[s].ann.graph \in Graph
      BY <1>1 DEF TypeOK, Annotations
    <3>2. \A s \in Services, p \in Ports : ann[s].graph.vs[p].id # v /\ seen[s].ann.graph.vs[p].id # v
      BY DEF UnusedVSs, NamesVS
    <3> QED
      BY <1>1, <2>3, <3>1, <3>2 DEF RecordedOwned
  <2>5. WorkOwned(vss', w)
    <3>1. w.graph \in Graph /\ w.base.graph \in Graph
      BY <1>1 DEF Work, Annotations
    <3>2. \A p \in Ports : w.graph.vs[p].id # v /\ w.base.graph.vs[p].id # v
      BY DEF UnusedVSs, NamesVS
    <3> QED
      BY <1>1, <2>3, <3>1, <3>2 DEF RecordedOwned, WorkOwned
  <2>6. /\ w'.svc = w.svc /\ w'.base = w.base /\ w'.graph = w.graph /\ w'.todo = w.todo
        /\ w'.vs = v /\ w'.vip = w.vip /\ pc' = "vs-check" /\ ann' = ann /\ seen' = seen
    BY <1>3, <2>1 DEF Continue
  <2>7. PassInv'
    BY <1>1, <1>6, <2>2, <2>6 DEF CreateListener, PassInv, NextPort
  <2> QED
    BY <2>4, <2>5, <2>6, <2>7 DEF RecordedOwned, WorkOwned
<1>7. CASE CheckCreatedListener
  <2>1. VssKeeps /\ vss' = vss
    BY <1>2, <1>7 DEF CheckCreatedListener
  <2>2. /\ NextPort \in Ports /\ w.vs \in VsIds
        /\ vss[w.vs].st = "absent" \/ (vss[w.vs].by = w.svc /\ vss[w.vs].port = NextPort)
    BY <1>1, <1>7, NextPortType DEF CheckCreatedListener, PassInv
  <2>3. CASE vss[w.vs].st = "ready" /\ Continue("listener", DoneWith(NextPort, w.vs))
    <3> DEFINE p == NextPort
    <3> HIDE DEF p
    <3> QED
      BY <1>1, <2>1, <2>2, <2>3, DoneWithOwned DEF p
  <2>4. CASE Continue("vs-delete", w)
    BY <2>1, <2>2, <2>4, StoredKept, UnstoredOwned DEF Continue, PassInv
  <2>5. CASE Return(TRUE)
    BY <2>1, <2>5, ReturnKeeps
  <2> QED
    BY <1>7, <2>3, <2>4, <2>5 DEF CheckCreatedListener
<1>8. CASE DeleteObsoleteListener
  <2>1. PICK p \in Ports : /\ VSDeleteAccepted(w.graph.vs[p].id)
                           /\ Continue("listener", [w EXCEPT !.graph.vs[p] = NoListener])
    BY <1>8 DEF DeleteObsoleteListener, Obsolete
  <2>2. VssKeeps
    BY <1>1, <2>1, DeleteKeeps
  <2>3. w'.svc = w.svc /\ w'.base = w.base
        /\ w'.graph.vs = [w.graph.vs EXCEPT ![p] = NoListener]
    BY <1>1, <2>1 DEF Continue, Work, Graph
  <2>4. OwnListeners(vss', w.svc, w.graph) /\ OwnListeners(vss', w.svc, w.base.graph)
    BY <2>2, StoredKept DEF WorkOwned
  <2>5. OwnListeners(vss', w'.svc, w'.graph)
    <3>1. \A q \in Ports : w'.graph.vs[q] \in {NoListener, w.graph.vs[q]}
      BY <1>1, <2>3 DEF Graph
    <3> QED
      BY <2>3, <2>4, <3>1, FewerListenersOwned
  <2> QED
    BY <2>1, <2>2, <2>3, <2>4, <2>5, UnstoredOwned DEF Continue, WorkOwned, PassInv
<1> QED
  BY <1>4, <1>5, <1>6, <1>7, <1>8

(* Ownership: the result patch and the status.                               *)
LEMMA ResultStepOwned ==
    ASSUME BridgeInv, PersistResult \/ PublishVIP
    PROVE  PassInv' /\ RecordedOwned'
<1>1. TypeOK /\ RecordedOwned /\ w \in Work /\ w.svc \in Services /\ w.base \in Annotations
      /\ w.graph \in Graph /\ w.lb \in LbIds \cup {NoId} /\ w.vip \in VipIds \cup {NoId}
      /\ pc # "idle"
  BY DEF BridgeInv, TypeOK, Work, PersistResult, PublishVIP
<1>2. CASE PersistResult
  <2>1. DropMigratedLegacyAliases(w.graph) \in Graph
        /\ DropMigratedLegacyAliases(w.graph).vs = w.graph.vs
    BY <1>1, DropAliasesType
  <2>2. ResultOf(w.base) \in Annotations
        /\ ResultOf(w.base).graph = DropMigratedLegacyAliases(w.graph)
    BY <1>1, <2>1, ResultType
  <2>3. OwnListeners(vss, w.svc, ResultOf(w.base).graph)
    BY <1>1, <2>1, <2>2, SameListenersOwned DEF RecordedOwned, WorkOwned
  <2>4. /\ \A s \in Services : /\ OwnListeners(vss', s, ann'[s].graph)
                               /\ OwnListeners(vss', s, seen'[s].ann.graph)
        /\ vss' = vss
    BY <1>1, <1>2, <2>2, <2>3, PatchOwned DEF PersistResult
  <2>5. WorkOwned(vss', w')
    <3>1. CASE w' = IdleWork
      BY <3>1, IdleOwned
    <3>2. CASE w' = [w EXCEPT !.base = ann'[w.svc]]
      <4>1. w'.svc = w.svc /\ w'.graph = w.graph /\ w'.base = ann'[w.svc]
        BY <1>1, <3>2 DEF Work
      <4> QED
        BY <1>1, <2>4, <4>1 DEF WorkOwned, RecordedOwned
    <3> QED
      BY <1>2, <3>1, <3>2 DEF PersistResult
  <2>6. PassInv'
    BY <1>2 DEF PersistResult, PassInv
  <2> QED
    BY <2>4, <2>5, <2>6 DEF RecordedOwned
<1>3. CASE PublishVIP
  BY <1>1, <1>3, UnchangedKeeps, IdleOwned, UnstoredOwned DEF PublishVIP, PassInv
<1> QED
  BY <1>2, <1>3

(* Ownership: the clean-up.                                                  *)
LEMMA CleanupOwned ==
    ASSUME BridgeInv, Cleanup
    PROVE  PassInv' /\ RecordedOwned'
<1>1. TypeOK /\ PassInv /\ RecordedOwned /\ w \in Work /\ w.svc \in Services /\ w.graph \in Graph
      /\ pc # "idle" /\ vss \in [VsIds -> VSRecord]
  BY DEF BridgeInv, TypeOK, CMPTypeOK, Work, Cleanup, RefuseAmbiguousCleanup, CleanListener,
         ConfirmListenerGone, CleanVIP, CleanLB, ConfirmLBGone, RemoveFinalizer
<1>2. UNCHANGED vss => VssKeeps
  BY <1>1, UnchangedKeeps
<1>3. ASSUME NEW next, next \notin HandPCs, Continue(next, w), UNCHANGED vss
      PROVE  PassInv' /\ RecordedOwned'
  BY <1>2, <1>3, ContinueKeeps
<1>4. CASE RefuseAmbiguousCleanup
  BY <1>2, <1>4, ReturnKeeps DEF RefuseAmbiguousCleanup
<1>5. CASE CleanListener
  <2>1. CASE Continue("clean-vip", w) /\ UNCHANGED vss
    BY <1>3, <2>1 DEF HandPCs
  <2>2. ASSUME NEW v \in CleanupListeners(w.graph), VSDeleteAccepted(v),
               Continue("clean-vs-get", [w EXCEPT !.vs = v])
        PROVE  PassInv' /\ RecordedOwned'
    <3>1. VssKeeps
      BY <1>1, <2>2, DeleteKeeps
    <3>2. w'.svc = w.svc /\ w'.base = w.base /\ w'.graph = w.graph /\ w'.vs = v
          /\ pc' = "clean-vs-get"
      BY <1>1, <2>2 DEF Continue, Work
    <3>3. WorkOwned(vss', w')
      BY <3>1, <3>2, StoredKept DEF WorkOwned
    <3>4. PICK p \in Ports : v = w.graph.vs[p].id /\ v # NoId
      BY DEF CleanupListeners
    <3>5. v \in VsIds /\ (vss'[v].st = "absent" \/ vss'[v].by = w.svc)
      <4>1. v \in VsIds
        BY <1>1, <3>4 DEF Graph, Listener
      <4>2. OwnListeners(vss', w.svc, w.graph)
        BY <3>2, <3>3 DEF WorkOwned
      <4> QED
        BY <3>4, <4>1, <4>2 DEF OwnListeners
    <3> QED
      BY <2>2, <3>1, <3>2, <3>3, <3>5, UnstoredOwned DEF Continue, PassInv
  <2> QED
    BY <1>5, <2>1, <2>2 DEF CleanListener
<1>6. CASE ConfirmListenerGone
  <2>1. VssKeeps
    BY <1>2, <1>6 DEF ConfirmListenerGone
  <2>2. CASE Continue("clean-vs", [w EXCEPT !.graph = WithoutListener(w.graph, w.vs), !.vs = NoId])
    <3>1. w'.svc = w.svc /\ w'.base = w.base /\ w'.graph = WithoutListener(w.graph, w.vs)
      BY <1>1, <2>2 DEF Continue, Work
    <3>2. ASSUME NEW p \in Ports
          PROVE  w'.graph.vs[p] \in {NoListener, w.graph.vs[p]}
      BY <1>1, <3>1 DEF WithoutListener, Graph
    <3>3. OwnListeners(vss', w.svc, w.graph) /\ OwnListeners(vss', w.svc, w.base.graph)
      BY <2>1, StoredKept DEF WorkOwned
    <3>4. WorkOwned(vss', w')
      <4>1. OwnListeners(vss', w.svc, w'.graph)
        BY <3>2, <3>3, FewerListenersOwned
      <4> QED
        BY <3>1, <3>3, <4>1, OwnedFromListeners
    <3> QED
      BY <2>1, <2>2, <3>4, UnstoredOwned DEF Continue, PassInv
  <2> QED
    BY <1>6, <2>1, <2>2, ReturnKeeps DEF ConfirmListenerGone
<1>7. CASE CleanVIP
  <2>1. VssKeeps
    BY <1>2, <1>7 DEF CleanVIP
  <2>2. ASSUME NEW v, Continue("clean-vip", [w EXCEPT !.graph = WithoutVIP(@, v)])
        PROVE  PassInv' /\ RecordedOwned'
    <3>1. w'.svc = w.svc /\ w'.base = w.base /\ w'.graph.vs = w.graph.vs
      BY <1>1, <2>2, WithoutVIPType DEF Continue, Work
    <3>2. WorkOwned(vss', w')
      BY <2>1, <3>1, StoredKept, SameListenersOwned DEF WorkOwned
    <3> QED
      BY <2>1, <2>2, <3>2, UnstoredOwned DEF Continue, PassInv
  <2> QED
    BY <1>3, <1>7, <2>2 DEF CleanVIP, AfterVIPs, HandPCs
<1>8. CASE CleanLB
  BY <1>3, <1>8 DEF CleanLB, HandPCs
<1>9. CASE ConfirmLBGone
  BY <1>2, <1>3, <1>9, ReturnKeeps DEF ConfirmLBGone, HandPCs
<1>10. CASE RemoveFinalizer
  <2>1. VssKeeps /\ vss' = vss /\ seen' = seen /\ w' = IdleWork /\ pc' = "idle"
    BY <1>2, <1>10 DEF RemoveFinalizer
  <2>2. ann' \in {ann, [ann EXCEPT ![w.svc] = NoAnnotations]}
    BY <1>10 DEF RemoveFinalizer
  <2>3. \A s \in Services : ann'[s] \in {ann[s], NoAnnotations}
    BY <1>1, <2>2 DEF TypeOK
  <2> QED
    BY <2>1, <2>3, IdleOwned, ErasedOwned DEF PassInv
<1> QED
  BY <1>4, <1>5, <1>6, <1>7, <1>8, <1>9, <1>10 DEF Cleanup

(* What CMP and its failures do to listeners is outside the worker's hands.  *)
LEMMA ProviderOwned ==
    ASSUME BridgeInv, UnchangedBridge,
           \/ \E l \in LbIds : LBSettles(l) \/ LBDeleted(l) \/ LBFails(l) \/ LBLost(l)
           \/ \E v \in VipIds : VIPSettles(v) \/ VIPFails(v) \/ VIPLost(v)
           \/ \E v \in VsIds : VSSettles(v) \/ VSDeleted(v) \/ VSFails(v) \/ VSLost(v)
    PROVE  PassInv' /\ RecordedOwned'
<1>1. TypeOK
  BY DEF BridgeInv
<1>2. VssKeeps
  BY <1>1, ProviderKeeps
<1> QED
  BY <1>2, OutsideKeeps, UnstoredOwned DEF UnchangedBridge

(* A user who deletes an unfinalized Service deletes its annotations too.    *)
LEMMA UserStepOwned ==
    ASSUME BridgeInv, NEW s \in Services,
           ChangeType(s) \/ ChangePorts(s) \/ ChangeBackends(s) \/ DeleteService(s)
    PROVE  PassInv' /\ RecordedOwned'
<1>1. VssKeeps /\ UNCHANGED <<pc, w, seen, vss>>
  BY UnchangedKeeps DEF BridgeInv, ChangeType, ChangePorts, ChangeBackends, DeleteService, UserChange
<1>2. PassInv' /\ WorkOwned(vss', w')
  BY <1>1, OutsideKeeps
<1>3. ann' \in {ann, [ann EXCEPT ![s] = NoAnnotations]}
  BY DEF ChangeType, ChangePorts, ChangeBackends, DeleteService
<1>4. \A t \in Services : ann'[t] \in {ann[t], NoAnnotations}
  BY <1>3 DEF BridgeInv, TypeOK
<1> QED
  BY <1>1, <1>2, <1>4, ErasedOwned

(* A refused or failed call, the informer and the resync.                    *)
LEMMA OtherStepOwned ==
    ASSUME BridgeInv,
           CallRefused \/ FailedCall \/ \E s \in Services : InformerSync(s) \/ Resync(s)
    PROVE  PassInv' /\ RecordedOwned'
<1>1. VssKeeps /\ vss' = vss
  BY UnchangedKeeps DEF BridgeInv, CallRefused, FailedCall, InformerSync, Resync
<1>2. CASE CallRefused
  BY <1>1, <1>2, ReturnKeeps DEF CallRefused
<1>3. CASE FailedCall
  BY <1>1, <1>3, IdleOwned, UnstoredOwned DEF FailedCall, PassInv
<1>4. ASSUME NEW s \in Services, InformerSync(s) PROVE PassInv' /\ RecordedOwned'
  <2>1. PassInv' /\ WorkOwned(vss', w')
    BY <1>1, <1>4, OutsideKeeps DEF InformerSync
  <2>2. \A t \in Services : seen'[t].ann \in {seen[t].ann, ann[t]}
    BY <1>4 DEF InformerSync, BridgeInv, TypeOK
  <2> QED
    BY <1>1, <1>4, <2>1, <2>2 DEF InformerSync, BridgeInv, RecordedOwned
<1>5. ASSUME NEW s \in Services, Resync(s) PROVE PassInv' /\ RecordedOwned'
  BY <1>1, <1>5, OutsideKeeps, UnstoredOwned DEF Resync
<1> QED
  BY <1>2, <1>3, <1>4, <1>5

(* A Service begins with no graph, whatever ids its user brings along.       *)
LEMMA InitialGraph ==
    ASSUME NEW a \in InitialAnnotations
    PROVE  a.graph = NoGraph
<1>1. NoAnnotations.graph = NoGraph
  BY DEF NoAnnotations
<1>2. \A v : OnlyVIP(v).graph = NoGraph
  BY DEF OnlyVIP, NoAnnotations
<1>3. \A l, m : OnlyLB(l, m).graph = NoGraph
  BY DEF OnlyLB, NoAnnotations
<1>4. \A v, m : LBAndVIP(v, m).graph = NoGraph
  BY DEF LBAndVIP, OnlyLB, NoAnnotations
<1>5. ASSUME NEW m, a \in Supplied(m) PROVE a.graph = NoGraph
  <2>1. PICK l, v : a = OnlyLB(l, m) \/ a = LBAndVIP(v, m)
    BY <1>5 DEF Supplied
  <2> QED
    BY <1>3, <1>4, <2>1
<1>6. \/ a = NoAnnotations \/ \E v : a = OnlyVIP(v)
      \/ a \in Supplied("") \/ a \in Supplied("provided")
  BY DEF InitialAnnotations
<1>7. CASE a = NoAnnotations
  BY <1>1, <1>7
<1>8. CASE \E v : a = OnlyVIP(v)
  BY <1>2, <1>8
<1>9. CASE a \in Supplied("") \/ a \in Supplied("provided")
  BY <1>5, <1>9, Zenon
<1> QED
  BY <1>6, <1>7, <1>8, <1>9

(* At the start nothing is recorded in any graph.                            *)
LEMMA InitOwned == Init => PassInv /\ RecordedOwned
<1> SUFFICES ASSUME Init PROVE PassInv /\ RecordedOwned
  OBVIOUS
<1>1. \A s \in Services : ann[s].graph = NoGraph /\ seen[s].ann.graph = NoGraph
  BY InitialGraph DEF Init
<1>2. pc = "idle" /\ w = IdleWork
  BY DEF Init
<1> QED
  BY <1>1, <1>2, IdleOwned DEF RecordedOwned, PassInv

-----------------------------------------------------------------------------
(* The theorems.                                                             *)

(* Every step keeps the types.  ListenerStepType is the only case that needs *)
(* PassInv: NextPort is a CHOOSE over the ports still to do.                 *)
LEMMA NextType == TypeOK /\ PassInv /\ [Next]_vars => TypeOK'
<1> SUFFICES ASSUME TypeOK, PassInv, [Next]_vars PROVE TypeOK'
  OBVIOUS
<1>1. CASE UNCHANGED vars
  BY <1>1, StutterType
<1>2. ASSUME NEW s \in Services, StartPass(s) PROVE TypeOK'
  BY <1>2, StartPassType
<1>3. CASE Ensure
  BY <1>3, LoadObservedType, LBStepType, CheckpointType, VIPStepType, ListenerStepType,
     ResultStepType DEF Ensure
<1>4. CASE Cleanup
  BY <1>4, CleanupStepType
<1>5. CASE Provider \/ Disturbance
  <2>1. ASSUME UnchangedBridge, faults' \in Nat,
               \/ \E l \in LbIds : LBSettles(l) \/ LBDeleted(l) \/ LBFails(l) \/ LBLost(l)
               \/ \E v \in VipIds : VIPSettles(v) \/ VIPFails(v) \/ VIPLost(v)
               \/ \E v \in VsIds : VSSettles(v) \/ VSDeleted(v) \/ VSFails(v) \/ VSLost(v)
        PROVE  TypeOK'
    <3>1. CMPTypeOK /\ BridgeTypeOK
      BY TypeParts
    <3>2. CMPTypeOK'
      BY <2>1, <3>1, ProviderStepType
    <3>3. BridgeTypeOK'
      BY <2>1, <3>1 DEF BridgeTypeOK, UnchangedBridge
    <3> QED
      BY <3>2, <3>3, TypeParts
  <2>2. faults \in Nat
    BY DEF TypeOK
  <2>3. ASSUME NEW l \in LbIds, LBSettles(l) \/ LBDeleted(l) \/ LBFails(l) \/ LBLost(l)
        PROVE  UnchangedBridge /\ faults' \in Nat
    BY <2>2, <2>3, DisturbType DEF LBSettles, LBDeleted, LBFails, LBLost
  <2>4. ASSUME NEW v \in VipIds, VIPSettles(v) \/ VIPFails(v) \/ VIPLost(v)
        PROVE  UnchangedBridge /\ faults' \in Nat
    BY <2>2, <2>4, DisturbType DEF VIPSettles, VIPFails, VIPLost
  <2>5. ASSUME NEW v \in VsIds, VSSettles(v) \/ VSDeleted(v) \/ VSFails(v) \/ VSLost(v)
        PROVE  UnchangedBridge /\ faults' \in Nat
    BY <2>2, <2>5, DisturbType DEF VSSettles, VSDeleted, VSFails, VSLost
  <2> QED
    BY <1>5, <2>1, <2>3, <2>4, <2>5, UserStepType, OtherStepType DEF Provider, Disturbance
<1>6. CASE CallRefused \/ \E s \in Services : InformerSync(s) \/ Resync(s)
  BY <1>6, OtherStepType
<1> QED
  BY <1>1, <1>2, <1>3, <1>4, <1>5, <1>6 DEF Next, Worker

(* Every step keeps the ownership of what is recorded.                       *)
LEMMA NextOwned == BridgeInv /\ [Next]_vars => PassInv' /\ RecordedOwned'
<1> SUFFICES ASSUME BridgeInv, [Next]_vars PROVE PassInv' /\ RecordedOwned'
  OBVIOUS
<1>1. CASE UNCHANGED vars
  <2>1. VssKeeps /\ UNCHANGED <<pc, w, ann, seen>>
    BY <1>1, UnchangedKeeps DEF BridgeInv, vars
  <2> QED
    BY <2>1, OutsideKeeps, UnstoredOwned
<1>2. ASSUME NEW s \in Services, StartPass(s) PROVE PassInv' /\ RecordedOwned'
  BY <1>2, StartPassOwned
<1>3. CASE Ensure
  BY <1>3, LoadOwned, LBStepOwned, CheckpointOwned, VIPStepOwned, ListenerStepOwned,
     ResultStepOwned DEF Ensure
<1>4. CASE Cleanup
  BY <1>4, CleanupOwned
<1>5. CASE Provider \/ Disturbance
  <2>1. ASSUME NEW l \in LbIds, LBSettles(l) \/ LBDeleted(l) \/ LBFails(l) \/ LBLost(l)
        PROVE  UnchangedBridge
    BY <2>1 DEF LBSettles, LBDeleted, LBFails, LBLost
  <2>2. ASSUME NEW v \in VipIds, VIPSettles(v) \/ VIPFails(v) \/ VIPLost(v)
        PROVE  UnchangedBridge
    BY <2>2 DEF VIPSettles, VIPFails, VIPLost
  <2>3. ASSUME NEW v \in VsIds, VSSettles(v) \/ VSDeleted(v) \/ VSFails(v) \/ VSLost(v)
        PROVE  UnchangedBridge
    BY <2>3 DEF VSSettles, VSDeleted, VSFails, VSLost
  <2> QED
    BY <1>5, <2>1, <2>2, <2>3, ProviderOwned, UserStepOwned, OtherStepOwned
    DEF Provider, Disturbance
<1>6. CASE CallRefused \/ \E s \in Services : InformerSync(s) \/ Resync(s)
  BY <1>6, OtherStepOwned
<1> QED
  BY <1>1, <1>2, <1>3, <1>4, <1>5, <1>6 DEF Next, Worker

(* The inductive invariant: the types, what the worker has in hand, and the  *)
(* ownership of every recorded listener, together.                           *)
THEOREM BridgeInvariant == Spec => []BridgeInv
<1>1. Init => BridgeInv
  BY InitType, InitOwned DEF BridgeInv
<1>2. BridgeInv /\ [Next]_vars => BridgeInv'
  BY NextType, NextOwned DEF BridgeInv
<1> QED
  BY <1>1, <1>2, PTL DEF Spec

(* The state of the bridge, of its Services and of CMP is always well typed: *)
(* every id a pass holds or stores is a provider id of the right kind.       *)
THEOREM TypeCorrect == Spec => []TypeOK
<1>1. BridgeInv => TypeOK
  BY DEF BridgeInv
<1> QED
  BY <1>1, BridgeInvariant, PTL

(* Adoption by name (recoverVirtualServersByName), the copied parents of a   *)
(* vip-group and merge patches from stale snapshots never let a Service      *)
(* record a listener that a sibling created.                                 *)
THEOREM RecordedListenersOwned == Spec => []RecordedOwned
<1>1. BridgeInv => RecordedOwned
  BY DEF BridgeInv
<1> QED
  BY <1>1, BridgeInvariant, PTL

(* A DELETE reaches one listener, and it is the one in its argument. *)
LEMMA DeleteReachesOne ==
    ASSUME TypeOK, NEW x, VSDeleteAccepted(x), NEW v \in VsIds,
           vss'[v].st = "deleting", vss[v].st # "deleting"
    PROVE  v = x /\ vss[v].st # "absent"
BY DEF TypeOK, CMPTypeOK, VSDeleteAccepted, Visible

(* No step of CMP, of its failures or of users asks for a deletion.          *)
LEMMA OnlyWorkerDeletes ==
    ASSUME TypeOK, Provider \/ Disturbance, NEW v \in VsIds, vss[v].st # "deleting"
    PROVE  vss'[v].st # "deleting"
<1>1. vss \in [VsIds -> VSRecord]
  BY DEF TypeOK, CMPTypeOK
<1>2. ASSUME NEW l, LBGone(l) PROVE vss'[v].st # "deleting"
  BY <1>1, <1>2 DEF LBGone, NoVS
<1>3. ASSUME NEW x, VSGone(x) PROVE vss'[v].st # "deleting"
  BY <1>1, <1>3 DEF VSGone, NoVS
<1>4. ASSUME NEW x, NEW from, NEW to \in {"pending", "ready", "failed"}, VSBecomes(x, from, to)
      PROVE  vss'[v].st # "deleting"
  BY <1>1, <1>4 DEF VSBecomes, VSRecord
<1>5. ASSUME NEW l \in LbIds, LBSettles(l) \/ LBDeleted(l) \/ LBFails(l) \/ LBLost(l)
      PROVE  vss'[v].st # "deleting"
  BY <1>2, <1>5 DEF LBSettles, LBDeleted, LBFails, LBLost, LBBecomes
<1>6. ASSUME NEW x \in VipIds, VIPSettles(x) \/ VIPFails(x) \/ VIPLost(x)
      PROVE  vss'[v].st # "deleting"
  BY <1>6 DEF VIPSettles, VIPFails, VIPLost, VIPBecomes
<1>7. ASSUME NEW x \in VsIds, VSSettles(x) \/ VSDeleted(x) \/ VSFails(x) \/ VSLost(x)
      PROVE  vss'[v].st # "deleting"
  BY <1>3, <1>4, <1>7 DEF VSSettles, VSDeleted, VSFails, VSLost
<1>8. FailedCall => vss' = vss
  BY DEF FailedCall
<1>9. \A s \in Services :
         ChangeType(s) \/ ChangePorts(s) \/ ChangeBackends(s) \/ DeleteService(s) => vss' = vss
  BY DEF ChangeType, ChangePorts, ChangeBackends, DeleteService, UserChange
<1> QED
  BY <1>5, <1>6, <1>7, <1>8, <1>9 DEF Provider, Disturbance

(* The worker's own deletes: of a listener it has in hand, of one recorded   *)
(* for a port that is gone, and, on cleanup, of every recorded one.          *)
LEMMA StepIsolates ==
    ASSUME BridgeInv, Next, NEW v \in VsIds, vss'[v].st = "deleting", vss[v].st # "deleting"
    PROVE  vss[v].by = w.svc
<1>1. TypeOK /\ PassInv /\ OwnListeners(vss, w.svc, w.graph) /\ vss \in [VsIds -> VSRecord]
  BY DEF BridgeInv, TypeOK, CMPTypeOK, RecordedOwned, WorkOwned
<1>2. vss' # vss
  OBVIOUS
<1>3. CASE Provider \/ Disturbance
  BY <1>1, <1>3, OnlyWorkerDeletes
<1>4. CASE DeleteListener
  BY <1>1, <1>4, DeleteReachesOne DEF DeleteListener, PassInv
<1>5. CASE DeleteObsoleteListener
  BY <1>1, <1>5, DeleteReachesOne DEF DeleteObsoleteListener, Obsolete, OwnListeners
<1>6. CASE CleanListener
  <2>1. PICK x \in CleanupListeners(w.graph) : VSDeleteAccepted(x)
    BY <1>2, <1>6 DEF CleanListener
  <2>2. v = x /\ vss[v].st # "absent"
    BY <1>1, <2>1, DeleteReachesOne
  <2>3. PICK p \in Ports : x = w.graph.vs[p].id /\ x # NoId
    BY DEF CleanupListeners
  <2> QED
    BY <1>1, <2>2, <2>3 DEF OwnListeners
<1>7. CASE CreateListener
  <2> DEFINE r == [NoVS EXCEPT !.lb = w.lb, !.vip = w.vip, !.by = w.svc, !.port = NextPort,
                               !.hash = w.hash]
  <2>1. PICK x \in VsIds, st \in Born : vss' = [vss EXCEPT ![x] = [r EXCEPT !.st = st]]
    BY <1>7 DEF CreateListener, VSAccepted
  <2>2. [r EXCEPT !.st = st].st = st
    BY DEF NoVS
  <2>3. st # "deleting"
    BY BornAssumption
  <2> HIDE DEF r
  <2> QED
    BY <1>1, <2>1, <2>2, <2>3
<1>8. CASE \/ \E s \in Services : StartPass(s) \/ InformerSync(s) \/ Resync(s)
           \/ CallRefused \/ EnsureFinalizer \/ LoadObserved \/ GetRecordedLB \/ DeleteFailedLB
           \/ FindLBByName \/ CreateLB \/ CheckCreatedLB
  BY <1>2, <1>8 DEF StartPass, IgnoreService, BeginEnsure, BeginCleanup, InformerSync, Resync,
     CallRefused, EnsureFinalizer, LoadObserved, GetRecordedLB, DeleteFailedLB, FindLBByName,
     CreateLB, CheckCreatedLB
<1>9. CASE \/ PersistCheckpoint \/ BumpRepairs \/ RecoverByName \/ EnsureVIP \/ DeleteFailedVIP
           \/ CreateVIP \/ (\E p \in Ports : EnsureListener(p)) \/ CheckCreatedListener
           \/ PersistResult \/ PublishVIP
  BY <1>2, <1>9 DEF PersistCheckpoint, BumpRepairs, PatchAnnotations, RecoverByName, EnsureVIP,
     DeleteFailedVIP, CreateVIP, EnsureListener, CheckCreatedListener, PersistResult, PublishVIP
<1>10. CASE \/ RefuseAmbiguousCleanup \/ ConfirmListenerGone \/ CleanVIP \/ CleanLB
            \/ ConfirmLBGone \/ RemoveFinalizer
  BY <1>2, <1>10 DEF RefuseAmbiguousCleanup, ConfirmListenerGone, CleanVIP, CleanLB,
     ConfirmLBGone, RemoveFinalizer
<1> QED
  BY <1>3, <1>4, <1>5, <1>6, <1>7, <1>8, <1>9, <1>10 DEF Next, Worker, Ensure, Cleanup

(* ListenerIsolation: however passes are interleaved with lagging caches,    *)
(* lost calls, failing resources and users, the worker asks CMP to delete a  *)
(* listener only if the Service of the pass created it.                      *)
THEOREM OnlyOwnListenersDeleted == Spec => ListenerIsolation
<1>1. ASSUME BridgeInv, [Next]_vars
      PROVE  [\A v \in VsIds : vss'[v].st = "deleting" /\ vss[v].st # "deleting" =>
                                  vss[v].by = w.svc]_vars
  <2>1. CASE Next
    BY <1>1, <2>1, StepIsolates
  <2>2. CASE UNCHANGED vars
    BY <2>2
  <2> QED
    BY <1>1, <2>1, <2>2
<1> QED
  BY <1>1, BridgeInvariant, PTL DEF Spec, ListenerIsolation

=============================================================================

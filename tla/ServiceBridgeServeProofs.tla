----------------------- MODULE ServiceBridgeServeProofs -----------------------
(* What TLAPS proves of the resources a Service ends up with, for every      *)
(* instance of ServiceBridge: CMP never holds two LBServices of one Service  *)
(* or two listeners for one of its ports, and a VIP is shown only behind     *)
(* listeners that were ready.                                                *)
EXTENDS ServiceBridgeProofs, FiniteSetTheorems

-----------------------------------------------------------------------------
(* What the steps of the model have in common.                               *)

(* An existing LBService keeps its name and its status goes forward.         *)
LbsKeeps ==
    \A l \in LbIds : \/ lbs'[l].st = "absent"
                     \/ Ages(lbs[l].st, lbs'[l].st) /\ lbs'[l].name = lbs[l].name

(* Users may delete a Service: then its annotations may go.  Nobody but the  *)
(* worker changes those of a Service that stays, or its finalizer.           *)
ObjectsKept ==
    \A s \in Services :
        /\ obj'[s].fin = obj[s].fin
        /\ obj'[s].there => obj[s].there /\ ann'[s] = ann[s]
        /\ (obj[s].fin => obj[s].there) => (obj'[s].fin => obj'[s].there)
        /\ ann'[s] \in {ann[s], NoAnnotations}
        /\ status'[s] \in {status[s], NoId}

(* The steps that are not the worker's, and a key the worker drops.          *)
ProviderStep ==
    /\ UnchangedBridge
    /\ \/ \E l \in LbIds : LBSettles(l) \/ LBDeleted(l) \/ LBFails(l) \/ LBLost(l)
       \/ \E v \in VipIds : VIPSettles(v) \/ VIPFails(v) \/ VIPLost(v)
       \/ \E v \in VsIds : VSSettles(v) \/ VSDeleted(v) \/ VSFails(v) \/ VSLost(v)
UserStep ==
    \E s \in Services : ChangeType(s) \/ ChangePorts(s) \/ ChangeBackends(s) \/ DeleteService(s)
Outside ==
    \/ ProviderStep \/ UserStep \/ UNCHANGED vars
    \/ \E s \in Services : InformerSync(s) \/ Resync(s) \/ IgnoreService(s)

(* The steps of the worker, by what they do to its pass. *)
FirstStep == (\E s \in Services : BeginEnsure(s) \/ BeginCleanup(s)) \/ EnsureFinalizer \/ LoadObserved
LBStep ==
    \/ GetRecordedLB \/ DeleteFailedLB \/ FindLBByName \/ CreateLB \/ CheckCreatedLB
    \/ PersistCheckpoint \/ BumpRepairs
VIPStep == RecoverByName \/ EnsureVIP \/ DeleteFailedVIP \/ CreateVIP
ListenerStep ==
    \/ (\E p \in Ports : EnsureListener(p)) \/ DeleteListener \/ CreateListener
    \/ CheckCreatedListener \/ DeleteObsoleteListener
LastStep == PersistResult \/ PublishVIP
BrokenOff == CallRefused \/ FailedCall

(* Every step is one of these.                                               *)
LEMMA StepKinds ==
    ASSUME [Next]_vars
    PROVE  \/ Outside \/ FirstStep \/ LBStep \/ VIPStep \/ ListenerStep \/ LastStep
           \/ Cleanup \/ BrokenOff
<1>1. ASSUME NEW l \in LbIds, LBSettles(l) \/ LBDeleted(l) \/ LBFails(l) \/ LBLost(l)
      PROVE  UnchangedBridge
  BY <1>1 DEF LBSettles, LBDeleted, LBFails, LBLost
<1>2. ASSUME NEW v \in VipIds, VIPSettles(v) \/ VIPFails(v) \/ VIPLost(v)
      PROVE  UnchangedBridge
  BY <1>2 DEF VIPSettles, VIPFails, VIPLost
<1>3. ASSUME NEW v \in VsIds, VSSettles(v) \/ VSDeleted(v) \/ VSFails(v) \/ VSLost(v)
      PROVE  UnchangedBridge
  BY <1>3 DEF VSSettles, VSDeleted, VSFails, VSLost
<1>4. CASE UNCHANGED vars
  BY <1>4 DEF Outside
<1>5. CASE Provider
  BY <1>1, <1>2, <1>3, <1>5 DEF Provider, Outside, ProviderStep
<1>6. CASE Disturbance
  BY <1>1, <1>2, <1>3, <1>6 DEF Disturbance, Outside, ProviderStep, UserStep, BrokenOff
<1>7. CASE Worker
  BY <1>7 DEF Worker, StartPass, Ensure, Outside, FirstStep, LBStep, VIPStep, ListenerStep,
     LastStep, BrokenOff
<1>8. CASE \E s \in Services : InformerSync(s) \/ Resync(s)
  BY <1>8 DEF Outside
<1> QED
  BY <1>4, <1>5, <1>6, <1>7, <1>8 DEF Next

(* No LBService comes or comes back but by a create. *)
LEMMA LBDeleteKeeps ==
    ASSUME TypeOK, NEW x, LBDeleteAccepted(x)
    PROVE  LbsKeeps
<1>1. lbs \in [LbIds -> LBRecord]
  BY DEF TypeOK, CMPTypeOK
<1>2. ASSUME NEW l \in LbIds, l # x PROVE lbs'[l] = lbs[l]
  BY <1>1, <1>2 DEF LBDeleteAccepted
<1>3. ASSUME x \in LbIds
      PROVE  \/ lbs'[x] = lbs[x]
             \/ /\ Visible(lbs[x].st) /\ lbs'[x].st = "deleting" /\ lbs'[x].name = lbs[x].name
  BY <1>1, <1>3 DEF LBDeleteAccepted, LBRecord, LBVisible
<1> QED
  BY <1>2, <1>3 DEF LbsKeeps, Ages, Live, Visible

(* An inventory nobody touches keeps everything.                             *)
LEMMA UntouchedKeeps == UNCHANGED lbs => LbsKeeps
BY DEF LbsKeeps, Ages

(* CMP on its own makes no LBService and takes no deletion back.             *)
LEMMA ProviderKeepsLBs ==
    ASSUME TypeOK, ProviderStep
    PROVE  LbsKeeps
<1>1. lbs \in [LbIds -> LBRecord]
  BY DEF TypeOK, CMPTypeOK
<1>2. ASSUME NEW l \in LbIds, LBGone(l) PROVE LbsKeeps
  BY <1>1, <1>2 DEF LBGone, LbsKeeps, NoLB, Ages
<1>3. ASSUME NEW l \in LbIds, NEW from \in {"hidden", "pending", "ready"},
             NEW to \in {"pending", "ready", "failed"},
             to = "pending" => from = "hidden", to = "ready" => from = "pending",
             LBBecomes(l, from, to)
      PROVE  LbsKeeps
  BY <1>1, <1>3 DEF LBBecomes, LbsKeeps, LBRecord, Ages, Live
<1>4. ASSUME NEW l \in LbIds, LBSettles(l) \/ LBDeleted(l) \/ LBFails(l) \/ LBLost(l)
      PROVE  LbsKeeps
  BY <1>2, <1>3, <1>4 DEF LBSettles, LBDeleted, LBFails, LBLost
<1>5. ASSUME NEW v \in VipIds, VIPSettles(v) \/ VIPFails(v) \/ VIPLost(v)
      PROVE  LbsKeeps
  BY <1>5, UntouchedKeeps DEF VIPSettles, VIPFails, VIPLost, VIPBecomes
<1>6. ASSUME NEW v \in VsIds, VSSettles(v) \/ VSDeleted(v) \/ VSFails(v) \/ VSLost(v)
      PROVE  LbsKeeps
  BY <1>6, UntouchedKeeps DEF VSSettles, VSDeleted, VSFails, VSLost, VSBecomes, VSGone
<1> QED
  BY <1>4, <1>5, <1>6 DEF ProviderStep

(* What users do to the Services.                                            *)
LEMMA UserKeeps ==
    ASSUME TypeOK, UserStep
    PROVE  UNCHANGED <<pc, w, lbs, vips, vss, seen>> /\ ObjectsKept
<1>1. PICK s \in Services : ChangeType(s) \/ ChangePorts(s) \/ ChangeBackends(s) \/ DeleteService(s)
  BY DEF UserStep
<1>2. obj \in [Services -> Object] /\ ann \in [Services -> Annotations]
      /\ status \in [Services -> VipIds \cup {NoId}] /\ obj[s] \in Object
  BY DEF TypeOK
<1>3. CASE DeleteService(s)
  <2>1. /\ obj[s].there /\ obj' = [obj EXCEPT ![s] = [obj[s] EXCEPT !.del = TRUE, !.there = obj[s].fin]]
    BY <1>3 DEF DeleteService, UserChange
  <2>2. obj'[s].fin = obj[s].fin /\ obj'[s].there = obj[s].fin
    BY <1>2, <2>1 DEF Object
  <2>3. \A t \in Services : t # s => obj'[t] = obj[t]
    BY <1>2, <2>1
  <2>4. /\ \A t \in Services : t # s => ann'[t] = ann[t] /\ status'[t] = status[t]
        /\ ann'[s] \in {ann[s], NoAnnotations} /\ status'[s] \in {status[s], NoId}
        /\ obj[s].fin => ann'[s] = ann[s]
    BY <1>2, <1>3 DEF DeleteService
  <2>5. ObjectsKept
    BY <2>1, <2>2, <2>3, <2>4 DEF ObjectsKept
  <2> QED
    BY <1>3, <2>5 DEF DeleteService, UserChange
<1>4. ASSUME NEW o, UserChange(s, o), UNCHANGED <<ann, status>>,
             o.fin = obj[s].fin, o.there = obj[s].there
      PROVE  UNCHANGED <<pc, w, lbs, vips, vss, seen>> /\ ObjectsKept
  <2>1. \A t \in Services : obj'[t].fin = obj[t].fin /\ obj'[t].there = obj[t].there
    BY <1>2, <1>4 DEF UserChange
  <2> QED
    BY <1>4, <2>1 DEF UserChange, ObjectsKept
<1>5. CASE ChangeType(s)
  <2> DEFINE o == [obj[s] EXCEPT !.eligible = ~@]
  <2>1. o.fin = obj[s].fin /\ o.there = obj[s].there
    BY <1>2 DEF Object
  <2>2. UserChange(s, o) /\ UNCHANGED <<ann, status>>
    BY <1>5 DEF ChangeType
  <2> HIDE DEF o
  <2> QED
    BY <1>4, <2>1, <2>2
<1>6. CASE ChangePorts(s)
  <2>1. PICK P \in SUBSET Ports : UserChange(s, [obj[s] EXCEPT !.ports = P])
    BY <1>6 DEF ChangePorts
  <2> DEFINE o == [obj[s] EXCEPT !.ports = P]
  <2>2. o.fin = obj[s].fin /\ o.there = obj[s].there
    BY <1>2 DEF Object
  <2> HIDE DEF o
  <2> QED
    BY <1>4, <1>6, <2>1, <2>2 DEF ChangePorts, o
<1>7. CASE ChangeBackends(s)
  <2>1. PICK h \in Digests : UserChange(s, [obj[s] EXCEPT !.hash = h])
    BY <1>7 DEF ChangeBackends
  <2> DEFINE o == [obj[s] EXCEPT !.hash = h]
  <2>2. o.fin = obj[s].fin /\ o.there = obj[s].there
    BY <1>2 DEF Object
  <2> HIDE DEF o
  <2> QED
    BY <1>4, <1>7, <2>1, <2>2 DEF ChangeBackends, o
<1> QED
  BY <1>1, <1>3, <1>5, <1>6, <1>7

(* A step that is not the worker's leaves its pass alone.                    *)
LEMMA OutsideFacts ==
    ASSUME TypeOK, Outside
    PROVE  UNCHANGED <<pc, w>> /\ LbsKeeps /\ VssKeeps /\ ObjectsKept
<1>1. UNCHANGED <<obj, ann, status>> => ObjectsKept
  BY DEF ObjectsKept
<1>2. CASE ProviderStep
  BY <1>1, <1>2, ProviderKeepsLBs, ProviderKeeps DEF ProviderStep, UnchangedBridge
<1>3. CASE UserStep
  BY <1>3, UserKeeps, UntouchedKeeps, UnchangedKeeps
<1>4. CASE UNCHANGED vars \/ \E s \in Services : InformerSync(s) \/ Resync(s) \/ IgnoreService(s)
  BY <1>1, <1>4, UntouchedKeeps, UnchangedKeeps
  DEF vars, InformerSync, Resync, IgnoreService
<1> QED
  BY <1>2, <1>3, <1>4 DEF Outside

-----------------------------------------------------------------------------
(* The worker's steps, by what they change at CMP and where they lead.       *)

(* A pass that is cut off leaves nothing in the worker.                      *)
LEMMA ReturnIdles == \A again : Return(again) => pc' = "idle" /\ w' = IdleWork
BY DEF Return

(* The steps that read only, or write only to Kubernetes.                    *)
LEMMA QuietSteps ==
    ASSUME \/ FirstStep \/ LastStep \/ BrokenOff \/ GetRecordedLB \/ FindLBByName
           \/ CheckCreatedLB \/ PersistCheckpoint \/ BumpRepairs \/ VIPStep
           \/ (\E p \in Ports : EnsureListener(p)) \/ CheckCreatedListener
    PROVE  UNCHANGED <<lbs, vss>>
BY DEF FirstStep, LastStep, BrokenOff, VIPStep, BeginEnsure, BeginCleanup, EnsureFinalizer,
   LoadObserved, GetRecordedLB, FindLBByName, CheckCreatedLB, PersistCheckpoint, BumpRepairs,
   PatchAnnotations, RecoverByName, EnsureVIP, DeleteFailedVIP, CreateVIP, EnsureListener,
   CheckCreatedListener, PersistResult, PublishVIP, CallRefused, FailedCall

(* The clean-up deletes; it never creates.                                   *)
LEMMA CleanupKeeps == TypeOK /\ Cleanup => LbsKeeps /\ VssKeeps
<1> SUFFICES ASSUME TypeOK, Cleanup PROVE LbsKeeps /\ VssKeeps
  OBVIOUS
<1>1. CASE CleanListener
  BY <1>1, DeleteKeeps, UntouchedKeeps, UnchangedKeeps DEF CleanListener
<1>2. CASE CleanLB
  BY <1>2, LBDeleteKeeps, UnchangedKeeps DEF CleanLB
<1>3. CASE RefuseAmbiguousCleanup \/ ConfirmListenerGone \/ CleanVIP \/ ConfirmLBGone
           \/ RemoveFinalizer
  BY <1>3, UntouchedKeeps, UnchangedKeeps
  DEF RefuseAmbiguousCleanup, ConfirmListenerGone, CleanVIP, ConfirmLBGone, RemoveFinalizer
<1> QED
  BY <1>1, <1>2, <1>3 DEF Cleanup

(* Only CreateLB makes an LBService, only CreateListener a listener.         *)
LEMMA OnlyCreatesAdd ==
    ASSUME TypeOK, [Next]_vars
    PROVE  (LbsKeeps \/ CreateLB) /\ (VssKeeps \/ CreateListener)
<1>1. UNCHANGED <<lbs, vss>> => LbsKeeps /\ VssKeeps
  BY UntouchedKeeps, UnchangedKeeps
<1>2. CASE Outside
  BY <1>2, OutsideFacts
<1>3. CASE FirstStep \/ VIPStep \/ LastStep \/ BrokenOff
  BY <1>1, <1>3, QuietSteps
<1>4. CASE LBStep
  <2>1. DeleteFailedLB => LbsKeeps /\ VssKeeps
    BY LBDeleteKeeps, UnchangedKeeps DEF DeleteFailedLB
  <2>2. CreateLB => VssKeeps
    BY UnchangedKeeps DEF CreateLB
  <2> QED
    BY <1>1, <1>4, <2>1, <2>2, QuietSteps DEF LBStep
<1>5. CASE ListenerStep
  <2>1. DeleteListener \/ DeleteObsoleteListener => LbsKeeps /\ VssKeeps
    BY DeleteKeeps, UntouchedKeeps DEF DeleteListener, DeleteObsoleteListener
  <2>2. CreateListener => LbsKeeps
    BY UntouchedKeeps DEF CreateListener
  <2> QED
    BY <1>1, <1>5, <2>1, <2>2, QuietSteps DEF ListenerStep
<1>6. CASE Cleanup
  BY <1>6, CleanupKeeps
<1> QED
  BY <1>2, <1>3, <1>4, <1>5, <1>6, StepKinds

(* A create comes straight after the look-up by name.                        *)
LEMMA LookupComesFirst ==
    ASSUME TypeOK, [Next]_vars
    PROVE  /\ pc' = "lb-create" => UNCHANGED <<pc, w>> \/ FindLBByName
           /\ pc' = "vs-create" => \/ UNCHANGED <<pc, w>>
                                   \/ \E p \in Ports : EnsureListener(p)
<1>1. CASE Outside
  BY <1>1, OutsideFacts
<1>2. CASE FirstStep
  BY <1>2 DEF FirstStep, BeginEnsure, BeginCleanup, EnsureFinalizer, LoadObserved, Continue
<1>3. CASE LBStep
  BY <1>3, ReturnIdles
  DEF LBStep, GetRecordedLB, DeleteFailedLB, FindLBByName, CreateLB, CheckCreatedLB,
      PersistCheckpoint, CheckpointNext, BumpRepairs, Continue
<1>4. CASE VIPStep
  BY <1>4, ReturnIdles
  DEF VIPStep, RecoverByName, EnsureVIP, DeleteFailedVIP, CreateVIP, UseVIP, Continue
<1>5. CASE ListenerStep
  BY <1>5, ReturnIdles
  DEF ListenerStep, EnsureListener, DeleteListener, CreateListener, CheckCreatedListener,
      DeleteObsoleteListener, Continue
<1>6. CASE LastStep
  BY <1>6 DEF LastStep, PersistResult, PublishVIP
<1>7. CASE Cleanup
  BY <1>7, ReturnIdles
  DEF Cleanup, RefuseAmbiguousCleanup, CleanListener, ConfirmListenerGone, CleanVIP, AfterVIPs,
      CleanLB, ConfirmLBGone, RemoveFinalizer, Continue
<1>8. CASE BrokenOff
  BY <1>8, ReturnIdles DEF BrokenOff, CallRefused, FailedCall
<1> QED
  BY <1>1, <1>2, <1>3, <1>4, <1>5, <1>6, <1>7, <1>8, StepKinds

-----------------------------------------------------------------------------
(* One LBService per Service, one listener per port.                         *)

(* With reads that see every create: when a create is due, CMP holds nothing *)
(* of that name but what it was asked to delete, because the worker has just *)
(* looked and nobody else creates under the Service's name.                  *)
LookInv ==
    /\ \A l \in LbIds : lbs[l].st # "hidden"
    /\ \A v \in VsIds : vss[v].st # "hidden"
    /\ pc = "lb-create" => LBsNamed(w.svc) = {}
    /\ pc = "vs-create" => ListenersNamed(w.svc, NextPort) = {}

(* At most one of a kind, said of the elements. *)
OneLB ==
    \A l, m \in LbIds :
        Live(lbs[l].st) /\ Live(lbs[m].st) /\ lbs[l].name = lbs[m].name
            /\ lbs[l].name \in Services => l = m
OneListener ==
    \A u, v \in VsIds :
        Live(vss[u].st) /\ Live(vss[v].st) /\ vss[u].by = vss[v].by
            /\ vss[u].lb = vss[v].lb /\ vss[u].port = vss[v].port => u = v
UniqueInv == LookInv /\ OneLB /\ OneListener

(* The port EnsureListener is at is the one CreateListener takes.            *)
LEMMA NextPortIs ==
    ASSUME TypeOK, NEW p \in w.todo, \A q \in w.todo : p <= q
    PROVE  NextPort = p
<1>1. w.todo \subseteq Nat
  BY IdAssumption DEF TypeOK, Work
<1>2. \A x \in w.todo : (\A q \in w.todo : x <= q) => x = p
  BY <1>1
<1> QED
  BY <1>2 DEF NextPort

(* Two of a kind would have been found by the look-up before the create.     *)
LEMMA CreateLBUnique ==
    ASSUME TypeOK, LookInv, OneLB, CreateLB
    PROVE  OneLB'
<1>1. PICK x \in LbIds : LBAccepted(x, w.svc)
  BY DEF CreateLB
<1>2. pc = "lb-create" /\ LBsNamed(w.svc) = {}
  BY DEF CreateLB, LookInv
<1>3. lbs \in [LbIds -> LBRecord]
  BY DEF TypeOK, CMPTypeOK
<1>4. lbs'[x].name = w.svc /\ \A l \in LbIds : l # x => lbs'[l] = lbs[l]
  BY <1>1, <1>3 DEF LBAccepted
<1>5. \A l \in LbIds : Live(lbs[l].st) => lbs[l].name # w.svc
  BY <1>2 DEF LookInv, LBsNamed, Live, Visible
<1> QED
  BY <1>4, <1>5 DEF OneLB

(* The same for a listener.                                                  *)
LEMMA CreateListenerUnique ==
    ASSUME TypeOK, LookInv, OneListener, CreateListener
    PROVE  OneListener'
<1> DEFINE r == [NoVS EXCEPT !.lb = w.lb, !.vip = w.vip, !.by = w.svc, !.port = NextPort,
                             !.hash = w.hash]
<1>1. PICK x \in VsIds : VSAccepted(x, r)
  BY DEF CreateListener
<1>2. pc = "vs-create" /\ ListenersNamed(w.svc, NextPort) = {}
  BY DEF CreateListener, LookInv
<1>3. vss \in [VsIds -> VSRecord]
  BY DEF TypeOK, CMPTypeOK
<1>4. /\ vss'[x].lb = w.lb /\ vss'[x].by = w.svc /\ vss'[x].port = NextPort
      /\ \A v \in VsIds : v # x => vss'[v] = vss[v]
  <2>1. PICK st \in Born : vss' = [vss EXCEPT ![x] = [r EXCEPT !.st = st]]
    BY <1>1 DEF VSAccepted
  <2>2. LET new == [r EXCEPT !.st = st] IN
           new.lb = w.lb /\ new.by = w.svc /\ new.port = NextPort
    BY DEF NoVS
  <2> HIDE DEF r
  <2> QED
    BY <1>3, <2>1, <2>2
<1>5. \A v \in VsIds : Live(vss[v].st) =>
         ~(vss[v].lb = w.lb /\ vss[v].by = w.svc /\ vss[v].port = NextPort)
  BY <1>2 DEF LookInv, ListenersNamed, ListenersOn, Live, Visible
<1> QED
  BY <1>4, <1>5 DEF OneListener

(* What is there only gets less, so it stays unique.                         *)
LEMMA KeptUnique ==
    ASSUME TypeOK
    PROVE  (LbsKeeps /\ OneLB => OneLB') /\ (VssKeeps /\ OneListener => OneListener')
BY DEF LbsKeeps, VssKeeps, OneLB, OneListener, Ages, Live

(* Nothing is born unreadable.                                               *)
LEMMA NextReadable ==
    ASSUME TypeOK, LookInv, "hidden" \notin Born, [Next]_vars
    PROVE  /\ \A l \in LbIds : lbs'[l].st # "hidden"
           /\ \A v \in VsIds : vss'[v].st # "hidden"
<1>1. lbs \in [LbIds -> LBRecord] /\ vss \in [VsIds -> VSRecord]
  BY DEF TypeOK, CMPTypeOK
<1>2. LbsKeeps => \A l \in LbIds : lbs'[l].st # "hidden"
  BY DEF LookInv, LbsKeeps, Ages
<1>3. VssKeeps => \A v \in VsIds : vss'[v].st # "hidden"
  BY DEF LookInv, VssKeeps, Ages
<1>4. CreateLB => \A l \in LbIds : lbs'[l].st # "hidden"
  BY <1>1 DEF LookInv, CreateLB, LBAccepted
<1>5. ASSUME CreateListener PROVE \A v \in VsIds : vss'[v].st # "hidden"
  <2> DEFINE r == [NoVS EXCEPT !.lb = w.lb, !.vip = w.vip, !.by = w.svc, !.port = NextPort,
                               !.hash = w.hash]
  <2>1. PICK x \in VsIds, st \in Born : vss' = [vss EXCEPT ![x] = [r EXCEPT !.st = st]]
    BY <1>5 DEF CreateListener, VSAccepted
  <2>2. [r EXCEPT !.st = st].st = st
    BY DEF NoVS
  <2> HIDE DEF r
  <2> QED
    BY <1>1, <2>1, <2>2 DEF LookInv
<1> QED
  BY <1>2, <1>3, <1>4, <1>5, OnlyCreatesAdd

(* The look-ups.  Between look-up and create only others move, and they make *)
(* nothing.                                                                  *)
LEMMA NextLook ==
    ASSUME TypeOK, LookInv, "hidden" \notin Born, [Next]_vars
    PROVE  LookInv'
<1>1. lbs \in [LbIds -> LBRecord] /\ vss \in [VsIds -> VSRecord]
  BY DEF TypeOK, CMPTypeOK
<1>2. pc' = "lb-create" => (LBsNamed(w.svc) = {})'
  <2>1. CASE UNCHANGED <<pc, w>> /\ LbsKeeps /\ pc' = "lb-create"
    <3>1. \A l \in LbIds : Visible(lbs'[l].st) =>
                              Visible(lbs[l].st) /\ lbs'[l].name = lbs[l].name
      BY <1>1, <2>1 DEF LookInv, LbsKeeps, Ages, Visible, LBRecord, Statuses
    <3> QED
      BY <2>1, <3>1 DEF LookInv, LBsNamed
  <2>2. CASE FindLBByName
    BY <2>2, ReturnIdles DEF FindLBByName, Continue, LBsNamed
  <2>3. CASE CreateLB
    BY <2>3 DEF CreateLB, Continue
  <2> QED
    BY <2>1, <2>2, <2>3, LookupComesFirst, OnlyCreatesAdd
<1>3. pc' = "vs-create" => (ListenersNamed(w.svc, NextPort) = {})'
  <2>1. CASE UNCHANGED <<pc, w>> /\ VssKeeps /\ pc' = "vs-create"
    <3>1. NextPort' = NextPort
      BY <2>1 DEF NextPort
    <3>2. \A v \in VsIds : Visible(vss'[v].st) =>
             /\ Visible(vss[v].st) /\ vss'[v].by = vss[v].by
             /\ vss'[v].lb = vss[v].lb /\ vss'[v].port = vss[v].port
      BY <1>1, <2>1 DEF LookInv, VssKeeps, Ages, Visible, VSRecord, Statuses
    <3> QED
      BY <2>1, <3>1, <3>2 DEF LookInv, ListenersNamed, ListenersOn
  <2>2. ASSUME NEW p \in Ports, EnsureListener(p), pc' = "vs-create"
        PROVE  (ListenersNamed(w.svc, NextPort) = {})'
    <3>1. /\ w' = w /\ vss' = vss /\ p \in w.todo /\ \A q \in w.todo : p <= q
          /\ CurrentListener(p) = NoId /\ RecordedListener(p) = NoId
      BY <2>2, ReturnIdles DEF EnsureListener, Continue
    <3>2. NextPort = p
      BY <3>1, NextPortIs
    <3>3. ListenersNamed(w.svc, p) = {}
      <4>1. ListenersNamed(w.svc, p) \subseteq VsIds
        BY DEF ListenersNamed, ListenersOn
      <4> QED
        BY <3>1, <4>1, IdAssumption DEF CurrentListener
    <3> QED
      BY <3>1, <3>2, <3>3 DEF ListenersNamed, ListenersOn, NextPort
  <2>3. CASE CreateListener
    BY <2>3 DEF CreateListener, Continue
  <2> QED
    BY <2>1, <2>2, <2>3, LookupComesFirst, OnlyCreatesAdd
<1> QED
  BY <1>2, <1>3, NextReadable DEF LookInv

(* At the start CMP holds what users made, under no Service's name.          *)
LEMMA InitUnique == Init => UniqueInv
<1> SUFFICES ASSUME Init PROVE UniqueInv
  OBVIOUS
<1>1. /\ \A l \in LbIds : lbs[l] \in {NoLB, [st |-> "ready", name |-> User]}
      /\ \A v \in VsIds : vss[v] = NoVS
      /\ pc = "idle"
  BY DEF Init, CMPInit
<1>2. \A l \in LbIds : lbs[l].name \notin Services /\ lbs[l].st # "hidden"
  BY <1>1, UserAssumption, NameAssumption DEF NoLB
<1>3. \A v \in VsIds : vss[v].st = "absent"
  BY <1>1 DEF NoVS
<1> QED
  BY <1>1, <1>2, <1>3 DEF UniqueInv, LookInv, OneLB, OneListener, Live

(* The look-ups and the uniqueness together are inductive.                   *)
LEMMA UniqueInvariant == ASSUME "hidden" \notin Born PROVE Spec => []UniqueInv
<1>1. TypeOK /\ UniqueInv /\ [Next]_vars => UniqueInv'
  BY NextLook, OnlyCreatesAdd, KeptUnique, CreateLBUnique, CreateListenerUnique DEF UniqueInv
<1> QED
  BY <1>1, InitUnique, TypeCorrect, PTL DEF Spec

(* A set whose elements are all equal is empty or a singleton.               *)
LEMMA AllEqualAtMostOne ==
    ASSUME NEW S, \A x, y \in S : x = y
    PROVE  Cardinality(S) <= 1
<1>1. CASE S = {}
  BY <1>1, FS_EmptySet
<1>2. CASE S # {}
  <2>1. PICK x \in S : S = {x}
    BY <1>2
  <2>2. Cardinality({x}) = 1
    BY FS_Singleton
  <2> QED
    BY <2>1, <2>2
<1> QED
  BY <1>1, <1>2

(* All equal, hence at most one, for the LBServices of a Service.            *)
LEMMA UniqueIsOneLB == UniqueInv => OneLBPerService
<1> SUFFICES ASSUME UniqueInv, NEW s \in Services
             PROVE  Cardinality({l \in LbIds : Live(lbs[l].st) /\ lbs[l].name = s}) <= 1
  BY DEF OneLBPerService
<1> DEFINE S == {l \in LbIds : Live(lbs[l].st) /\ lbs[l].name = s}
<1>1. \A x, y \in S : x = y
  BY DEF UniqueInv, OneLB
<1> HIDE DEF S
<1>2. Cardinality(S) <= 1
  BY <1>1, AllEqualAtMostOne
<1> QED
  BY <1>2 DEF S

(* And for the listeners of one of its ports.                                *)
LEMMA UniqueIsOneListener == UniqueInv => OneListenerPerPort
<1> SUFFICES ASSUME UniqueInv, NEW s \in Services, NEW l \in LbIds, NEW p \in Ports
             PROVE  Cardinality({v \in VsIds : /\ Live(vss[v].st) /\ vss[v].lb = l
                                               /\ vss[v].by = s /\ vss[v].port = p}) <= 1
  BY DEF OneListenerPerPort
<1> DEFINE S == {v \in VsIds : /\ Live(vss[v].st) /\ vss[v].lb = l
                               /\ vss[v].by = s /\ vss[v].port = p}
<1>1. \A x, y \in S : x = y
  BY DEF UniqueInv, OneListener
<1> HIDE DEF S
<1>2. Cardinality(S) <= 1
  BY <1>1, AllEqualAtMostOne
<1> QED
  BY <1>2 DEF S

(* Whatever passes are cut short, answers lost and caches lag, CMP never     *)
(* holds two LBServices of one Service that nobody asked to delete, provided *)
(* a read after a create sees it.                                            *)
THEOREM NoSecondLBService == ASSUME "hidden" \notin Born PROVE Spec => []OneLBPerService
BY UniqueIsOneLB, UniqueInvariant, PTL

(* Under the same condition a Service never has two listeners on one port of *)
(* an LBService: what an aborted pass created is found again by its name.    *)
THEOREM NoSecondListener == ASSUME "hidden" \notin Born PROVE Spec => []OneListenerPerPort
BY UniqueIsOneListener, UniqueInvariant, PTL

-----------------------------------------------------------------------------
(* A VIP is shown only behind its listeners.                                 *)

(* The calls of a pass whose LBService is ready, and those of one whose VIP  *)
(* is chosen.                                                                *)
ServePCs   == {"listener", "vs-create", "vs-check", "vs-delete", "publish"}
SettledPCs == {"bump", "recover", "vip", "vip-delete", "vip-create"} \cup ServePCs

(* The listener for port p was ready on this VIP once. *)
Serves(v, vip, p) ==
    /\ v # NoId
    /\ \/ vss[v].st = "absent"
       \/ vss[v].st \notin {"hidden", "pending"} /\ vss[v].vip = vip /\ vss[v].port = p

(* The same of a table of listeners.                                         *)
ServedIn(table, v, vip, p) ==
    /\ v # NoId
    /\ \/ table[v].st = "absent"
       \/ /\ table[v].st \notin {"hidden", "pending"}
          /\ table[v].vip = vip /\ table[v].port = p

(* Whatever CMP's own steps and a DELETE do, what was served stays so.       *)
LEMMA ServedKept ==
    ASSUME VssKeeps, NEW v \in VsIds \cup {NoId}, NEW vip, NEW p, ServedIn(vss, v, vip, p)
    PROVE  ServedIn(vss', v, vip, p)
<1>1. v \in VsIds
  BY DEF ServedIn
<1>2. CASE vss'[v].st = "absent"
  BY <1>2 DEF ServedIn
<1>3. CASE vss'[v].st # "absent"
  <2>1. Ages(vss[v].st, vss'[v].st) /\ vss'[v].port = vss[v].port /\ vss'[v].vip = vss[v].vip
    BY <1>1, <1>3 DEF VssKeeps
  <2> QED
    BY <2>1 DEF ServedIn, Ages
<1> QED
  BY <1>2, <1>3

(* Only a listener that was ready is put down for a port the pass is done    *)
(* with; from the checkpoint on the pass works on the annotations as they    *)
(* are, so the result patch leaves the listeners of this pass, not a mixture *)
(* with those of a copy it read.                                             *)
DoneServes == pc \in ServePCs => \A p \in w.ports \ w.todo : Serves(w.graph.vs[p].id, w.vip, p)
BaseIsCurrent == pc \in SettledPCs /\ obj[w.svc].there => w.base = ann[w.svc]
ResultStored ==
    pc = "publish" =>
        /\ w.todo = {}
        /\ obj[w.svc].there => ann[w.svc].vip = w.vip /\ ann[w.svc].graph.vs = w.graph.vs
FinThere == \A s \in Services : obj[s].fin => obj[s].there
ServeInv == DoneServes /\ BaseIsCurrent /\ ResultStored /\ FinThere

(* A pass that has not come so far, or is over, owes nothing.                *)
LEMMA Unsettled == pc' \notin SettledPCs => DoneServes' /\ BaseIsCurrent' /\ ResultStored'
BY DEF DoneServes, BaseIsCurrent, ResultStored, SettledPCs, ServePCs

(* The listeners the worker has put down go on serving.                      *)
LEMMA GraphServesKept ==
    ASSUME TypeOK, VssKeeps, w' = w, NEW p \in Ports, Serves(w.graph.vs[p].id, w.vip, p)
    PROVE  Serves(w.graph.vs[p].id, w.vip, p)'
<1>1. w.graph.vs[p].id \in VsIds \cup {NoId}
  BY DEF TypeOK, Work, Graph, Listener
<1>2. \A v \in VsIds \cup {NoId} : Serves(v, w.vip, p) =>
         v # NoId /\ \/ vss'[v].st = "absent"
                     \/ /\ vss'[v].st \notin {"hidden", "pending"}
                        /\ vss'[v].vip = w.vip /\ vss'[v].port = p
  BY DEF Serves, VssKeeps, Ages
<1> QED
  BY <1>1, <1>2 DEF Serves

(* A patch on top of the annotations as they are stores what it says.        *)
LEMMA PatchOnCurrent ==
    ASSUME NEW base, NEW new
    PROVE  /\ MergePatch(base, base, new).lb = new.lb
           /\ MergePatch(base, base, new).lbMode = new.lbMode
           /\ MergePatch(base, base, new).vip = new.vip
           /\ MergePatch(base, base, new).graph = new.graph
BY DEF MergePatch, MergeField

(* Others move.                                                              *)
LEMMA OutsideServe ==
    ASSUME BridgeInv, ServeInv, Outside
    PROVE  ServeInv'
<1>1. TypeOK /\ UNCHANGED <<pc, w>> /\ VssKeeps /\ ObjectsKept
  BY OutsideFacts DEF BridgeInv
<1>2. w.ports \subseteq Ports /\ (pc # "idle" => w.svc \in Services)
  BY <1>1 DEF TypeOK, Work
<1>3. DoneServes'
  BY <1>1, <1>2, GraphServesKept DEF ServeInv, DoneServes
<1>4. BaseIsCurrent' /\ ResultStored'
  BY <1>1, <1>2 DEF ServeInv, BaseIsCurrent, ResultStored, ObjectsKept, SettledPCs, ServePCs
<1>5. FinThere'
  BY <1>1 DEF ServeInv, FinThere, ObjectsKept
<1> QED
  BY <1>3, <1>4, <1>5 DEF ServeInv

(* The pass up to the choice of the VIP.                                     *)
LEMMA LeadServe ==
    ASSUME BridgeInv, ServeInv, FirstStep \/ LBStep \/ VIPStep
    PROVE  ServeInv'
<1>1. TypeOK /\ FinThere /\ w \in Work
  BY DEF BridgeInv, TypeOK, ServeInv
<1>2. obj' = obj => FinThere'
  BY <1>1 DEF FinThere
<1>3. CASE FirstStep
  <2>1. pc' \notin SettledPCs
    BY <1>3
    DEF FirstStep, BeginEnsure, BeginCleanup, EnsureFinalizer, LoadObserved, Continue, SettledPCs,
        ServePCs
  <2>2. CASE EnsureFinalizer
    <3>1. /\ pc # "idle" /\ w.svc \in Services /\ obj \in [Services -> Object]
          /\ obj[w.svc].there /\ obj' = [obj EXCEPT ![w.svc] = [obj[w.svc] EXCEPT !.fin = TRUE]]
      BY <1>1, <2>2 DEF EnsureFinalizer, TypeOK
    <3>2. obj'[w.svc].there = obj[w.svc].there
      BY <3>1 DEF Object
    <3>3. FinThere'
      BY <1>1, <3>1, <3>2 DEF FinThere
    <3> QED
      BY <2>1, <3>3, Unsettled DEF ServeInv
  <2>3. CASE obj' = obj
    BY <1>2, <2>1, <2>3, Unsettled DEF ServeInv
  <2> QED
    BY <1>3, <2>2, <2>3
    DEF FirstStep, BeginEnsure, BeginCleanup, LoadObserved, Continue
<1>4. CASE LBStep
  <2>1. obj' = obj
    BY <1>4
    DEF LBStep, GetRecordedLB, DeleteFailedLB, FindLBByName, CreateLB, CheckCreatedLB,
        PersistCheckpoint, BumpRepairs, PatchAnnotations, Continue, Return
  <2>2. CASE PersistCheckpoint /\ pc' # "idle"
    <3>1. w' = [w EXCEPT !.base = ann'[w.svc], !.graph = WithLB(w.graph)]
          /\ pc' \in {"bump", "recover"}
      BY <2>2 DEF PersistCheckpoint, CheckpointNext
    <3>2. w'.svc = w.svc /\ w'.base = ann'[w.svc]
      BY <1>1, <3>1 DEF Work
    <3> QED
      BY <1>2, <2>1, <3>1, <3>2
      DEF ServeInv, DoneServes, BaseIsCurrent, ResultStored, ServePCs
  <2>3. CASE pc' \notin SettledPCs
    BY <1>2, <2>1, <2>3, Unsettled DEF ServeInv
  <2> QED
    BY <1>4, <2>2, <2>3, ReturnIdles
    DEF LBStep, GetRecordedLB, DeleteFailedLB, FindLBByName, CreateLB, CheckCreatedLB,
        PersistCheckpoint, BumpRepairs, Continue, SettledPCs, ServePCs
<1>5. CASE VIPStep
  <2>1. UNCHANGED <<obj, ann>> /\ pc \in SettledPCs
    BY <1>5
    DEF VIPStep, RecoverByName, EnsureVIP, DeleteFailedVIP, CreateVIP, UseVIP, Continue, Return,
        SettledPCs
  <2>2. ASSUME NEW next, NEW work, Continue(next, work), work.svc = w.svc, work.base = w.base,
               next \in SettledPCs \ ServePCs \/ (next = "listener" /\ work.todo = work.ports)
        PROVE  ServeInv'
    BY <1>2, <2>1, <2>2
    DEF ServeInv, DoneServes, BaseIsCurrent, ResultStored, Continue, SettledPCs, ServePCs
  <2>3. ASSUME NEW again, Return(again) PROVE ServeInv'
    BY <1>2, <2>1, <2>3, Unsettled DEF Return, ServeInv, SettledPCs, ServePCs
  <2>4. ASSUME NEW v, NEW b, UseVIP(v, b) PROVE ServeInv'
    <3> DEFINE work == [w EXCEPT !.vip = v, !.addressed = b, !.todo = w.ports,
                                 !.graph = WithVIP(w.graph, v)]
    <3>1. work.svc = w.svc /\ work.base = w.base /\ work.todo = work.ports
      BY <1>1 DEF Work
    <3>2. Continue("listener", work)
      BY <2>4 DEF UseVIP
    <3> HIDE DEF work
    <3> QED
      BY <2>2, <3>1, <3>2
  <2>5. ASSUME NEW next \in {"vip", "vip-delete", "vip-create"}, Continue(next, w)
        PROVE  ServeInv'
    BY <2>2, <2>5 DEF SettledPCs, ServePCs
  <2>6. ASSUME NEW v, NEW g, Continue("vip", [w EXCEPT !.vip = v, !.graph = g])
        PROVE  ServeInv'
    <3> DEFINE work == [w EXCEPT !.vip = v, !.graph = g]
    <3>1. work.svc = w.svc /\ work.base = w.base
      BY <1>1 DEF Work
    <3> HIDE DEF work
    <3> QED
      BY <2>2, <2>6, <3>1 DEF work, SettledPCs, ServePCs
  <2> QED
    BY <1>5, <2>3, <2>4, <2>5, <2>6
    DEF VIPStep, RecoverByName, EnsureVIP, DeleteFailedVIP, CreateVIP
<1> QED
  BY <1>3, <1>4, <1>5

(* The pass at its listeners.                                                *)
LEMMA DoneServe ==
    ASSUME BridgeInv, ServeInv, pc \in ServePCs, UNCHANGED <<obj, ann, vss>>, NEW p \in Ports,
           NEW v \in VsIds, vss[v].st = "ready", vss[v].vip = w.vip, vss[v].port = p,
           Continue("listener", DoneWith(p, v))
    PROVE  ServeInv'
<1>1. w \in Work /\ w.graph \in Graph /\ IdAssumption
  BY IdAssumption DEF BridgeInv, TypeOK, Work
<1>2. /\ w'.svc = w.svc /\ w'.base = w.base /\ w'.vip = w.vip /\ w'.ports = w.ports
      /\ w'.todo = w.todo \ {p} /\ pc' = "listener" /\ w.ports \subseteq Ports
      /\ w'.graph.vs = [w.graph.vs EXCEPT ![p] = [id |-> v, hash |-> w.hash]]
  BY <1>1 DEF Continue, DoneWith, Work, Graph
<1>3. DoneServes'
  <2> SUFFICES ASSUME NEW q \in w.ports, q \notin w.todo \/ q = p
               PROVE  Serves(w.graph.vs[q].id, w.vip, q)'
    BY <1>2 DEF DoneServes
  <2>1. CASE q = p
    BY <1>1, <1>2, <2>1 DEF Serves, Graph
  <2>2. CASE q # p
    <3>1. w'.graph.vs[q] = w.graph.vs[q]
      BY <1>1, <1>2, <2>2 DEF Graph
    <3>2. Serves(w.graph.vs[q].id, w.vip, q)
      BY <2>2 DEF ServeInv, DoneServes
    <3> QED
      BY <1>2, <3>1, <3>2 DEF Serves
  <2> QED
    BY <2>1, <2>2
<1> QED
  BY <1>2, <1>3
  DEF ServeInv, BaseIsCurrent, ResultStored, FinThere, SettledPCs, ServePCs

(* The other steps of the pass at its listeners.                             *)
LEMMA ListenerServe ==
    ASSUME BridgeInv, ServeInv, ListenerStep
    PROVE  ServeInv'
<1>1. /\ TypeOK /\ PassInv /\ w \in Work /\ w.graph \in Graph /\ w.ports \subseteq Ports
      /\ vss \in [VsIds -> VSRecord]
  BY DEF BridgeInv, TypeOK, CMPTypeOK, Work
<1>2. UNCHANGED <<obj, ann>> /\ pc \in ServePCs \ {"publish"}
  BY DEF ListenerStep, EnsureListener, DeleteListener, CreateListener, CheckCreatedListener,
     DeleteObsoleteListener, Continue, Return, ServePCs
<1>3. ASSUME NEW again, Return(again) PROVE ServeInv'
  BY <1>2, <1>3, Unsettled DEF Return, ServeInv, FinThere, SettledPCs, ServePCs
<1>4. ASSUME NEW next \in ServePCs \ {"publish"}, NEW v,
             Continue(next, [w EXCEPT !.vs = v]) \/ Continue(next, w),
             \A p \in w.ports \ w.todo : \/ vss'[w.graph.vs[p].id] = vss[w.graph.vs[p].id]
                                         \/ VssKeeps
      PROVE  ServeInv'
  <2>1. /\ pc' = next /\ w'.svc = w.svc /\ w'.base = w.base /\ w'.vip = w.vip
        /\ w'.ports = w.ports /\ w'.todo = w.todo /\ w'.graph = w.graph
    BY <1>1, <1>4 DEF Continue, Work
  <2>2. \A p \in w.ports \ w.todo : Serves(w.graph.vs[p].id, w.vip, p)
    BY <1>2 DEF ServeInv, DoneServes
  <2>3. \A p \in Ports : w.graph.vs[p].id \in VsIds \cup {NoId}
    BY <1>1 DEF Graph, Listener
  <2>4. DoneServes'
    <3>1. ASSUME NEW p \in w.ports \ w.todo PROVE ServedIn(vss', w.graph.vs[p].id, w.vip, p)
      <4> DEFINE u == w.graph.vs[p].id
      <4>1. ServedIn(vss, u, w.vip, p) /\ u \in VsIds \cup {NoId}
        BY <1>1, <2>2, <2>3 DEF Serves, ServedIn
      <4>2. vss'[u] = vss[u] \/ VssKeeps
        BY <1>4
      <4> HIDE DEF u
      <4>3. vss'[u] = vss[u] => ServedIn(vss', u, w.vip, p)
        BY <4>1 DEF ServedIn
      <4>4. VssKeeps => ServedIn(vss', u, w.vip, p)
        BY <4>1, ServedKept
      <4>5. ServedIn(vss', u, w.vip, p)
        BY <4>2, <4>3, <4>4
      <4> QED
        BY <4>5 DEF u
    <3> QED
      BY <2>1, <3>1 DEF DoneServes, Serves, ServedIn
  <2> QED
    BY <1>2, <2>1, <2>4
    DEF ServeInv, BaseIsCurrent, ResultStored, FinThere, SettledPCs, ServePCs
<1>5. ASSUME NEW p \in Ports, EnsureListener(p) PROVE ServeInv'
  <2> DEFINE v == CurrentListener(p)
  <2>1. vss' = vss /\ VssKeeps
    BY <1>1, <1>5, UnchangedKeeps DEF EnsureListener
  <2>2. CASE Continue("vs-create", w)
    BY <1>4, <2>1, <2>2 DEF ServePCs
  <2>3. CASE Continue("vs-delete", [w EXCEPT !.vs = v])
    BY <1>4, <2>1, <2>3 DEF ServePCs
  <2>4. CASE /\ v # NoId /\ vss[v].vip = w.vip /\ vss[v].st = "ready"
             /\ Continue("listener", DoneWith(p, v))
    <3>1. v \in VsIds /\ vss[v].port = p
      BY <2>4, CurrentListenerOwned
    <3> HIDE DEF v
    <3> QED
      BY <1>2, <2>1, <2>4, <3>1, DoneServe
  <2> QED
    BY <1>3, <1>5, <2>2, <2>3, <2>4 DEF EnsureListener
<1>6. CASE DeleteListener
  BY <1>3, <1>6 DEF DeleteListener
<1>7. CASE CreateListener
  <2>1. PICK v \in UnusedVSs : /\ \E r : VSAccepted(v, r)
                               /\ Continue("vs-check", [w EXCEPT !.vs = v])
    BY <1>7 DEF CreateListener, Next0
  <2>2. \A x : x # v => vss'[x] = vss[x]
    BY <1>1, <2>1 DEF VSAccepted
  <2>3. \A p \in Ports : w.graph.vs[p].id # v
    BY DEF UnusedVSs
  <2> QED
    BY <1>1, <1>4, <2>1, <2>2, <2>3 DEF ServePCs
<1>8. CASE CheckCreatedListener
  <2>1. vss' = vss /\ VssKeeps /\ pc = "vs-check"
    BY <1>1, <1>8, UnchangedKeeps DEF CheckCreatedListener
  <2>2. /\ NextPort \in Ports /\ w.vs \in VsIds
        /\ vss[w.vs].st = "absent" \/ (vss[w.vs].vip = w.vip /\ vss[w.vs].port = NextPort)
    BY <1>1, <2>1, NextPortType DEF PassInv
  <2>3. CASE vss[w.vs].st = "ready" /\ Continue("listener", DoneWith(NextPort, w.vs))
    <3> DEFINE p == NextPort
    <3> HIDE DEF p
    <3> QED
      BY <1>2, <2>1, <2>2, <2>3, DoneServe DEF p
  <2>4. CASE Continue("vs-delete", w)
    BY <1>4, <2>1, <2>4 DEF ServePCs
  <2> QED
    BY <1>3, <1>8, <2>3, <2>4 DEF CheckCreatedListener
<1>9. CASE DeleteObsoleteListener
  <2>1. PICK p \in Obsolete : /\ VSDeleteAccepted(w.graph.vs[p].id)
                              /\ Continue("listener", [w EXCEPT !.graph.vs[p] = NoListener])
    BY <1>9 DEF DeleteObsoleteListener
  <2>2. p \in Ports \ w.ports
    BY DEF Obsolete
  <2>3. VssKeeps
    BY <1>1, <2>1, DeleteKeeps
  <2>4. /\ pc' = "listener" /\ w'.svc = w.svc /\ w'.base = w.base /\ w'.vip = w.vip
        /\ w'.ports = w.ports /\ w'.todo = w.todo
        /\ w'.graph.vs = [w.graph.vs EXCEPT ![p] = NoListener]
    BY <1>1, <2>1 DEF Continue, Work, Graph
  <2>5. \A q \in w.ports : w'.graph.vs[q] = w.graph.vs[q] /\ w.graph.vs[q].id \in VsIds \cup {NoId}
    BY <1>1, <2>2, <2>4 DEF Graph, Listener
  <2>6. DoneServes'
    <3>1. ASSUME NEW q \in w.ports \ w.todo PROVE ServedIn(vss', w.graph.vs[q].id, w.vip, q)
      <4>1. ServedIn(vss, w.graph.vs[q].id, w.vip, q)
        BY <1>2 DEF ServeInv, DoneServes, Serves, ServedIn
      <4> QED
        BY <2>3, <2>5, <4>1, ServedKept
    <3> QED
      BY <2>4, <2>5, <3>1 DEF DoneServes, Serves, ServedIn
  <2> QED
    BY <1>2, <2>4, <2>6
    DEF ServeInv, BaseIsCurrent, ResultStored, FinThere, SettledPCs, ServePCs
<1> QED
  BY <1>5, <1>6, <1>7, <1>8, <1>9 DEF ListenerStep

(* The result patch, its publication, and the passes that clean up.          *)
LEMMA LastServe ==
    ASSUME BridgeInv, ServeInv, LastStep \/ Cleanup \/ BrokenOff
    PROVE  ServeInv'
<1>1. TypeOK /\ FinThere /\ w \in Work /\ w.graph \in Graph /\ (pc # "idle" => w.svc \in Services)
      /\ ann \in [Services -> Annotations] /\ obj \in [Services -> Object]
  BY DEF BridgeInv, TypeOK, Work, ServeInv
<1>2. obj' = obj => FinThere'
  BY <1>1 DEF FinThere
<1>3. CASE PersistResult
  <2>1. /\ pc = "listener" /\ w.todo = {} /\ obj' = obj /\ vss' = vss /\ obj[w.svc].there
        /\ ann' = [ann EXCEPT ![w.svc] = Patched(ResultOf(w.base))]
    BY <1>3 DEF PersistResult, PatchAnnotations
  <2>2. w.base = ann[w.svc]
    BY <2>1 DEF ServeInv, BaseIsCurrent, SettledPCs, ServePCs
  <2>3. ResultOf(w.base).vip = w.vip /\ ResultOf(w.base).graph = DropMigratedLegacyAliases(w.graph)
    BY <1>1 DEF ResultOf, Work, Annotations
  <2>4. ann'[w.svc].vip = w.vip /\ ann'[w.svc].graph.vs = w.graph.vs
    <3>1. ann'[w.svc] = MergePatch(w.base, w.base, ResultOf(w.base))
      BY <1>1, <2>1, <2>2 DEF Patched
    <3> QED
      BY <1>1, <2>3, <3>1, PatchOnCurrent, DropAliasesType
  <2>5. CASE pc' = "idle"
    BY <1>2, <2>1, <2>5, Unsettled DEF ServeInv, SettledPCs, ServePCs
  <2>6. CASE pc' # "idle"
    <3>1. pc' = "publish" /\ w' = [w EXCEPT !.base = ann'[w.svc]]
      BY <1>3, <2>6 DEF PersistResult
    <3>2. /\ w'.svc = w.svc /\ w'.base = ann'[w.svc] /\ w'.vip = w.vip /\ w'.graph = w.graph
          /\ w'.todo = w.todo /\ w'.ports = w.ports
      BY <1>1, <3>1 DEF Work
    <3>3. DoneServes'
      BY <2>1, <3>1, <3>2 DEF ServeInv, DoneServes, Serves, ServePCs
    <3> QED
      BY <1>2, <2>1, <2>4, <3>1, <3>2, <3>3 DEF ServeInv, BaseIsCurrent, ResultStored
  <2> QED
    BY <2>5, <2>6
<1>4. CASE PublishVIP
  BY <1>2, <1>4, Unsettled DEF PublishVIP, ServeInv, SettledPCs, ServePCs
<1>5. CASE Cleanup
  <2>1. pc' \notin SettledPCs
    BY <1>5, ReturnIdles
    DEF Cleanup, RefuseAmbiguousCleanup, CleanListener, ConfirmListenerGone, CleanVIP, AfterVIPs,
        CleanLB, ConfirmLBGone, RemoveFinalizer, Continue, SettledPCs, ServePCs
  <2>2. CASE RemoveFinalizer
    <3>1. PICK b : obj' = [obj EXCEPT ![w.svc] = [obj[w.svc] EXCEPT !.fin = FALSE, !.there = b]]
      BY <1>1, <2>2 DEF RemoveFinalizer
    <3>2. w.svc \in Services /\ obj'[w.svc].fin = FALSE
      BY <1>1, <2>2, <3>1 DEF RemoveFinalizer, Object
    <3>3. FinThere'
      BY <1>1, <3>1, <3>2 DEF FinThere
    <3> QED
      BY <2>1, <3>3, Unsettled DEF ServeInv
  <2>3. CASE obj' = obj
    BY <1>2, <2>1, <2>3, Unsettled DEF ServeInv
  <2> QED
    BY <1>5, <2>2, <2>3
    DEF Cleanup, RefuseAmbiguousCleanup, CleanListener, ConfirmListenerGone, CleanVIP,
        CleanLB, ConfirmLBGone, Continue, Return
<1>6. CASE BrokenOff
  <2>1. obj' = obj /\ pc' = "idle"
    BY <1>6 DEF BrokenOff, CallRefused, FailedCall, Return
  <2> QED
    BY <1>2, <2>1, Unsettled DEF ServeInv, SettledPCs, ServePCs
<1> QED
  BY <1>3, <1>4, <1>5, <1>6 DEF LastStep

(* The pass is inductive with what it records.                               *)
LEMMA ServeInvariant == Spec => []ServeInv
<1>1. Init => ServeInv
  BY DEF Init, ServeInv, DoneServes, BaseIsCurrent, ResultStored, FinThere, SettledPCs, ServePCs
<1>2. BridgeInv /\ ServeInv /\ [Next]_vars => ServeInv'
  BY StepKinds, OutsideServe, LeadServe, ListenerServe, LastServe
<1> QED
  BY <1>1, <1>2, BridgeInvariant, PTL DEF Spec

(* What PublishedServes says of a step.                                      *)
Shown ==
    \A s \in Services : status'[s] \notin {NoId, status[s]} =>
        /\ ann[s].vip = status'[s]
        /\ \A p \in w.ports : LET v == ann[s].graph.vs[p].id IN
              /\ v # NoId /\ vss[v].st \notin {"hidden", "pending"}
              /\ vss[v].st # "absent" => vss[v].vip = status'[s] /\ vss[v].port = p

(* Only PublishVIP shows a VIP, and by then it serves.                       *)
LEMMA NextShows ==
    ASSUME BridgeInv, ServeInv, [Next]_vars
    PROVE  Shown
<1>1. status \in [Services -> VipIds \cup {NoId}]
  BY DEF BridgeInv, TypeOK
<1>2. CASE PublishVIP
  <2>1. /\ pc = "publish" /\ obj[w.svc].there /\ status' = [status EXCEPT ![w.svc] = w.vip]
        /\ ann[w.svc].vip = w.vip /\ ann[w.svc].graph.vs = w.graph.vs
    BY <1>2 DEF PublishVIP, ServeInv, ResultStored
  <2>2. \A p \in w.ports : ServedIn(vss, ann[w.svc].graph.vs[p].id, w.vip, p)
    BY <2>1 DEF ServeInv, DoneServes, ResultStored, ServePCs, Serves, ServedIn
  <2>3. ASSUME NEW s \in Services, status'[s] \notin {NoId, status[s]}
        PROVE  s = w.svc /\ status'[s] = w.vip
    BY <1>1, <2>1, <2>3
  <2>4. ASSUME NEW s \in Services, status'[s] \notin {NoId, status[s]}
        PROVE  /\ ann[s].vip = status'[s]
               /\ \A p \in w.ports : ServedIn(vss, ann[s].graph.vs[p].id, status'[s], p)
    BY <2>1, <2>2, <2>3, <2>4
  <2> QED
    BY <2>4 DEF Shown, ServedIn
<1>3. CASE \A s \in Services : status'[s] \in {NoId, status[s]}
  BY <1>3 DEF Shown
<1>4. CASE Outside
  <2>1. ObjectsKept
    BY <1>4, OutsideFacts DEF BridgeInv
  <2> QED
    BY <1>3, <2>1 DEF ObjectsKept
<1>5. CASE RemoveFinalizer
  BY <1>1, <1>3, <1>5 DEF RemoveFinalizer
<1>6. CASE status' = status
  BY <1>3, <1>6
<1>7. FirstStep \/ LBStep => status' = status
  BY DEF FirstStep, BeginEnsure, BeginCleanup, EnsureFinalizer, LoadObserved, LBStep,
     GetRecordedLB, DeleteFailedLB, FindLBByName, CreateLB, CheckCreatedLB, PersistCheckpoint,
     BumpRepairs, PatchAnnotations, Continue, Return
<1>8. VIPStep \/ ListenerStep => status' = status
  BY DEF VIPStep, RecoverByName, EnsureVIP, DeleteFailedVIP, CreateVIP, UseVIP, ListenerStep,
     EnsureListener, DeleteListener, CreateListener, CheckCreatedListener,
     DeleteObsoleteListener, Continue, Return
<1>9. LastStep \/ BrokenOff \/ Cleanup => PublishVIP \/ RemoveFinalizer \/ status' = status
  BY DEF LastStep, PersistResult, PatchAnnotations, BrokenOff, CallRefused, FailedCall, Cleanup,
     RefuseAmbiguousCleanup, CleanListener, ConfirmListenerGone, CleanVIP, CleanLB,
     ConfirmLBGone, Continue, Return
<1> QED
  BY <1>2, <1>4, <1>5, <1>6, <1>7, <1>8, <1>9, StepKinds

(* A VIP comes into status.loadBalancer only when it and, for every port of  *)
(* the pass, a listener that CMP had reported ready on it are recorded.      *)
THEOREM OnlyServedVIPPublished == Spec => PublishedServes
BY NextShows, BridgeInvariant, ServeInvariant, PTL DEF Spec, PublishedServes, Shown

=============================================================================

----------------------- MODULE ExtensionLifecycleProofs -----------------------
(* Theorems about ExtensionLifecycle, for every set of Shoots, ids and       *)
(* providerConfigs and any selection and number of faults.                   *)
EXTENDS ExtensionLifecycle, TLAPS, FiniteSetTheorems

(* -------------------------------- Types --------------------------------- *)

(* The records that stand for nothing are of their types.                    *)
LEMMA NothingTyped ==
    /\ NoIds \in IdsRecord /\ NoStatus \in StatusRecord
    /\ NoExt \in ExtRecord /\ NoCfg \in CfgRecord
    /\ NoSpec \in ProviderConfigs
<1>1. 0 \in Times
  BY ExtAssumption DEF ExtAssumption, Times
<1>2. "none" \in States
  <2>1. State("none") = "none" /\ "none" \in Whys
    BY DEF State, Whys
  <2> QED
    BY <2>1 DEF States
<1>3. NoIds \in IdsRecord
  BY DEF NoIds, IdsRecord
<1>4. NoStatus \in StatusRecord
  BY <1>1, <1>2 DEF NoStatus, StatusRecord, Whys
<1>5. NoSpec \in ProviderConfigs
  BY DEF NoSpec, ProviderConfigs
<1> QED
  BY <1>1, <1>3, <1>4, <1>5 DEF NoExt, ExtRecord, NoCfg, CfgRecord, Conditions

(* What the calls of f5client leave CMP with. *)
LEMMA EnsureLBServiceTyped ==
  ASSUME CPTypeOK, NEW s \in Shoots, NEW fresh, NEW i \in Ids, EnsureLBService(s, fresh, i)
  PROVE  CPTypeOK'
BY CPAssumption DEF CPAssumption, CPTypeOK, EnsureLBService, LBRecord

(* ensureOrFindVIP keeps the types of CMP's inventory.                       *)
LEMMA EnsureVIPTyped ==
  ASSUME CPTypeOK, NEW l \in Ids \cup {NoId}, NEW fresh, NEW i \in Ids, EnsureVIP(l, fresh, i)
  PROVE  CPTypeOK'
BY DEF CPTypeOK, EnsureVIP, VIPRecord

(* ensureOrFindVirtualServer does, too.                                      *)
LEMMA EnsureVirtualServerTyped ==
  ASSUME CPTypeOK, NEW s \in Shoots, NEW l \in Ids \cup {NoId}, NEW fresh, NEW i \in Ids,
         EnsureVirtualServer(s, l, fresh, i)
  PROVE  CPTypeOK'
BY DEF CPTypeOK, EnsureVirtualServer, VSRecord

(* So does each of the three deletions.                                      *)
LEMMA DeletionsTyped ==
  ASSUME CPTypeOK, NEW ids \in IdsRecord, DeleteVS(ids) \/ DeleteVIP(ids) \/ DeleteLB(ids)
  PROVE  CPTypeOK'
<1>1. CASE DeleteVS(ids)
  BY <1>1 DEF CPTypeOK, DeleteVS, IdsRecord, VSRecord
<1>2. CASE DeleteVIP(ids)
  BY <1>2 DEF CPTypeOK, DeleteVIP, IdsRecord, VIPRecord, NoVIP
<1>3. CASE DeleteLB(ids)
  BY <1>3 DEF CPTypeOK, DeleteLB, IdsRecord, LBRecord
<1> QED
  BY <1>1, <1>2, <1>3

(* So does what CMP does on its own.                                         *)
LEMMA CMPStepTyped ==
  ASSUME CPTypeOK, CMPStep
  PROVE  CPTypeOK'
<1>1. CASE CMPRecovers
  BY <1>1 DEF CPTypeOK, CMPRecovers
<1>2. ASSUME NEW i \in Ids, VSReady(i) PROVE CPTypeOK'
  BY <1>2 DEF CPTypeOK, VSReady, VSRecord
<1>3. ASSUME NEW i \in Ids, VSGone(i) PROVE CPTypeOK'
  BY <1>3 DEF CPTypeOK, VSGone, VSRecord, NoVS
<1>4. ASSUME NEW i \in Ids, LBGone(i) PROVE CPTypeOK'
  BY <1>4, CPAssumption
     DEF CPAssumption, CPTypeOK, LBGone, LBRecord, NoLB, VIPRecord, NoVIP, VSRecord, NoVS
<1> QED
  BY <1>1, <1>2, <1>3, <1>4 DEF CMPStep

(* The parts of ExtTypeOK: the worker, and the objects it works on. *)
WorkerOK ==
    /\ pc \in Steps /\ (pc = "idle" <=> cur = NoShoot) /\ cur \in Shoots \cup {NoShoot}
    /\ seen \in ExtRecord /\ mem \in CfgRecord /\ got \in IdsRecord /\ why \in Whys
ObjectsOK ==
    /\ ext \in [Shoots -> ExtRecord] /\ cache \in [Shoots -> ExtRecord]
    /\ cfg \in [Shoots -> CfgRecord] /\ copy \in [Shoots -> CfgRecord]
    /\ bridge \in [Shoots -> ProviderConfigs]
    /\ queue \subseteq Shoots
    /\ clock \in Times /\ faults \in 0 .. MaxFaults

(* The type invariant by who writes the variables.                           *)
LEMMA TypeParts == ExtTypeOK <=> CPTypeOK /\ WorkerOK /\ ObjectsOK
BY DEF ExtTypeOK, WorkerOK, ObjectsOK
(* The same of the next state.                                               *)
LEMMA TypePartsNext == ExtTypeOK' <=> CPTypeOK' /\ WorkerOK' /\ ObjectsOK'
BY DEF ExtTypeOK, WorkerOK, ObjectsOK

(* A worker that is done has typed locals.                                   *)
LEMMA IdleTyped == ASSUME Idle PROVE WorkerOK'
BY NothingTyped DEF Idle, WorkerOK, Steps, Whys

(* A worker that goes to its next step keeps its Shoot.                      *)
LEMMA GoToTyped ==
  ASSUME WorkerOK, pc # "idle", NEW step \in Steps \ {"idle"}, GoTo(step),
         seen' \in ExtRecord, mem' \in CfgRecord, got' \in IdsRecord, why' \in Whys
  PROVE  WorkerOK'
BY DEF WorkerOK, GoTo

(* A worker at any step but idle has a Shoot.                                *)
LEMMA Busy == ASSUME WorkerOK, pc # "idle" PROVE cur \in Shoots
BY DEF WorkerOK

(* The count of faults stays within its bound.                               *)
LEMMA FaultTyped ==
  ASSUME faults \in 0 .. MaxFaults, NEW kind, Fault(kind) \/ NoFault
  PROVE  faults' \in 0 .. MaxFaults
BY ExtAssumption DEF ExtAssumption, Fault, NoFault

(* gardenlet, the informer, the garbage collector and restarts. *)
LEMMA SurroundingsTyped ==
  ASSUME ExtTypeOK, NEW s \in Shoots,
         \/ Gardenlet(s) \/ Deliver(s) \/ DeliverConfig(s)
         \/ SecretChanged(s) \/ GarbageCollect(s)
  PROVE  ExtTypeOK'
<1>1. CPTypeOK /\ WorkerOK /\ ObjectsOK
  BY TypeParts
<1> USE ExtAssumption DEF ExtAssumption
<1>2. CASE CreateExtension(s)
  <2>1. PICK sp \in Specs :
          ext' = [ext EXCEPT ![s] = [NoExt EXCEPT !.uid = clock', !.spec = sp, !.gen = 1,
                                                  !.op = TRUE, !.ts = clock']]
    BY <1>2 DEF CreateExtension
  <2>2. clock' \in Times
    BY <1>1, <1>2 DEF CreateExtension, Asks, ObjectsOK, Times
  <2>3. [NoExt EXCEPT !.uid = clock', !.spec = sp, !.gen = 1, !.op = TRUE, !.ts = clock'] \in ExtRecord
    BY NothingTyped, <2>2 DEF ExtRecord
  <2>4. ext' \in [Shoots -> ExtRecord]
    BY <1>1, <2>1, <2>3 DEF ObjectsOK
  <2> QED
    BY <1>1, <1>2, <2>2, <2>4, TypePartsNext
       DEF CreateExtension, CPTypeOK, cpVars, WorkerOK, locals, ObjectsOK
<1>3. CASE RequestReconcile(s)
  <2>1. PICK sp \in Specs :
          ext' = [ext EXCEPT ![s] = [ext[s] EXCEPT
                      !.spec = sp, !.op = TRUE, !.ts = clock',
                      !.gen = IF sp = ext[s].spec THEN @ ELSE @ + 1]]
    BY <1>3 DEF RequestReconcile
  <2>2. clock' \in Times
    BY <1>1, <1>3 DEF RequestReconcile, Asks, ObjectsOK, Times
  <2>3. ext[s] \in ExtRecord
    BY <1>1 DEF ObjectsOK
  <2> DEFINE g == IF sp = ext[s].spec THEN ext[s].gen ELSE ext[s].gen + 1
  <2>4. g \in Nat
    BY <2>3 DEF ExtRecord
  <2>6. [ext[s] EXCEPT !.spec = sp, !.op = TRUE, !.ts = clock', !.gen = g] \in ExtRecord
    <3> HIDE DEF g
    <3> QED BY <2>2, <2>3, <2>4 DEF ExtRecord
  <2>5. ext' \in [Shoots -> ExtRecord]
    BY <1>1, <2>1, <2>3, <2>6 DEF ObjectsOK
  <2> QED
    BY <1>1, <1>3, <2>2, <2>5, TypePartsNext
       DEF RequestReconcile, CPTypeOK, cpVars, WorkerOK, locals, ObjectsOK
<1>4. CASE DeleteExtension(s)
  <2>1. PICK op \in BOOLEAN :
          ext' = [ext EXCEPT ![s] = IF ext[s].fin
                                    THEN [ext[s] EXCEPT !.deleting = TRUE, !.ts = clock',
                                                        !.op = ext[s].op \/ op]
                                    ELSE NoExt]
    BY <1>4 DEF DeleteExtension
  <2>2. clock' \in Times
    BY <1>1, <1>4 DEF DeleteExtension, Asks, ObjectsOK, Times
  <2>3. ext[s] \in ExtRecord
    BY <1>1 DEF ObjectsOK
  <2>4. (ext[s].op \/ op) \in BOOLEAN
    OBVIOUS
  <2>5. [ext[s] EXCEPT !.deleting = TRUE, !.ts = clock', !.op = ext[s].op \/ op] \in ExtRecord
    BY <2>2, <2>3, <2>4 DEF ExtRecord
  <2>6. ext' \in [Shoots -> ExtRecord]
    BY <1>1, <2>1, <2>5, NothingTyped DEF ObjectsOK
  <2> QED
    BY <1>1, <1>4, <2>2, <2>6, TypePartsNext
       DEF DeleteExtension, CPTypeOK, cpVars, WorkerOK, locals, ObjectsOK
<1>5. CASE Deliver(s)
  BY <1>1, <1>5, TypePartsNext
     DEF Deliver, Enqueue, CPTypeOK, cpVars, WorkerOK, locals, ObjectsOK
<1>6. CASE SecretChanged(s)
  BY <1>1, <1>6, TypePartsNext
     DEF SecretChanged, Enqueue, CPTypeOK, cpVars, WorkerOK, locals, ObjectsOK
<1>7. CASE GarbageCollect(s)
  BY <1>1, <1>7, TypePartsNext, NothingTyped
     DEF GarbageCollect, CPTypeOK, cpVars, WorkerOK, locals, ObjectsOK
<1>8. CASE DeliverConfig(s)
  BY <1>1, <1>8, TypePartsNext
     DEF DeliverConfig, CPTypeOK, cpVars, WorkerOK, locals, ObjectsOK
<1> QED
  BY <1>2, <1>3, <1>4, <1>5, <1>6, <1>7, <1>8 DEF Gardenlet

(* The worker takes a Shoot. *)
LEMMA TakeNextTyped ==
  ASSUME ExtTypeOK, NEW s \in Shoots, TakeNext(s)
  PROVE  ExtTypeOK'
<1>1. CPTypeOK /\ WorkerOK /\ ObjectsOK
  BY TypeParts
<1>2. CASE TakeNothing(s)
  BY <1>1, <1>2, TypePartsNext
     DEF TakeNothing, CPTypeOK, cpVars, WorkerOK, locals, ObjectsOK
<1>3. CASE AddFinalizer(s)
  <2>1. faults' \in 0 .. MaxFaults
    BY <1>1, <1>3, FaultTyped DEF AddFinalizer, ObjectsOK
  <2>2. [ext[s] EXCEPT !.fin = TRUE] \in ExtRecord
    BY <1>1 DEF ObjectsOK, ExtRecord
  <2>3. ext' = [ext EXCEPT ![s] = [ext[s] EXCEPT !.fin = TRUE]] \/ ext' = ext
    BY <1>1, <1>3 DEF AddFinalizer, ObjectsOK
  <2>4. ext' \in [Shoots -> ExtRecord]
    BY <1>1, <2>2, <2>3 DEF ObjectsOK
  <2> QED
    BY <1>1, <1>3, <2>1, <2>4, TypePartsNext
       DEF AddFinalizer, CPTypeOK, cpVars, WorkerOK, locals, ObjectsOK
<1>4. CASE Begin(s)
  <2>1. s # NoShoot
    BY CPAssumption DEF CPAssumption
  <2>2. WorkerOK'
    BY <1>1, <1>4, <2>1 DEF Begin, WorkerOK, ObjectsOK, Steps
  <2> QED
    BY <1>1, <1>4, <2>2, TypePartsNext DEF Begin, CPTypeOK, cpVars, ObjectsOK
<1> QED
  BY <1>2, <1>3, <1>4 DEF TakeNext

(* Block keeps a config's type.                                              *)
LEMMA BlockTyped == ASSUME NEW m \in CfgRecord PROVE Block(m) \in CfgRecord
BY DEF Block, CfgRecord, Conditions

(* A merge patch on a providerConfig leaves one, and one that is decoded.    *)
LEMMA MergedTyped ==
  ASSUME NEW new \in ProviderConfigs, NEW base \in ProviderConfigs, NEW old \in ProviderConfigs
  PROVE  MergedSpec(new, base, old) \in ProviderConfigs /\ MergedSpec(new, base, old).json
BY DEF MergedSpec, Sent, ProviderConfigs

(* It leaves what was wanted, if it was made against what is there.          *)
LEMMA MergedExactly ==
  ASSUME NEW new \in ProviderConfigs, NEW base \in ProviderConfigs, new.json
  PROVE  MergedSpec(new, base, base) = new
<1>1. {f \in Fields : Sent(f \in new.set, f \in base.set, f \in base.set)} = new.set
  BY DEF Sent, ProviderConfigs
<1>2. /\ Sent(new.perShoot, base.perShoot, base.perShoot) = new.perShoot
      /\ Sent(new.ready, base.ready, base.ready) = new.ready
      /\ Sent(new.app, base.app, base.app) = new.app
  BY DEF Sent
<1>3. MergedSpec(new, base, base)
        = [json |-> TRUE, perShoot |-> new.perShoot, ready |-> new.ready,
           app |-> new.app, set |-> new.set]
  BY <1>1, <1>2 DEF MergedSpec
<1>4. new.json = TRUE
  BY DEF ProviderConfigs
<1> QED
  BY <1>3, <1>4 DEF ProviderConfigs

(* A read of a config gives a typed one, and the one there is if the         *)
(* informer is not behind.                                                   *)
LEMMA CopyTyped ==
  ASSUME ObjectsOK, NEW s \in Shoots
  PROVE  Copy(s) \in CfgRecord /\ (~StaleConfigs => Copy(s) = cfg[s])
BY DEF ObjectsOK, Copy

(* ensureF5LoadBalancerConfig gives a typed config, whose providerConfig can *)
(* be decoded if the Extension's can.                                        *)
LEMMA SyncedTyped ==
  ASSUME WorkerOK, ObjectsOK, cur \in Shoots, NEW c \in CfgRecord, seen.spec.json
  PROVE  SyncedConfig(c) \in CfgRecord /\ SyncedConfig(c).spec.json
<1>1. cfg[cur] \in CfgRecord /\ seen.uid \in Times /\ seen.spec \in ProviderConfigs
      /\ c.spec \in ProviderConfigs
  BY DEF WorkerOK, ObjectsOK, ExtRecord, CfgRecord
<1>2. CASE ~c.there
  BY <1>1, <1>2, NothingTyped DEF SyncedConfig, CfgRecord, NoCfg
<1>3. CASE c.there /\ c.spec = seen.spec
  <2>1. (c # cfg[cur]) \in BOOLEAN
    OBVIOUS
  <2> QED
    BY <1>3, <2>1 DEF SyncedConfig, CfgRecord
<1>4. CASE c.there /\ c.spec # seen.spec
  <2> DEFINE sp == MergedSpec(seen.spec, c.spec, cfg[cur].spec)
             o  == Sent(seen.uid, c.owner, cfg[cur].owner)
  <2>1. sp \in ProviderConfigs /\ sp.json
    BY <1>1, MergedTyped DEF CfgRecord
  <2>2. o \in Times
    BY <1>1 DEF Sent, CfgRecord
  <2>3. SyncedConfig(c) = [cfg[cur] EXCEPT !.owner = o, !.spec = sp]
    BY <1>1, <1>4 DEF SyncedConfig, CfgRecord
  <2> HIDE DEF sp, o
  <2> QED
    BY <1>1, <2>1, <2>2, <2>3 DEF CfgRecord
<1> QED
  BY <1>2, <1>3, <1>4 DEF CfgRecord

(* ... and is the Extension's, unless the copy of the config was behind.     *)
LEMMA SyncedExactly ==
  ASSUME WorkerOK, ObjectsOK, cur \in Shoots, seen.spec.json, ~cfg[cur].late
  PROVE  SyncedConfig(cfg[cur]).spec = seen.spec /\ ~SyncedConfig(cfg[cur]).late
<1>1. cfg[cur] \in CfgRecord /\ seen.spec \in ProviderConfigs /\ cfg[cur].spec \in ProviderConfigs
  BY DEF WorkerOK, ObjectsOK, ExtRecord, CfgRecord
<1>2. MergedSpec(seen.spec, cfg[cur].spec, cfg[cur].spec) = seen.spec
  BY <1>1, MergedExactly
<1> QED
  BY <1>1, <1>2 DEF SyncedConfig, CfgRecord, NoCfg

(* The gate leaves the worker typed.                                         *)
LEMMA AppPlaneTyped ==
  ASSUME WorkerOK, pc # "idle", NEW m \in CfgRecord, AppPlane(m), UNCHANGED <<seen, got>>
  PROVE  WorkerOK' /\ queue' = queue
<1>1. mem' \in CfgRecord
  BY BlockTyped DEF AppPlane
<1>2. why' \in Whys
  BY DEF AppPlane, WorkerOK, Whys
<1>3. PICK step \in Steps \ {"idle"} : GoTo(step)
  BY DEF AppPlane, Steps
<1>4. seen' \in ExtRecord /\ got' \in IdsRecord
  BY DEF WorkerOK
<1> QED
  BY <1>1, <1>2, <1>3, <1>4, GoToTyped DEF GoTo

(* So does a control plane that cannot be had.                               *)
LEMMA CPFailsTyped ==
  ASSUME WorkerOK, pc # "idle", NEW y \in Whys, CPFails(y), UNCHANGED <<seen, got>>
  PROVE  WorkerOK' /\ queue' = queue
<1>1. [mem EXCEPT !.cp = "false"] \in CfgRecord
  BY DEF WorkerOK, CfgRecord, Conditions
<1>2. mem' \in CfgRecord
  BY <1>1, BlockTyped DEF CPFails
<1>3. seen' \in ExtRecord /\ got' \in IdsRecord /\ why' \in Whys /\ GoTo("save")
  BY DEF WorkerOK, CPFails
<1> QED
  BY <1>2, <1>3, GoToTyped DEF GoTo, Steps

(* Every return of the worker, and every step that leaves the objects alone. *)
LEMMA ReturnTyped ==
  ASSUME WorkerOK, ObjectsOK, pc # "idle", Return \/ ReturnError
  PROVE  WorkerOK' /\ queue' \subseteq Shoots
BY IdleTyped, Busy DEF Return, ReturnError, Enqueue, ObjectsOK

(* Types: the steps that ensure the config.                                  *)
LEMMA ConfigTyped ==
  ASSUME ExtTypeOK, ConfigFails \/ EnsureConfig
  PROVE  ExtTypeOK'
<1>1. CPTypeOK /\ WorkerOK /\ ObjectsOK
  BY TypeParts
<1>2. cur \in Shoots
  BY <1>1, Busy DEF ConfigFails, EnsureConfig
<1>3. CASE ConfigFails
  <2>1. WorkerOK' /\ queue' \subseteq Shoots
    BY <1>1, <1>3, ReturnTyped DEF ConfigFails
  <2>2. faults' \in 0 .. MaxFaults
    BY <1>1, <1>3, FaultTyped DEF ConfigFails, ObjectsOK
  <2> QED
    BY <1>1, <1>3, <2>1, <2>2, TypePartsNext DEF ConfigFails, CPTypeOK, cpVars, ObjectsOK
<1>4. CASE EnsureConfig
  <2> DEFINE m == SyncedConfig(Copy(cur))
  <2>1. m \in CfgRecord
    BY <1>1, <1>2, <1>4, CopyTyped, SyncedTyped DEF EnsureConfig
  <2>2. /\ cfg' = cfg \/ cfg' = [cfg EXCEPT ![cur] = m]
        /\ pc = "config" /\ UNCHANGED <<seen, got>>
    BY <1>4 DEF EnsureConfig
  <2>3. cfg' \in [Shoots -> CfgRecord]
    BY <1>1, <2>1, <2>2 DEF ObjectsOK
  <2>4. /\ [m EXCEPT !.cp = "true"] \in CfgRecord /\ [m EXCEPT !.cp = "false"] \in CfgRecord
        /\ [m EXCEPT !.cp = "true", !.vip = TRUE] \in CfgRecord
    BY <2>1 DEF CfgRecord, Conditions
  <2>5. WorkerOK' /\ queue' = queue
    <3>1. CASE \E n \in CfgRecord : AppPlane(n)
      BY <1>1, <2>2, <3>1, AppPlaneTyped
    <3>2. CASE GoTo("lb") /\ mem' = m /\ UNCHANGED why
      BY <1>1, <2>1, <2>2, <3>2, GoToTyped DEF WorkerOK, GoTo, Steps
    <3>3. CASE /\ GoTo("save") /\ why' = "config"
               /\ mem' = Block([m EXCEPT !.cp = "false"])
      BY <1>1, <2>2, <2>4, <3>3, BlockTyped, GoToTyped DEF WorkerOK, GoTo, Steps, Whys
    <3> QED
      BY <1>4, <2>4, <3>1, <3>2, <3>3 DEF EnsureConfig
  <2> QED
    BY <1>1, <1>4, <2>3, <2>5, TypePartsNext DEF EnsureConfig, CPTypeOK, cpVars, ObjectsOK
<1> QED
  BY <1>3, <1>4

(* Types: the calls that provision the control plane.                        *)
LEMMA ProvisionTyped ==
  ASSUME ExtTypeOK, EnsureLB \/ EnsureVIPPort \/ EnsureVS \/ ProvisionFails \/ CredentialsRejected
  PROVE  ExtTypeOK'
<1>1. CPTypeOK /\ WorkerOK /\ ObjectsOK
  BY TypeParts
<1>2. cur \in Shoots /\ got.lb \in Ids \cup {NoId} /\ pc # "idle"
  BY <1>1, Busy DEF EnsureLB, EnsureVIPPort, EnsureVS, ProvisionFails, CredentialsRejected,
                    WorkerOK, IdsRecord
<1>3. CASE EnsureLB
  <2>1. PICK i \in Ids : EnsureLBService(cur, Fresh("lb"), i) /\ got' = [got EXCEPT !.lb = i]
    BY <1>3 DEF EnsureLB
  <2>2. CPTypeOK'
    BY <1>1, <1>2, <2>1, EnsureLBServiceTyped
  <2>3. got' \in IdsRecord
    BY <1>1, <2>1 DEF WorkerOK, IdsRecord
  <2>4. WorkerOK'
    BY <1>1, <1>2, <1>3, <2>3, GoToTyped DEF EnsureLB, WorkerOK, Steps
  <2> QED
    BY <1>1, <1>3, <2>2, <2>4, TypePartsNext DEF EnsureLB, GoTo, ObjectsOK
<1>4. CASE EnsureVIPPort
  <2>1. PICK i \in Ids : EnsureVIP(got.lb, Fresh("vip"), i) /\ got' = [got EXCEPT !.vip = i]
    BY <1>4 DEF EnsureVIPPort
  <2>2. CPTypeOK'
    BY <1>1, <1>2, <2>1, EnsureVIPTyped
  <2>3. got' \in IdsRecord
    BY <1>1, <2>1 DEF WorkerOK, IdsRecord
  <2>4. WorkerOK'
    BY <1>1, <1>2, <1>4, <2>3, GoToTyped DEF EnsureVIPPort, WorkerOK, Steps
  <2> QED
    BY <1>1, <1>4, <2>2, <2>4, TypePartsNext DEF EnsureVIPPort, GoTo, ObjectsOK
<1>5. CASE EnsureVS
  <2>1. PICK i \in Ids :
          /\ EnsureVirtualServer(cur, got.lb, Fresh("vs"), i)
          /\ AppPlane([mem EXCEPT !.cp = "true", !.vip = TRUE, !.ids = [got EXCEPT !.vs = i]])
    BY <1>5 DEF EnsureVS
  <2>2. CPTypeOK'
    BY <1>1, <1>2, <2>1, EnsureVirtualServerTyped
  <2>3. [got EXCEPT !.vs = i] \in IdsRecord
    BY <1>1 DEF WorkerOK, IdsRecord
  <2>4. [mem EXCEPT !.cp = "true", !.vip = TRUE, !.ids = [got EXCEPT !.vs = i]] \in CfgRecord
    BY <1>1, <2>3 DEF WorkerOK, CfgRecord, Conditions
  <2>5. WorkerOK' /\ queue' = queue
    BY <1>1, <1>2, <1>5, <2>1, <2>4, AppPlaneTyped DEF EnsureVS
  <2> QED
    BY <1>1, <1>5, <2>2, <2>5, TypePartsNext DEF EnsureVS, ObjectsOK
<1>6. CASE ProvisionFails
  <2>1. CPTypeOK'
    <3>1. CASE UNCHANGED cpVars
      BY <1>1, <3>1 DEF CPTypeOK, cpVars
    <3>2. ASSUME NEW i \in Ids,
                 CASE pc = "lb"  -> EnsureLBService(cur, Fresh("lb"), i)
                   [] pc = "vip" -> EnsureVIP(got.lb, Fresh("vip"), i)
                   [] OTHER      -> EnsureVirtualServer(cur, got.lb, Fresh("vs"), i)
          PROVE  CPTypeOK'
      BY <1>1, <1>2, <3>2, EnsureLBServiceTyped, EnsureVIPTyped, EnsureVirtualServerTyped
    <3> QED
      BY <1>6, <3>1, <3>2 DEF ProvisionFails
  <2>2. faults' \in 0 .. MaxFaults
    BY <1>1, <1>6, FaultTyped DEF ProvisionFails, ObjectsOK
  <2>3. WorkerOK' /\ queue' = queue
    BY <1>1, <1>2, <1>6, CPFailsTyped DEF ProvisionFails, Whys
  <2> QED
    BY <1>1, <1>6, <2>1, <2>2, <2>3, TypePartsNext DEF ProvisionFails, ObjectsOK
<1>7. CASE CredentialsRejected
  <2>1. faults' \in 0 .. MaxFaults
    BY <1>1, <1>7, FaultTyped DEF CredentialsRejected, ObjectsOK
  <2>2. WorkerOK' /\ queue' = queue
    BY <1>1, <1>2, <1>7, CPFailsTyped DEF CredentialsRejected, Whys
  <2> QED
    BY <1>1, <1>7, <2>1, <2>2, TypePartsNext
       DEF CredentialsRejected, CPTypeOK, cpVars, ObjectsOK
<1> QED
  BY <1>3, <1>4, <1>5, <1>6, <1>7

(* Types: the bridge is deployed or removed.                                 *)
LEMMA BridgeTyped ==
  ASSUME ExtTypeOK, DeployBridge \/ UndeployBridge
  PROVE  ExtTypeOK'
<1>1. CPTypeOK /\ WorkerOK /\ ObjectsOK
  BY TypeParts
<1>2. cur \in Shoots /\ pc # "idle"
  BY <1>1, Busy DEF DeployBridge, UndeployBridge
<1>3. mem' \in CfgRecord /\ why' \in Whys
  BY <1>1 DEF DeployBridge, UndeployBridge, WorkerOK, CfgRecord, Conditions, Whys
<1>4. WorkerOK' /\ queue' = queue
  BY <1>1, <1>2, <1>3, GoToTyped DEF DeployBridge, UndeployBridge, WorkerOK, GoTo, Steps
<1>5. bridge' \in [Shoots -> ProviderConfigs]
  BY <1>1, <1>2, NothingTyped DEF DeployBridge, UndeployBridge, RemoveBridge, WorkerOK, ObjectsOK, CfgRecord
<1>6. faults' \in 0 .. MaxFaults
  BY <1>1, FaultTyped DEF DeployBridge, UndeployBridge, RemoveBridge, ObjectsOK
<1> QED
  BY <1>1, <1>4, <1>5, <1>6, TypePartsNext
     DEF DeployBridge, UndeployBridge, CPTypeOK, cpVars, ObjectsOK

(* Types: the config's status is saved, or not.                              *)
LEMMA SaveTyped ==
  ASSUME ExtTypeOK, SaveConfig \/ SaveConfigFails
  PROVE  ExtTypeOK'
<1>1. CPTypeOK /\ WorkerOK /\ ObjectsOK
  BY TypeParts
<1>2. cur \in Shoots /\ pc # "idle"
  BY <1>1, Busy DEF SaveConfig, SaveConfigFails
<1>3. CASE SaveConfig
  <2>1. [mem EXCEPT !.owner = cfg[cur].owner] \in CfgRecord
    BY <1>1, <1>2 DEF WorkerOK, ObjectsOK, CfgRecord
  <2>2. cfg' \in [Shoots -> CfgRecord]
    BY <1>1, <1>3, <2>1 DEF SaveConfig, ObjectsOK
  <2>3. WorkerOK'
    BY <1>1, <1>2, <1>3, GoToTyped DEF SaveConfig, WorkerOK, Steps
  <2> QED
    BY <1>1, <1>3, <2>2, <2>3, TypePartsNext DEF SaveConfig, GoTo, CPTypeOK, cpVars, ObjectsOK
<1>4. CASE SaveConfigFails
  <2>1. WorkerOK' /\ queue' \subseteq Shoots
    <3>1. CASE ReturnError
      BY <1>1, <1>2, <3>1, ReturnTyped
    <3>2. CASE GoTo("output") /\ UNCHANGED <<seen, mem, got, why>>
      BY <1>1, <1>2, <3>2, GoToTyped DEF WorkerOK, ObjectsOK, GoTo, Steps
    <3> QED
      BY <1>4, <3>1, <3>2 DEF SaveConfigFails
  <2>2. faults' \in 0 .. MaxFaults
    BY <1>1, <1>4, FaultTyped DEF SaveConfigFails, ObjectsOK
  <2> QED
    BY <1>1, <1>4, <2>1, <2>2, TypePartsNext DEF SaveConfigFails, CPTypeOK, cpVars, ObjectsOK
<1> QED
  BY <1>3, <1>4

(* The status a pass wants is typed.                                         *)
LEMMA OutputTyped == ASSUME ExtTypeOK PROVE Output \in StatusRecord
<1>1. /\ seen \in ExtRecord /\ mem \in CfgRecord /\ why \in Whys /\ clock \in Times
  BY DEF ExtTypeOK
<1>2. State(why) \in States
  BY <1>1 DEF States
<1>3. (mem.vip \/ "vip" \in mem.spec.set) \in BOOLEAN
  OBVIOUS
<1> QED
  BY <1>1, <1>2, <1>3 DEF Output, StatusRecord, ExtRecord

(* The merge of two statuses is one.                                         *)
LEMMA PatchedTyped ==
  ASSUME NEW old \in StatusRecord, NEW new \in StatusRecord, NEW base
  PROVE  Patched(old, new, base) \in StatusRecord
<1>1. DOMAIN old = {"gen", "at", "state", "why", "vip"}
  BY DEF StatusRecord
<1>2. \A f \in DOMAIN old : Patched(old, new, base)[f] \in {new[f], old[f]}
  BY DEF Patched, Sent
<1>3. Patched(old, new, base)
        = [f \in {"gen", "at", "state", "why", "vip"} |-> Sent(new[f], base[f], old[f])]
  BY <1>1 DEF Patched
<1>4. Patched(old, new, base)
        = [gen   |-> Sent(new.gen, base.gen, old.gen),
           at    |-> Sent(new.at, base.at, old.at),
           state |-> Sent(new.state, base.state, old.state),
           why   |-> Sent(new.why, base.why, old.why),
           vip   |-> Sent(new.vip, base.vip, old.vip)]
  BY <1>3
<1> QED
  BY <1>4 DEF Sent, StatusRecord

(* Types: the status goes out and the operation annotation is cleared.       *)
LEMMA StatusTyped ==
  ASSUME ExtTypeOK, UpdateExtensionOutput \/ ClearOperation
  PROVE  ExtTypeOK'
<1>1. CPTypeOK /\ WorkerOK /\ ObjectsOK
  BY TypeParts
<1>2. cur \in Shoots /\ pc # "idle" /\ ext[cur] \in ExtRecord
  BY <1>1, Busy DEF UpdateExtensionOutput, ClearOperation, ObjectsOK
<1>3. CASE UpdateExtensionOutput
  <2>1. Patched(ext[cur].st, Output, seen.st) \in StatusRecord
    BY <1>2, OutputTyped, PatchedTyped DEF ExtRecord
  <2>2. [ext[cur] EXCEPT !.st = Patched(ext[cur].st, Output, seen.st)] \in ExtRecord
    BY <1>2, <2>1 DEF ExtRecord
  <2>3. \/ ext' = ext
        \/ ext' = [ext EXCEPT ![cur] = [ext[cur] EXCEPT !.st = Patched(ext[cur].st, Output, seen.st)]]
    BY <1>1, <1>2, <1>3 DEF UpdateExtensionOutput, ObjectsOK
  <2>4. ext' \in [Shoots -> ExtRecord]
    BY <1>1, <2>2, <2>3 DEF ObjectsOK
  <2>5. WorkerOK' /\ queue' \subseteq Shoots
    <3>1. CASE ReturnError
      BY <1>1, <1>2, <3>1, ReturnTyped
    <3>2. CASE GoTo("clear") /\ UNCHANGED <<seen, mem, got, why>>
      BY <1>1, <1>2, <3>2, GoToTyped DEF WorkerOK, ObjectsOK, GoTo, Steps
    <3> QED
      BY <1>3, <3>1, <3>2 DEF UpdateExtensionOutput, AfterOutput
  <2>6. faults' \in 0 .. MaxFaults
    BY <1>1, <1>3, FaultTyped DEF UpdateExtensionOutput, ObjectsOK
  <2> QED
    BY <1>1, <1>3, <2>4, <2>5, <2>6, TypePartsNext
       DEF UpdateExtensionOutput, CPTypeOK, cpVars, ObjectsOK
<1>4. CASE ClearOperation
  <2>1. [ext[cur] EXCEPT !.op = FALSE] \in ExtRecord
    BY <1>2 DEF ExtRecord
  <2>2. ext' = ext \/ ext' = [ext EXCEPT ![cur] = [ext[cur] EXCEPT !.op = FALSE]]
    BY <1>1, <1>2, <1>4 DEF ClearOperation, ObjectsOK
  <2>3. ext' \in [Shoots -> ExtRecord]
    BY <1>1, <2>1, <2>2 DEF ObjectsOK
  <2>4. WorkerOK' /\ queue' \subseteq Shoots
    BY <1>1, <1>2, <1>4, ReturnTyped DEF ClearOperation
  <2>5. faults' \in 0 .. MaxFaults
    BY <1>1, <1>4, FaultTyped DEF ClearOperation, ObjectsOK
  <2> QED
    BY <1>1, <1>4, <2>3, <2>4, <2>5, TypePartsNext DEF ClearOperation, CPTypeOK, cpVars, ObjectsOK
<1> QED
  BY <1>3, <1>4

(* Types: one call of the control plane's deletion, answered or not.         *)
LEMMA DeleteCallTyped ==
  ASSUME ExtTypeOK, DeleteVirtualServer \/ DeleteVIPPort \/ DeleteLBService
  PROVE  ExtTypeOK'
<1>1. CPTypeOK /\ WorkerOK /\ ObjectsOK
  BY TypeParts
<1>2. mem.ids \in IdsRecord
  BY <1>1 DEF WorkerOK, CfgRecord
<1>3. CPTypeOK'
  <2>1. CASE UNCHANGED cpVars
    BY <1>1, <2>1 DEF CPTypeOK, cpVars
  <2>2. CASE DeleteVS(mem.ids) \/ DeleteVIP(mem.ids) \/ DeleteLB(mem.ids)
    BY <1>1, <1>2, <2>2, DeletionsTyped
  <2> QED
    BY <2>1, <2>2 DEF DeleteVirtualServer, DeleteVIPPort, DeleteLBService, DeleteCall
<1>4. /\ pc # "idle" /\ (\E step \in Steps \ {"idle"} : GoTo(step))
      /\ (NoFault \/ Fault("cmp"))
      /\ UNCHANGED <<ext, cfg, bridge, cache, copy, seen, mem, got, why, clock>>
  BY DEF DeleteVirtualServer, DeleteVIPPort, DeleteLBService, DeleteCall, Steps
<1>5. faults' \in 0 .. MaxFaults
  BY <1>1, <1>4, FaultTyped DEF ObjectsOK
<1>6. WorkerOK'
  BY <1>1, <1>4, GoToTyped DEF WorkerOK
<1> QED
  BY <1>1, <1>3, <1>4, <1>5, <1>6, TypePartsNext DEF GoTo, ObjectsOK

(* Types: the deletion of an Extension.                                      *)
LEMMA DeleteTyped ==
  ASSUME ExtTypeOK, FindConfig \/ DeleteBridge \/ DeleteClearOperation \/ RemoveFinalizer
  PROVE  ExtTypeOK'
<1>1. CPTypeOK /\ WorkerOK /\ ObjectsOK
  BY TypeParts
<1>2. cur \in Shoots /\ pc # "idle" /\ ext[cur] \in ExtRecord /\ cfg[cur] \in CfgRecord
  BY <1>1, Busy DEF FindConfig, DeleteBridge, DeleteClearOperation, RemoveFinalizer, ObjectsOK
<1>3. CASE FindConfig
  <2>1. /\ \E step \in Steps \ {"idle"} : GoTo(step)
        /\ mem' \in CfgRecord /\ (\E k \in {"api"} : Fault(k) \/ NoFault)
    BY <1>1, <1>2, <1>3, CopyTyped DEF FindConfig, WorkerOK, Steps
  <2>2. WorkerOK' /\ faults' \in 0 .. MaxFaults
    BY <1>1, <1>2, <1>3, <2>1, GoToTyped, FaultTyped DEF FindConfig, WorkerOK, ObjectsOK
  <2> QED
    BY <1>1, <1>3, <2>1, <2>2, TypePartsNext DEF FindConfig, GoTo, CPTypeOK, cpVars, ObjectsOK
<1>4. CASE DeleteBridge
  <2>1. bridge' \in [Shoots -> ProviderConfigs]
    BY <1>1, <1>2, <1>4, NothingTyped DEF DeleteBridge, RemoveBridge, ObjectsOK
  <2>2. faults' \in 0 .. MaxFaults
    BY <1>1, <1>4, FaultTyped DEF DeleteBridge, RemoveBridge, ObjectsOK
  <2>3. WorkerOK'
    BY <1>1, <1>2, <1>4, GoToTyped DEF DeleteBridge, WorkerOK, Steps
  <2> QED
    BY <1>1, <1>4, <2>1, <2>2, <2>3, TypePartsNext
       DEF DeleteBridge, GoTo, CPTypeOK, cpVars, ObjectsOK
<1>5. CASE DeleteClearOperation
  <2>1. [ext[cur] EXCEPT !.op = FALSE] \in ExtRecord
    BY <1>2 DEF ExtRecord
  <2>2. ext' = ext \/ ext' = [ext EXCEPT ![cur] = [ext[cur] EXCEPT !.op = FALSE]]
    BY <1>1, <1>2, <1>5 DEF DeleteClearOperation, ObjectsOK
  <2>3. ext' \in [Shoots -> ExtRecord]
    BY <1>1, <2>1, <2>2 DEF ObjectsOK
  <2>4. faults' \in 0 .. MaxFaults
    BY <1>1, <1>5, FaultTyped DEF DeleteClearOperation, ObjectsOK
  <2>5. WorkerOK'
    BY <1>1, <1>2, <1>5, GoToTyped DEF DeleteClearOperation, WorkerOK, Steps
  <2> QED
    BY <1>1, <1>5, <2>3, <2>4, <2>5, TypePartsNext
       DEF DeleteClearOperation, GoTo, CPTypeOK, cpVars, ObjectsOK
<1>6. CASE RemoveFinalizer
  <2>1. ext' \in [Shoots -> ExtRecord]
    BY <1>1, <1>2, <1>6, NothingTyped DEF RemoveFinalizer, ObjectsOK
  <2>2. faults' \in 0 .. MaxFaults
    BY <1>1, <1>6, FaultTyped DEF RemoveFinalizer, ObjectsOK
  <2>3. WorkerOK' /\ queue' \subseteq Shoots
    BY <1>1, <1>2, <1>6, ReturnTyped DEF RemoveFinalizer
  <2> QED
    BY <1>1, <1>6, <2>1, <2>2, <2>3, TypePartsNext
       DEF RemoveFinalizer, CPTypeOK, cpVars, ObjectsOK
<1> QED
  BY <1>3, <1>4, <1>5, <1>6

(* The initial states are typed.                                             *)
LEMMA InitTyped == ASSUME Init PROVE ExtTypeOK
<1>1. CPTypeOK
  BY CPAssumption
     DEF Init, CPInit, CPTypeOK, CPAssumption, NoLB, LBRecord, NoVIP, VIPRecord, NoVS, VSRecord
<1>2. WorkerOK
  BY NothingTyped DEF Init, WorkerOK, Steps, Whys
<1>3. ObjectsOK
  BY NothingTyped, ExtAssumption DEF Init, ObjectsOK, ExtAssumption, Times
<1> QED
  BY <1>1, <1>2, <1>3, TypeParts

(* Every step keeps the types.                                               *)
LEMMA NextTyped == ASSUME ExtTypeOK, [Next]_vars PROVE ExtTypeOK'
<1>1. CPTypeOK /\ WorkerOK /\ ObjectsOK
  BY TypeParts
<1>2. CASE CMPOnItsOwn
  BY <1>1, <1>2, CMPStepTyped, TypePartsNext
     DEF CMPOnItsOwn, extVars, WorkerOK, ObjectsOK
<1>3. CASE CMPOutage
  <2>1. faults' \in 0 .. MaxFaults
    BY <1>1, <1>3, FaultTyped DEF CMPOutage, ObjectsOK
  <2> QED
    BY <1>1, <1>3, <2>1, TypePartsNext DEF CMPOutage, CPTypeOK, WorkerOK, locals, ObjectsOK
<1>4. CASE Restart
  <2>1. faults' \in 0 .. MaxFaults
    BY <1>1, <1>4, FaultTyped DEF Restart, ObjectsOK
  <2> QED
    BY <1>1, <1>4, <2>1, IdleTyped, TypePartsNext DEF Restart, CPTypeOK, cpVars, ObjectsOK
<1>5. CASE Worker
  <2>1. CASE \E s \in Shoots : TakeNext(s)
    BY <2>1, TakeNextTyped
  <2>2. CASE ReconcileStep
    BY <2>2, ConfigTyped, ProvisionTyped, BridgeTyped, SaveTyped, StatusTyped DEF ReconcileStep
  <2>3. CASE DeleteStep
    BY <2>3, DeleteCallTyped, DeleteTyped DEF DeleteStep
  <2> QED
    BY <1>5, <2>1, <2>2, <2>3 DEF Worker
<1>6. CASE UNCHANGED vars
  BY <1>1, <1>6, TypePartsNext
     DEF vars, cpVars, extVars, CPTypeOK, WorkerOK, ObjectsOK
<1> QED
  BY <1>2, <1>3, <1>4, <1>5, <1>6, SurroundingsTyped DEF Next

(* Every variable keeps its type: the worker is idle exactly when it has no  *)
(* Shoot, and no step on a stale copy writes a record of another shape.      *)
THEOREM ExtTypeCorrect == Spec => []ExtTypeOK
<1>1. Init => ExtTypeOK
  BY InitTyped
<1>2. ExtTypeOK /\ [Next]_vars => ExtTypeOK'
  BY NextTyped
<1> QED
  BY <1>1, <1>2, PTL DEF Spec

(* ----------------------- One control-plane LB service -------------------- *)

(* OneControlPlaneLB without Cardinality; inductive as it stands. *)
NamedLB(l) == lbs[l].st # "absent" /\ lbs[l].name = "cp"
NamedVS(v) == vss[v].st # "absent" /\ vss[v].name = "cp"
Alone ==
    /\ \A l, m \in Ids : NamedLB(l) /\ NamedLB(m) /\ lbs[l].project = lbs[m].project => l = m
    /\ \A v, w \in Ids : NamedVS(v) /\ NamedVS(w) /\ vss[v].lb = vss[w].lb => v = w

(* A set whose elements are all the same has at most one.                    *)
LEMMA AtMostOne ==
  ASSUME NEW S, \A x, y \in S : x = y
  PROVE  Cardinality(S) <= 1
<1>1. CASE S = {}
  BY <1>1, FS_EmptySet
<1>2. ASSUME NEW x \in S PROVE Cardinality(S) <= 1
  <2>1. S = {x}
    OBVIOUS
  <2> QED
    BY <2>1, FS_Singleton
<1> QED
  BY <1>1, <1>2

(* Alone, stated with elements, gives what OneControlPlaneLB says of         *)
(* numbers.                                                                  *)
LEMMA AloneCounted == ASSUME Alone PROVE OneControlPlaneLB
<1>1. ASSUME NEW p \in Projects
      PROVE  Cardinality({l \in LBsIn(p) : lbs[l].name = "cp"}) <= 1
  <2>1. \A l, m \in {k \in LBsIn(p) : lbs[k].name = "cp"} : l = m
    BY DEF Alone, NamedLB, LBsIn
  <2> QED
    BY <2>1, AtMostOne
<1>2. ASSUME NEW l \in Ids
      PROVE  Cardinality({v \in VSsOf(l) : vss[v].name = "cp"}) <= 1
  <2>1. \A v, w \in {k \in VSsOf(l) : vss[k].name = "cp"} : v = w
    BY DEF Alone, NamedVS, VSsOf
  <2> QED
    BY <2>1, AtMostOne
<1> QED
  BY <1>1, <1>2 DEF OneControlPlaneLB

(* Something of our name is always reused: a create means there was none.    *)
LEMMA ReusesNamed == ASSUME NEW list, NEW named, Reusable(list, named) = {} PROVE named = {}
BY DEF Reusable

(* Look-up before create keeps a project's LB service the only one.          *)
LEMMA EnsureLBServiceAlone ==
  ASSUME CPTypeOK, Alone, NEW s \in Shoots, NEW fresh, NEW i \in Ids, EnsureLBService(s, fresh, i)
  PROVE  Alone'
<1>1. CASE UNCHANGED lbs
  BY <1>1 DEF EnsureLBService, Alone, NamedLB, NamedVS
<1>2. CASE /\ ReusableLBs(s) = {}
           /\ lbs' = [lbs EXCEPT ![i] = [st |-> "live", project |-> Project[s], name |-> "cp"]]
  <2>1. \A l \in Ids : ~(lbs[l].st # "absent" /\ lbs[l].project = Project[s] /\ lbs[l].name = "cp")
    <3>1. {l \in LBsIn(Project[s]) : lbs[l].name = "cp"} = {}
      BY <1>2, ReusesNamed DEF ReusableLBs
    <3> QED
      BY <3>1 DEF LBsIn
  <2> QED
    BY <1>2, <2>1 DEF EnsureLBService, CPTypeOK, Alone, NamedLB, NamedVS
<1> QED
  BY <1>1, <1>2 DEF EnsureLBService

(* ... and an LB service's virtual server.                                   *)
LEMMA EnsureVirtualServerAlone ==
  ASSUME CPTypeOK, Alone, NEW s \in Shoots, NEW l \in Ids \cup {NoId}, NEW fresh, NEW i \in Ids,
         EnsureVirtualServer(s, l, fresh, i)
  PROVE  Alone'
<1>1. CASE UNCHANGED vss
  BY <1>1 DEF EnsureVirtualServer, Alone, NamedLB, NamedVS
<1>2. CASE /\ ReusableVSs(l) = {}
           /\ vss' = [vss EXCEPT ![i] = [st |-> "pending", lb |-> l, name |-> "cp", by |-> s]]
  <2>1. \A v \in Ids : ~(vss[v].st # "absent" /\ vss[v].lb = l /\ vss[v].name = "cp")
    <3>1. {v \in VSsOf(l) : vss[v].name = "cp"} = {}
      BY <1>2, ReusesNamed DEF ReusableVSs
    <3> QED
      BY <3>1 DEF VSsOf
  <2> QED
    BY <1>2, <2>1 DEF EnsureVirtualServer, CPTypeOK, Alone, NamedLB, NamedVS
<1> QED
  BY <1>1, <1>2 DEF EnsureVirtualServer

(* What is deleted, vanishes or gets ready never counts for more than before. *)
LEMMA FewerAlone ==
  ASSUME CPTypeOK, Alone, NEW ids \in IdsRecord,
         CMPStep \/ DeleteVS(ids) \/ DeleteVIP(ids) \/ DeleteLB(ids)
  PROVE  Alone'
<1>1. \A i \in Ids : /\ lbs'[i].st # "absent" => lbs[i].st # "absent" /\ lbs'[i].name = lbs[i].name
                                                 /\ lbs'[i].project = lbs[i].project
                     /\ vss'[i].st # "absent" => vss[i].st # "absent" /\ vss'[i].name = vss[i].name
                                                 /\ vss'[i].lb = vss[i].lb
  <2>1. CASE CMPRecovers
    BY <2>1 DEF CMPRecovers
  <2>2. CASE \E i \in Ids : VSReady(i) \/ VSGone(i)
    BY <2>2 DEF CPTypeOK, VSReady, VSGone, VSRecord, NoVS
  <2>3. CASE \E i \in Ids : LBGone(i)
    BY <2>3 DEF CPTypeOK, LBGone, LBRecord, NoLB, VSRecord, NoVS
  <2>4. CASE DeleteVS(ids)
    BY <2>4 DEF CPTypeOK, DeleteVS, IdsRecord, VSRecord
  <2>5. CASE DeleteVIP(ids)
    BY <2>5 DEF DeleteVIP
  <2>6. CASE DeleteLB(ids)
    BY <2>6 DEF CPTypeOK, DeleteLB, IdsRecord, LBRecord
  <2> QED
    BY <2>1, <2>2, <2>3, <2>4, <2>5, <2>6 DEF CMPStep
<1>2. \A i \in Ids : /\ NamedLB(i)' => NamedLB(i) /\ lbs'[i].project = lbs[i].project
                     /\ NamedVS(i)' => NamedVS(i) /\ vss'[i].lb = vss[i].lb
  BY <1>1 DEF NamedLB, NamedVS
<1>3. ASSUME NEW l \in Ids, NEW m \in Ids,
             NamedLB(l)', NamedLB(m)', lbs'[l].project = lbs'[m].project
      PROVE  l = m
  BY <1>2, <1>3 DEF Alone
<1>4. ASSUME NEW v \in Ids, NEW w \in Ids, NamedVS(v)', NamedVS(w)', vss'[v].lb = vss'[w].lb
      PROVE  v = w
  BY <1>2, <1>4 DEF Alone
<1> QED
  BY <1>3, <1>4 DEF Alone

(* Only the calls of f5client and CMP itself touch what CMP holds. *)
LEMMA CMPUntouched ==
  ASSUME Next
  PROVE  \/ UNCHANGED <<lbs, vips, vss>>
         \/ CMPOnItsOwn \/ EnsureLB \/ EnsureVIPPort \/ EnsureVS \/ ProvisionFails
         \/ DeleteVirtualServer \/ DeleteVIPPort \/ DeleteLBService
BY DEF Next, Gardenlet, CreateExtension, RequestReconcile, DeleteExtension, Deliver,
       DeliverConfig, SecretChanged,
       GarbageCollect, CMPOutage, Restart, Worker, TakeNext, TakeNothing, AddFinalizer, Begin,
       ReconcileStep, ConfigFails, EnsureConfig, CredentialsRejected, DeployBridge, UndeployBridge,
       SaveConfig, SaveConfigFails, UpdateExtensionOutput, ClearOperation,
       DeleteStep, FindConfig, DeleteBridge, DeleteClearOperation, RemoveFinalizer, cpVars

(* Every step keeps them alone.                                              *)
LEMMA NextAlone == ASSUME ExtTypeOK, Alone, [Next]_vars PROVE Alone'
<1>1. CPTypeOK /\ WorkerOK /\ ObjectsOK
  BY TypeParts
<1>2. mem.ids \in IdsRecord /\ got.lb \in Ids \cup {NoId}
  BY <1>1 DEF WorkerOK, CfgRecord, IdsRecord
<1>3. CASE UNCHANGED <<lbs, vips, vss>>
  BY <1>3 DEF Alone, NamedLB, NamedVS
<1>4. CASE CMPOnItsOwn
  BY <1>1, <1>2, <1>4, FewerAlone DEF CMPOnItsOwn
<1>5. CASE EnsureLB \/ EnsureVIPPort \/ EnsureVS \/ ProvisionFails
  <2>1. cur \in Shoots
    BY <1>1, <1>5, Busy DEF EnsureLB, EnsureVIPPort, EnsureVS, ProvisionFails
  <2>2. \/ UNCHANGED <<lbs, vss>>
        \/ \E i \in Ids : \/ EnsureLBService(cur, Fresh("lb"), i)
                          \/ EnsureVirtualServer(cur, got.lb, Fresh("vs"), i)
    BY <1>5 DEF EnsureLB, EnsureVIPPort, EnsureVS, ProvisionFails, EnsureVIP, cpVars
  <2>3. CASE UNCHANGED <<lbs, vss>>
    BY <2>3 DEF Alone, NamedLB, NamedVS
  <2>4. CASE \E i \in Ids : EnsureLBService(cur, Fresh("lb"), i)
    BY <1>1, <2>1, <2>4, EnsureLBServiceAlone
  <2>5. CASE \E i \in Ids : EnsureVirtualServer(cur, got.lb, Fresh("vs"), i)
    BY <1>1, <1>2, <2>1, <2>5, EnsureVirtualServerAlone
  <2> QED
    BY <2>2, <2>3, <2>4, <2>5
<1>6. CASE DeleteVirtualServer \/ DeleteVIPPort \/ DeleteLBService
  <2>1. UNCHANGED cpVars \/ DeleteVS(mem.ids) \/ DeleteVIP(mem.ids) \/ DeleteLB(mem.ids)
    BY <1>6 DEF DeleteVirtualServer, DeleteVIPPort, DeleteLBService, DeleteCall
  <2>2. CASE UNCHANGED cpVars
    BY <2>2 DEF Alone, NamedLB, NamedVS, cpVars
  <2> QED
    BY <1>1, <1>2, <2>1, <2>2, FewerAlone
<1>7. CASE UNCHANGED vars
  BY <1>7 DEF Alone, NamedLB, NamedVS, vars, cpVars
<1> QED
  BY <1>3, <1>4, <1>5, <1>6, <1>7, CMPUntouched

(* A project never has two control-plane LB services, and an LB service      *)
(* never two of its virtual servers, whatever fails, is lost or restarts:    *)
(* each is looked up before it is created, deletions in progress included.   *)
THEOREM NoDuplicateControlPlane == Spec => []OneControlPlaneLB
<1>1. Init => Alone
  <2>1. ASSUME Init PROVE \A i \in Ids : lbs[i].name = "other" /\ vss[i].name = "other"
    BY <2>1 DEF Init, CPInit, NoLB, NoVS
  <2> QED
    BY <2>1 DEF Alone, NamedLB, NamedVS
<1>2. ExtTypeOK /\ Alone /\ [Next]_vars => Alone'
  BY NextAlone
<1>3. Alone => OneControlPlaneLB
  BY AloneCounted
<1> QED
  BY <1>1, <1>2, <1>3, ExtTypeCorrect, PTL DEF Spec

(* --------------------------- The flow of a pass --------------------------- *)

(* What an Extension that exists asks for is one of Specs, wherever it is read. *)
SpecInv ==
    /\ \A s \in Shoots : ext[s].uid # 0 => ext[s].spec \in Specs
    /\ \A s \in Shoots : cache[s].uid # 0 => cache[s].spec \in Specs
    /\ pc # "idle" => seen.spec \in Specs

(* What the place of the worker says of its local variables. *)
Complete(m) == CPCase(m.spec) = "cmp" => NoId \notin {m.ids.lb, m.ids.vip, m.ids.vs}
Passing == {"lb", "vip", "vs", "deploy", "undeploy", "save", "output", "clear"}
Provisioning == pc \in {"lb", "vip", "vs"} => CPCase(mem.spec) = "cmp"
IdsInHand    == /\ pc \in {"vip", "vs"} => got.lb \in Ids
                /\ pc = "vs" => got.vip \in Ids
GateOpen     == pc = "deploy" =>
                    /\ mem.spec.app /\ CPCase(mem.spec) \in {"shared", "manual", "cmp"}
                    /\ Complete(mem)
Removing     == pc = "undeploy" =>
                    /\ ~mem.spec.app /\ CPCase(mem.spec) \notin {"malformed", "incomplete"}
                    /\ Complete(mem)
Concluded    == pc \in {"save", "output", "clear"} =>
                    why \in Outcomes(mem.spec) /\ (Done(why) => Complete(mem))
Concordant   == ~StaleConfigs /\ pc \in Passing => mem.spec = seen.spec /\ ~mem.late
FlowInv == Provisioning /\ IdsInHand /\ GateOpen /\ Removing /\ Concluded /\ Concordant
(* What is recorded was never made from a copy that was behind. *)
OnTime == \A s \in Shoots : ~cfg[s].late

(* What is assumed of the providerConfigs, in the form the proofs use.       *)
LEMMA SpecsShaped == Specs \subseteq ProviderConfigs /\ NoSpec \notin Specs
BY ExtAssumption DEF ExtAssumption

CPCases == {"malformed", "shared", "cmp", "incomplete", "manual", "waiting"}
(* A providerConfig is a case for the control plane and for the bridge.      *)
LEMMA Cases ==
  ASSUME NEW sp \in ProviderConfigs
  PROVE  /\ CPCase(sp) \in CPCases /\ (CPCase(sp) = "malformed" <=> ~sp.json)
         /\ AppCase(sp) \in {"off", "on", "broken"} /\ (AppCase(sp) = "off" <=> ~sp.app)
BY DEF CPCases, CPCase, AppCase

(* The worker's locals stay as they are, or it becomes idle: nothing to show. *)
LEMMA FlowStays == ASSUME FlowInv, UNCHANGED <<pc, locals>> PROVE FlowInv'
BY DEF FlowInv, Provisioning, IdsInHand, GateOpen, Removing, Concluded, Concordant, locals
(* Outside actuator.Reconcile there is nothing to say.                       *)
LEMMA FlowElsewhere ==
  ASSUME pc' \notin Passing
  PROVE  FlowInv'
BY DEF FlowInv, Provisioning, IdsInHand, GateOpen, Removing, Concluded, Concordant, Passing

(* The gate sends a pass on with what its next step needs.                   *)
LEMMA AppPlaneFlows ==
  ASSUME ExtTypeOK, NEW m \in CfgRecord, AppPlane(m), UNCHANGED <<seen>>,
         ~StaleConfigs => m.spec = seen.spec /\ ~m.late,
         m.cp = "true"  => CPCase(m.spec) \in {"shared", "manual", "cmp"},
         m.cp # "true"  => CPCase(m.spec) = "waiting",
         Complete(m)
  PROVE  FlowInv'
<1>1. m.spec \in ProviderConfigs
  BY DEF CfgRecord
<1>2. CASE ~AppEnabled(m)
  <2>1. pc' = "undeploy" /\ mem' = m /\ ~m.spec.app
        /\ CPCase(m.spec) \notin {"malformed", "incomplete"}
    BY <1>2 DEF AppPlane, GoTo, AppEnabled
  <2> QED
    BY <2>1 DEF FlowInv, Provisioning, IdsInHand, GateOpen, Removing, Concluded, Concordant
<1>3. CASE AppEnabled(m) /\ m.cp = "true"
  <2>1. pc' = "deploy" /\ mem' = m
    BY <1>3 DEF AppPlane, GoTo
  <2> QED
    BY <1>3, <2>1
       DEF AppEnabled, FlowInv, Provisioning, IdsInHand, GateOpen, Removing, Concluded, Concordant
<1>4. CASE AppEnabled(m) /\ m.cp # "true"
  <2>1. pc' = "save" /\ why' = "blocked" /\ mem' = Block(m)
    BY <1>4 DEF AppPlane, GoTo
  <2>2. "blocked" \in Outcomes(m.spec)
    BY <1>4 DEF AppEnabled, Outcomes
  <2>3. Block(m).spec = m.spec /\ Block(m).late = m.late
    BY DEF Block, CfgRecord
  <2> QED
    BY <2>1, <2>2, <2>3
       DEF FlowInv, Provisioning, IdsInHand, GateOpen, Removing, Concluded, Concordant, Done
<1> QED
  BY <1>2, <1>3, <1>4

(* At the end of a pass only its outcome counts.                             *)
LEMMA EndFlows ==
  ASSUME pc' \in {"save", "output", "clear"}, why' \in Outcomes(mem'.spec),
         Done(why') => Complete(mem'), ~StaleConfigs => mem'.spec = seen'.spec /\ ~mem'.late
  PROVE  FlowInv'
BY DEF FlowInv, Provisioning, IdsInHand, GateOpen, Removing, Concluded, Concordant

(* The pass at its config.                                                   *)
LEMMA ConfigFlows ==
  ASSUME ExtTypeOK, OnTime, EnsureConfig
  PROVE  FlowInv'
<1> DEFINE m == SyncedConfig(Copy(cur))
<1>1. WorkerOK /\ ObjectsOK /\ cur \in Shoots /\ seen.spec.json
  BY TypeParts, Busy DEF EnsureConfig
<1>2. m \in CfgRecord /\ m.spec.json /\ m.spec \in ProviderConfigs
  BY <1>1, CopyTyped, SyncedTyped DEF CfgRecord
<1>3. ~StaleConfigs => m.spec = seen.spec /\ ~m.late
  BY <1>1, CopyTyped, SyncedExactly DEF OnTime
<1>4. UNCHANGED <<seen>> /\ CPCase(m.spec) \in CPCases \ {"malformed"}
  BY <1>2, Cases DEF EnsureConfig
<1> HIDE DEF m
<1>5. CASE CPCase(m.spec) = "shared"
  <2> DEFINE n == [m EXCEPT !.cp = "true"]
  <2>1. AppPlane(n)
    BY <1>5 DEF EnsureConfig, m
  <2>2. n \in CfgRecord /\ n.cp = "true" /\ n.spec = m.spec /\ n.late = m.late
    BY <1>2 DEF CfgRecord, Conditions
  <2> HIDE DEF n
  <2> QED
    BY <1>3, <1>4, <1>5, <2>1, <2>2, AppPlaneFlows DEF Complete
<1>6. CASE CPCase(m.spec) = "manual"
  <2> DEFINE n == [m EXCEPT !.cp = "true", !.vip = TRUE]
  <2>1. AppPlane(n)
    BY <1>6 DEF EnsureConfig, m
  <2>2. n \in CfgRecord /\ n.cp = "true" /\ n.spec = m.spec /\ n.late = m.late
    BY <1>2 DEF CfgRecord, Conditions
  <2> HIDE DEF n
  <2> QED
    BY <1>3, <1>4, <1>6, <2>1, <2>2, AppPlaneFlows DEF Complete
<1>7. CASE CPCase(m.spec) = "waiting"
  <2> DEFINE n == [m EXCEPT !.cp = "false"]
  <2>1. AppPlane(n)
    BY <1>7 DEF EnsureConfig, m
  <2>2. n \in CfgRecord /\ n.cp = "false" /\ n.spec = m.spec /\ n.late = m.late
    BY <1>2 DEF CfgRecord, Conditions
  <2> HIDE DEF n
  <2> QED
    BY <1>3, <1>4, <1>7, <2>1, <2>2, AppPlaneFlows DEF Complete
<1>8. CASE CPCase(m.spec) = "cmp"
  <2>1. pc' = "lb" /\ mem' = m
    BY <1>8 DEF EnsureConfig, GoTo, m
  <2> QED
    BY <1>3, <1>4, <1>8, <2>1
       DEF FlowInv, Provisioning, IdsInHand, GateOpen, Removing, Concluded, Concordant
<1>9. CASE CPCase(m.spec) = "incomplete"
  <2>1. pc' = "save" /\ why' = "config" /\ mem' = Block([m EXCEPT !.cp = "false"])
    BY <1>9 DEF EnsureConfig, GoTo, m
  <2>2. "config" \in Outcomes(m.spec)
    BY <1>9 DEF Outcomes
  <2>3. mem'.spec = m.spec /\ mem'.late = m.late
    BY <1>2, <2>1 DEF Block, CfgRecord
  <2> QED
    BY <1>3, <1>4, <2>1, <2>2, <2>3, EndFlows DEF Done
<1> QED
  BY <1>4, <1>5, <1>6, <1>7, <1>8, <1>9 DEF CPCases

(* The pass at the control plane: each id is in hand when the next call is   *)
(* made.                                                                     *)
LEMMA ProvisionFlows ==
  ASSUME ExtTypeOK, FlowInv,
         EnsureLB \/ EnsureVIPPort \/ EnsureVS \/ ProvisionFails \/ CredentialsRejected
  PROVE  FlowInv'
<1>1. pc \in {"lb", "vip", "vs"} /\ got \in IdsRecord /\ mem \in CfgRecord
  BY DEF EnsureLB, EnsureVIPPort, EnsureVS, ProvisionFails, CredentialsRejected, ExtTypeOK
<1>2. CPCase(mem.spec) = "cmp" /\ (~StaleConfigs => mem.spec = seen.spec /\ ~mem.late)
  BY <1>1 DEF FlowInv, Provisioning, Concordant, Passing
<1>3. CASE EnsureLB
  <2>1. pc' = "vip" /\ got'.lb \in Ids /\ UNCHANGED <<seen, mem>>
    BY <1>1, <1>3 DEF EnsureLB, GoTo, IdsRecord
  <2> QED
    BY <1>2, <2>1
       DEF FlowInv, Provisioning, IdsInHand, GateOpen, Removing, Concluded, Concordant
<1>4. CASE EnsureVIPPort
  <2>1. pc' = "vs" /\ got'.lb = got.lb /\ got'.vip \in Ids /\ UNCHANGED <<seen, mem>>
    BY <1>1, <1>4 DEF EnsureVIPPort, GoTo, IdsRecord
  <2>2. got.lb \in Ids
    BY <1>4 DEF EnsureVIPPort, FlowInv, IdsInHand
  <2> QED
    BY <1>2, <2>1, <2>2
       DEF FlowInv, Provisioning, IdsInHand, GateOpen, Removing, Concluded, Concordant
<1>5. CASE EnsureVS
  <2>1. PICK i \in Ids :
          AppPlane([mem EXCEPT !.cp = "true", !.vip = TRUE, !.ids = [got EXCEPT !.vs = i]])
    BY <1>5 DEF EnsureVS
  <2> DEFINE ids == [got EXCEPT !.vs = i]
             m == [mem EXCEPT !.cp = "true", !.vip = TRUE, !.ids = ids]
  <2>2. got.lb \in Ids /\ got.vip \in Ids
    BY <1>5 DEF EnsureVS, FlowInv, IdsInHand
  <2>3. ids \in IdsRecord /\ NoId \notin {ids.lb, ids.vip, ids.vs}
    BY <1>1, <2>2, CPAssumption DEF IdsRecord, CPAssumption
  <2> HIDE DEF ids
  <2>4. m \in CfgRecord /\ m.cp = "true" /\ m.spec = mem.spec /\ m.ids = ids /\ m.late = mem.late
    BY <1>1, <2>3 DEF CfgRecord, Conditions
  <2>5. AppPlane(m)
    BY <2>1 DEF ids
  <2>6. UNCHANGED <<seen>>
    BY <1>5 DEF EnsureVS
  <2> HIDE DEF m
  <2> QED
    BY <1>2, <2>3, <2>4, <2>5, <2>6, AppPlaneFlows DEF Complete
<1>6. CASE ProvisionFails \/ CredentialsRejected
  <2>1. /\ pc' = "save" /\ why' \in {"failed", "config"} /\ UNCHANGED <<seen>>
        /\ mem' = Block([mem EXCEPT !.cp = "false"])
    BY <1>6 DEF ProvisionFails, CredentialsRejected, CPFails, GoTo
  <2>2. {"failed", "config"} \subseteq Outcomes(mem.spec)
    BY <1>2 DEF Outcomes
  <2>3. mem'.spec = mem.spec /\ mem'.late = mem.late
    BY <1>1, <2>1 DEF Block, CfgRecord
  <2> QED
    BY <1>2, <2>1, <2>2, <2>3, EndFlows DEF Done
<1> QED
  BY <1>3, <1>4, <1>5, <1>6

(* The pass at the bridge.                                                   *)
LEMMA BridgeFlows ==
  ASSUME ExtTypeOK, FlowInv, DeployBridge \/ UndeployBridge
  PROVE  FlowInv'
<1>1. mem \in CfgRecord /\ mem.spec \in ProviderConfigs
  BY DEF ExtTypeOK, CfgRecord
<1>2. pc \in {"deploy", "undeploy"} /\ pc' = "save" /\ UNCHANGED <<seen>>
      /\ mem'.spec = mem.spec /\ mem'.late = mem.late /\ (Complete(mem) => Complete(mem'))
  BY <1>1 DEF DeployBridge, UndeployBridge, GoTo, CfgRecord, Complete
<1>3. ~StaleConfigs => mem'.spec = seen'.spec /\ ~mem'.late
  BY <1>2 DEF FlowInv, Concordant, Passing
<1>4. CASE DeployBridge
  <2>1. mem.spec.app /\ CPCase(mem.spec) \in {"shared", "manual", "cmp"} /\ Complete(mem)
    BY <1>4 DEF DeployBridge, FlowInv, GateOpen
  <2>2. \/ AppCase(mem.spec) = "broken" /\ why' = "config"
        \/ AppCase(mem.spec) = "on" /\ why' \in {"reconciled", "failed"}
    BY <1>4 DEF DeployBridge
  <2>3. why' \in Outcomes(mem.spec)
    BY <2>1, <2>2 DEF Outcomes
  <2> QED
    BY <1>2, <1>3, <2>1, <2>3, EndFlows
<1>5. CASE UndeployBridge
  <2>1. /\ why' = "disabled" /\ ~mem.spec.app /\ Complete(mem)
        /\ CPCase(mem.spec) \notin {"malformed", "incomplete"}
    BY <1>5 DEF UndeployBridge, FlowInv, Removing
  <2>2. AppCase(mem.spec) = "off" /\ CPCase(mem.spec) \in CPCases
    BY <1>1, <2>1, Cases
  <2>3. why' \in Outcomes(mem.spec)
    BY <2>1, <2>2 DEF Outcomes, CPCases
  <2> QED
    BY <1>2, <1>3, <2>1, <2>3, EndFlows
<1> QED
  BY <1>4, <1>5

(* The pass at its end.                                                      *)
LEMMA SaveFlows ==
  ASSUME FlowInv, SaveConfig \/ SaveConfigFails \/ UpdateExtensionOutput \/ ClearOperation
  PROVE  FlowInv'
<1>1. CASE pc' = "idle"
  BY <1>1, FlowElsewhere DEF Passing
<1>2. CASE pc' # "idle"
  <2>1. pc \in {"save", "output", "clear"} /\ pc' \in {"save", "output", "clear"}
        /\ UNCHANGED <<seen, mem, why>>
    BY <1>2 DEF SaveConfig, SaveConfigFails, UpdateExtensionOutput, AfterOutput, ClearOperation,
                Return, ReturnError, Idle, GoTo
  <2> QED
    BY <2>1, EndFlows DEF FlowInv, Concluded, Concordant, Passing
<1> QED
  BY <1>1, <1>2

(* Steps that are none of actuator.Reconcile's leave the worker where it is, *)
(* idle, at the start or in a deletion.                                      *)
LEMMA OtherFlows ==
  ASSUME FlowInv, [Next]_vars, ~ReconcileStep
  PROVE  FlowInv'
<1>1. \/ UNCHANGED <<pc, locals>>
      \/ pc' \notin Passing
  BY DEF Passing, Next, Gardenlet, CreateExtension, RequestReconcile, DeleteExtension, Deliver,
         DeliverConfig, SecretChanged,
         GarbageCollect, CMPOnItsOwn, CMPOutage, Restart, Idle, Worker, TakeNext, TakeNothing,
         AddFinalizer, Begin, DeleteStep, FindConfig, DeleteVirtualServer, DeleteVIPPort,
         DeleteLBService, DeleteCall, DeleteBridge, DeleteClearOperation, RemoveFinalizer,
         Return, ReturnError, GoTo, vars, extVars, locals
<1> QED
  BY <1>1, FlowStays, FlowElsewhere

(* Every step keeps the facts of a pass.                                     *)
LEMMA NextFlows ==
  ASSUME ExtTypeOK, OnTime, FlowInv, [Next]_vars
  PROVE  FlowInv'
<1>1. CASE ReconcileStep
  <2>1. CASE ConfigFails
    BY <2>1, FlowElsewhere DEF ConfigFails, ReturnError, Idle, Passing
  <2> QED
    BY <1>1, <2>1, ConfigFlows, ProvisionFlows, BridgeFlows, SaveFlows DEF ReconcileStep
<1> QED
  BY <1>1, OtherFlows

(* How a config moves. *)
CfgMove(s) ==
    \/ cfg'[s] = cfg[s]
    \/ /\ cfg[s].owner # ext[s].uid /\ cfg'[s] = NoCfg
       /\ UNCHANGED <<ext, pc, locals>>
    \/ EnsureConfig /\ s = cur /\ cfg'[s] = SyncedConfig(Copy(s)) /\ ~cfg'[s].late
    \/ SaveConfig /\ ~mem.late /\ s = cur /\ cfg'[s] = [mem EXCEPT !.owner = cfg[s].owner]

(* Every step moves a config so.                                            *)
LEMMA CfgMoves ==
  ASSUME ExtTypeOK, [Next]_vars, NEW s \in Shoots
  PROVE  CfgMove(s)
<1>1. cfg \in [Shoots -> CfgRecord]
  BY DEF ExtTypeOK
<1>2. CASE \E t \in Shoots : GarbageCollect(t)
  BY <1>1, <1>2 DEF GarbageCollect, CfgMove
<1>3. CASE EnsureConfig \/ SaveConfig
  BY <1>1, <1>3 DEF EnsureConfig, SaveConfig, CfgMove
<1>4. \/ UNCHANGED cfg \/ EnsureConfig \/ SaveConfig \/ \E t \in Shoots : GarbageCollect(t)
  BY DEF Next, Gardenlet, CreateExtension, RequestReconcile, DeleteExtension, Deliver,
         DeliverConfig, SecretChanged,
         CMPOnItsOwn, CMPOutage, Restart, Worker, TakeNext, TakeNothing, AddFinalizer, Begin,
         ReconcileStep, ConfigFails, EnsureLB, EnsureVIPPort, EnsureVS,
         ProvisionFails, CredentialsRejected, DeployBridge, UndeployBridge,
         SaveConfigFails, UpdateExtensionOutput, ClearOperation,
         DeleteStep, FindConfig, DeleteVirtualServer, DeleteVIPPort, DeleteLBService, DeleteCall,
         DeleteBridge, DeleteClearOperation, RemoveFinalizer, vars, extVars
<1> QED
  BY <1>2, <1>3, <1>4 DEF CfgMove

(* A status is saved only by a pass whose copy was not behind, and a spec    *)
(* patched only when it differs from the copy.                               *)
LEMMA NextOnTime == ASSUME ExtTypeOK, OnTime, [Next]_vars PROVE OnTime'
<1> SUFFICES ASSUME NEW s \in Shoots PROVE ~cfg'[s].late
  BY DEF OnTime
<1>1. mem \in CfgRecord /\ ~cfg[s].late
  BY DEF ExtTypeOK, OnTime
<1>2. CASE cfg'[s] = [mem EXCEPT !.owner = cfg[s].owner] /\ ~mem.late
  BY <1>1, <1>2 DEF CfgRecord
<1>3. ~NoCfg.late
  BY DEF NoCfg
<1> QED
  BY <1>1, <1>2, <1>3, CfgMoves DEF CfgMove

(* How an Extension can change in one step. *)
ExtStep(s) ==
    \/ ext'[s] = ext[s]
    \/ ext'[s].uid = 0 /\ (ext[s].uid # 0 /\ ext[s].fin => s = cur /\ pc' = "idle")
    \/ ext[s].uid = 0 /\ ext'[s].spec \in Specs /\ ext'[s].st.gen < ext'[s].gen
    \/ ext[s].uid # 0 /\ ext'[s].uid = ext[s].uid /\ ext'[s].spec \in Specs
       /\ (ext[s].fin => ext'[s].fin) /\ ext'[s].st = ext[s].st
       /\ ext'[s].gen = IF ext'[s].spec = ext[s].spec THEN ext[s].gen ELSE ext[s].gen + 1
    \/ ext'[s].uid = ext[s].uid /\ ext'[s].spec = ext[s].spec /\ ext'[s].gen = ext[s].gen
       /\ (ext[s].fin => ext'[s].fin)
       /\ \/ ext'[s].st = ext[s].st
          \/ /\ pc = "output" /\ pc' \in {"clear", "idle"} /\ s = cur
             /\ ext'[s].st = Patched(ext[s].st, Output, seen.st)

(* What gardenlet does to the Extension of one Shoot.                        *)
LEMMA GardenletSteps ==
  ASSUME ExtTypeOK, NEW t \in Shoots, Gardenlet(t), NEW s \in Shoots
  PROVE  ExtStep(s)
<1>1. ext \in [Shoots -> ExtRecord] /\ ext[t] \in ExtRecord
  BY DEF ExtTypeOK
<1>2. CASE CreateExtension(t)
  <2>1. PICK sp \in Specs :
          ext' = [ext EXCEPT ![t] = [NoExt EXCEPT !.uid = clock', !.spec = sp, !.gen = 1,
                                                  !.op = TRUE, !.ts = clock']]
    BY <1>2 DEF CreateExtension
  <2> DEFINE e == [NoExt EXCEPT !.uid = clock', !.spec = sp, !.gen = 1, !.op = TRUE, !.ts = clock']
  <2>2. e.spec = sp /\ e.st.gen < e.gen
    BY DEF NoExt, NoStatus
  <2>3. ext'[s] = IF s = t THEN e ELSE ext[s]
    BY <1>1, <2>1
  <2>4. ext[t].uid = 0
    BY <1>2 DEF CreateExtension
  <2> HIDE DEF e
  <2> QED
    BY <2>2, <2>3, <2>4 DEF ExtStep
<1>3. CASE RequestReconcile(t)
  <2>1. PICK sp \in Specs :
          ext' = [ext EXCEPT ![t] = [ext[t] EXCEPT
                      !.spec = sp, !.op = TRUE, !.ts = clock',
                      !.gen = IF sp = ext[t].spec THEN @ ELSE @ + 1]]
    BY <1>3 DEF RequestReconcile
  <2> DEFINE g == IF sp = ext[t].spec THEN ext[t].gen ELSE ext[t].gen + 1
             e == [ext[t] EXCEPT !.spec = sp, !.op = TRUE, !.ts = clock', !.gen = g]
  <2>2. ext'[s] = IF s = t THEN e ELSE ext[s]
    BY <1>1, <2>1
  <2> HIDE DEF g
  <2>3. e.uid = ext[t].uid /\ e.spec = sp /\ (ext[t].fin => e.fin) /\ e.st = ext[t].st /\ e.gen = g
    BY <1>1 DEF ExtRecord
  <2>4. ext[t].uid # 0
    BY <1>3 DEF RequestReconcile
  <2> HIDE DEF e
  <2> QED
    BY <2>2, <2>3, <2>4 DEF ExtStep, g
<1>4. CASE DeleteExtension(t)
  <2>1. PICK op \in BOOLEAN :
          ext' = [ext EXCEPT ![t] = IF ext[t].fin
                                    THEN [ext[t] EXCEPT !.deleting = TRUE, !.ts = clock',
                                                        !.op = ext[t].op \/ op]
                                    ELSE NoExt]
    BY <1>4 DEF DeleteExtension
  <2> DEFINE b == ext[t].op \/ op
             e == [ext[t] EXCEPT !.deleting = TRUE, !.ts = clock', !.op = b]
  <2>2. ext'[s] = IF s = t THEN IF ext[t].fin THEN e ELSE NoExt ELSE ext[s]
    BY <1>1, <2>1
  <2> HIDE DEF b
  <2>3. e.uid = ext[t].uid /\ e.spec = ext[t].spec /\ e.st = ext[t].st
        /\ e.gen = ext[t].gen /\ (ext[t].fin => e.fin)
    BY <1>1 DEF ExtRecord
  <2>4. ext[t].uid # 0 /\ NoExt.uid = 0
    BY <1>4 DEF DeleteExtension, NoExt
  <2> HIDE DEF e
  <2>5. CASE s # t
    BY <2>2, <2>5 DEF ExtStep
  <2>6. CASE s = t /\ ext[t].fin
    BY <2>2, <2>3, <2>4, <2>6 DEF ExtStep
  <2>7. CASE s = t /\ ~ext[t].fin
    BY <2>2, <2>4, <2>7 DEF ExtStep
  <2> QED
    BY <2>5, <2>6, <2>7
<1> QED
  BY <1>2, <1>3, <1>4 DEF Gardenlet

(* What the worker does to it.                                               *)
LEMMA ReconcilerSteps ==
  ASSUME ExtTypeOK, NEW s \in Shoots,
         \/ \E t \in Shoots : AddFinalizer(t)
         \/ UpdateExtensionOutput \/ ClearOperation \/ DeleteClearOperation \/ RemoveFinalizer
  PROVE  ExtStep(s)
<1>1. ext \in [Shoots -> ExtRecord] /\ ext[s] \in ExtRecord
  BY DEF ExtTypeOK
<1>2. CASE \E t \in Shoots : AddFinalizer(t)
  <2>1. ext' = ext \/ (\E t \in Shoots : ext' = [ext EXCEPT ![t].fin = TRUE])
    BY <1>2 DEF AddFinalizer
  <2>2. ext'[s] = ext[s] \/ ext'[s] = [ext[s] EXCEPT !.fin = TRUE]
    BY <1>1, <2>1
  <2> QED
    BY <1>1, <2>2 DEF ExtStep, ExtRecord
<1>3. CASE UpdateExtensionOutput
  <2>1. ext' = ext \/ ext' = [ext EXCEPT ![cur].st = Patched(@, Output, seen.st)]
    BY <1>3 DEF UpdateExtensionOutput
  <2>2. \/ ext'[s] = ext[s]
        \/ s = cur /\ ext'[s] = [ext[s] EXCEPT !.st = Patched(ext[s].st, Output, seen.st)]
    BY <1>1, <2>1
  <2>3. pc = "output" /\ pc' \in {"clear", "idle"}
    BY <1>3 DEF UpdateExtensionOutput, AfterOutput, ReturnError, Idle, GoTo
  <2>4. CASE ext'[s] = ext[s]
    BY <2>4 DEF ExtStep
  <2>5. CASE s = cur /\ ext'[s] = [ext[s] EXCEPT !.st = Patched(ext[s].st, Output, seen.st)]
    <3>1. /\ ext'[s].uid = ext[s].uid /\ ext'[s].spec = ext[s].spec /\ ext'[s].gen = ext[s].gen
          /\ (ext[s].fin => ext'[s].fin)
          /\ ext'[s].st = Patched(ext[s].st, Output, seen.st)
      BY <1>1, <2>5 DEF ExtRecord
    <3> QED
      BY <2>3, <2>5, <3>1 DEF ExtStep
  <2> QED
    BY <2>2, <2>4, <2>5
<1>4. CASE ClearOperation \/ DeleteClearOperation
  <2>1. ext' = ext \/ ext' = [ext EXCEPT ![cur].op = FALSE]
    BY <1>4 DEF ClearOperation, DeleteClearOperation
  <2>2. ext'[s] = ext[s] \/ ext'[s] = [ext[s] EXCEPT !.op = FALSE]
    BY <1>1, <2>1
  <2> QED
    BY <1>1, <2>2 DEF ExtStep, ExtRecord
<1>5. CASE RemoveFinalizer
  <2>1. ext' = ext \/ (ext' = [ext EXCEPT ![cur] = NoExt] /\ pc' = "idle")
    BY <1>5 DEF RemoveFinalizer, Return, Idle
  <2>2. ext'[s] = ext[s] \/ (ext'[s] = NoExt /\ s = cur /\ pc' = "idle")
    BY <1>1, <2>1
  <2> QED
    BY <2>2 DEF ExtStep, NoExt
<1> QED
  BY <1>2, <1>3, <1>4, <1>5

(* What any step does to it.                                                 *)
LEMMA ExtSteps ==
  ASSUME ExtTypeOK, [Next]_vars, NEW s \in Shoots
  PROVE  ExtStep(s)
<1>1. CASE UNCHANGED ext
  BY <1>1 DEF ExtStep
<1>2. \/ UNCHANGED ext
      \/ \E t \in Shoots : Gardenlet(t) \/ AddFinalizer(t)
      \/ UpdateExtensionOutput \/ ClearOperation \/ DeleteClearOperation \/ RemoveFinalizer
  BY DEF Next, Deliver, DeliverConfig, SecretChanged, GarbageCollect, CMPOnItsOwn, CMPOutage,
         Restart, Worker,
         TakeNext, TakeNothing, Begin, ReconcileStep, ConfigFails, EnsureConfig, EnsureLB,
         EnsureVIPPort, EnsureVS, ProvisionFails, CredentialsRejected, DeployBridge, UndeployBridge,
         SaveConfig, SaveConfigFails, DeleteStep, FindConfig, DeleteVirtualServer, DeleteVIPPort,
         DeleteLBService, DeleteCall, DeleteBridge, vars, extVars
<1> QED
  BY <1>1, <1>2, GardenletSteps, ReconcilerSteps

(* The informer's copy changes only to what the API server holds.            *)
LEMMA CacheSteps ==
  ASSUME ExtTypeOK, [Next]_vars, NEW s \in Shoots
  PROVE  cache'[s] = cache[s] \/ (cache'[s] = ext[s] /\ UNCHANGED ext)
<1>1. CASE \E t \in Shoots : Deliver(t)
  BY <1>1 DEF Deliver, ExtTypeOK
<1>2. CASE Restart
  BY <1>2 DEF Restart
<1>3. \/ UNCHANGED cache \/ Restart \/ \E t \in Shoots : Deliver(t)
  BY DEF Next, Gardenlet, CreateExtension, RequestReconcile, DeleteExtension, DeliverConfig,
         SecretChanged,
         GarbageCollect, CMPOnItsOwn, CMPOutage, Worker, TakeNext, TakeNothing, AddFinalizer, Begin,
         ReconcileStep, ConfigFails, EnsureConfig, EnsureLB, EnsureVIPPort, EnsureVS,
         ProvisionFails, CredentialsRejected, DeployBridge, UndeployBridge, SaveConfig,
         SaveConfigFails, UpdateExtensionOutput, ClearOperation,
         DeleteStep, FindConfig, DeleteVirtualServer, DeleteVIPPort, DeleteLBService, DeleteCall,
         DeleteBridge, DeleteClearOperation, RemoveFinalizer, vars, extVars
<1> QED
  BY <1>1, <1>2, <1>3

(* A pass works to its end on the Extension it has read at its beginning. *)
LEMMA SeenSteps ==
  ASSUME [Next]_vars, pc' # "idle"
  PROVE  \/ pc # "idle" /\ UNCHANGED <<cur, seen>> /\ (pc = "clear" => pc' = "clear")
         \/ pc = "idle" /\ \E s \in Shoots : Begin(s)
<1>1. CASE UNCHANGED <<pc, locals>>
  BY <1>1 DEF locals
<1>2. \/ UNCHANGED <<pc, locals>>
      \/ \E s \in Shoots : Begin(s)
      \/ pc \notin {"idle", "clear"} /\ UNCHANGED <<cur, seen>>
  BY DEF Next, Gardenlet, CreateExtension, RequestReconcile, DeleteExtension, Deliver,
         DeliverConfig, SecretChanged,
         GarbageCollect, CMPOnItsOwn, CMPOutage, Restart, Idle, Worker, TakeNext, TakeNothing,
         AddFinalizer, ReconcileStep, ConfigFails, EnsureConfig, AppPlane, EnsureLB, EnsureVIPPort,
         EnsureVS, ProvisionFails, CredentialsRejected, CPFails, DeployBridge, UndeployBridge,
         SaveConfig, SaveConfigFails, UpdateExtensionOutput, AfterOutput, ClearOperation,
         DeleteStep, FindConfig, DeleteVirtualServer, DeleteVIPPort, DeleteLBService, DeleteCall,
         DeleteBridge, DeleteClearOperation, RemoveFinalizer, Return, ReturnError, GoTo,
         vars, extVars, locals
<1> QED
  BY <1>1, <1>2 DEF Begin, Take

(* Specs of Extensions, copies and configs are providerConfigs of this       *)
(* instance.                                                                 *)
LEMMA NextSpecs ==
  ASSUME ExtTypeOK, SpecInv, [Next]_vars
  PROVE  SpecInv'
<1>1. ASSUME NEW s \in Shoots, ext'[s].uid # 0 PROVE ext'[s].spec \in Specs
  BY <1>1, ExtSteps DEF ExtStep, SpecInv
<1>2. ASSUME NEW s \in Shoots, cache'[s].uid # 0 PROVE cache'[s].spec \in Specs
  BY <1>2, CacheSteps DEF SpecInv
<1>3. ASSUME pc' # "idle" PROVE seen'.spec \in Specs
  BY <1>3, SeenSteps DEF SpecInv, Begin
<1> QED
  BY <1>1, <1>2, <1>3 DEF SpecInv

(* The inductive invariant of a pass. *)
PassInv == ExtTypeOK /\ SpecInv /\ OnTime /\ FlowInv

(* At every step of a pass the worker's copies of Extension and config, the  *)
(* CMP ids in hand and the outcome are those the steps before it left.       *)
THEOREM PassInvariant == Spec => []PassInv
<1>1. Init => PassInv
  <2>1. ASSUME Init PROVE SpecInv
    BY <2>1 DEF Init, SpecInv, NoExt
  <2>2. ASSUME Init PROVE FlowInv
    BY <2>2 DEF Init, FlowInv, Provisioning, IdsInHand, GateOpen, Removing, Concluded,
                Concordant, Passing
  <2>3. ASSUME Init PROVE OnTime
    BY <2>3 DEF Init, OnTime, NoCfg
  <2> QED
    BY <2>1, <2>2, <2>3, InitTyped DEF PassInv
<1>2. PassInv /\ [Next]_vars => PassInv'
  BY NextTyped, NextSpecs, NextOnTime, NextFlows DEF PassInv
<1> QED
  BY <1>1, <1>2, PTL DEF Spec

(* A Shoot is given a bridge only in its own pass, with the spec in hand.    *)
LEMMA BridgeSteps ==
  ASSUME ExtTypeOK, [Next]_vars, NEW s \in Shoots, bridge'[s] # bridge[s], bridge'[s] # NoSpec
  PROVE  pc = "deploy" /\ s = cur /\ bridge'[s] = mem.spec
<1>1. ~UNCHANGED bridge
  OBVIOUS
<1>2. \/ DeployBridge
      \/ RemoveBridge
  BY <1>1
     DEF Next, Gardenlet, CreateExtension, RequestReconcile, DeleteExtension, Deliver,
         DeliverConfig, SecretChanged,
         GarbageCollect, CMPOnItsOwn, CMPOutage, Restart, Worker, TakeNext, TakeNothing,
         AddFinalizer, Begin, ReconcileStep, ConfigFails, EnsureConfig, EnsureLB, EnsureVIPPort,
         EnsureVS, ProvisionFails, CredentialsRejected, UndeployBridge, SaveConfig,
         SaveConfigFails, UpdateExtensionOutput, ClearOperation,
         DeleteStep, FindConfig, DeleteVirtualServer, DeleteVIPPort, DeleteLBService, DeleteCall,
         DeleteBridge, DeleteClearOperation, RemoveFinalizer, vars, extVars
<1>3. ~RemoveBridge
  BY DEF RemoveBridge, ExtTypeOK
<1>4. DeployBridge
  BY <1>2, <1>3
<1> QED
  BY <1>1, <1>4 DEF DeployBridge, ExtTypeOK

(* A bridge is deployed only in a pass that itself made or found a complete  *)
(* control plane, however old the copy it works on.                          *)
THEOREM ApplicationAfterControlPlane == Spec => AppAfterControlPlane
<1>1. ASSUME PassInv, [Next]_vars,
             NEW s \in Shoots, bridge'[s] # bridge[s], bridge'[s] # NoSpec
      PROVE  /\ CPCase(mem.spec) \in {"shared", "manual", "cmp"}
             /\ CPCase(mem.spec) = "cmp" => NoId \notin {mem.ids.lb, mem.ids.vip, mem.ids.vs}
  <2>1. pc = "deploy"
    BY <1>1, BridgeSteps DEF PassInv
  <2> QED
    BY <1>1, <2>1 DEF PassInv, FlowInv, GateOpen, Complete
<1>2. PassInv /\ [Next]_vars =>
        [\A s \in Shoots : bridge'[s] # bridge[s] /\ bridge'[s] # NoSpec =>
            /\ CPCase(mem.spec) \in {"shared", "manual", "cmp"}
            /\ CPCase(mem.spec) = "cmp" => NoId \notin {mem.ids.lb, mem.ids.vip, mem.ids.vs}]_vars
  BY <1>1
<1> QED
  BY <1>2, PassInvariant, PTL DEF Spec, AppAfterControlPlane

(* ------------------------ A success and its record ------------------------ *)

(* A pass comes to its output from the save of the config, or has been there. *)
LEMMA OutputSteps ==
  ASSUME PassInv, [Next]_vars, pc' = "output"
  PROVE  /\ cur \in Shoots /\ UNCHANGED <<cur, mem, why>> /\ ~EnsureConfig
         /\ \/ pc = "output" /\ ~SaveConfig
            \/ pc = "save" /\ (SaveConfig \/ ~Done(why))
<1>1. WorkerOK
  BY TypeParts DEF PassInv
<1>2. ASSUME NEW m, AppPlane(m) PROVE pc' # "output"
  BY <1>2 DEF AppPlane, GoTo
<1>3. CASE ReconcileStep
  <2>1. ~EnsureConfig /\ ~EnsureVS
    BY <1>2 DEF EnsureConfig, EnsureVS, GoTo
  <2>2. pc # "idle" /\ (SaveConfig \/ SaveConfigFails)
    BY <1>3, <2>1 DEF ReconcileStep, ConfigFails, EnsureLB, EnsureVIPPort, ProvisionFails,
       CredentialsRejected, CPFails, DeployBridge, UndeployBridge, SaveConfig, SaveConfigFails,
       UpdateExtensionOutput, AfterOutput, ClearOperation, Return, ReturnError, Idle, GoTo
  <2> QED
    BY <1>1, <2>1, <2>2, Busy DEF SaveConfig, SaveConfigFails, ReturnError, Idle, GoTo
<1>4. CASE ~ReconcileStep
  <2>1. UNCHANGED <<pc, locals>>
    BY <1>4 DEF Next, Gardenlet, CreateExtension, RequestReconcile, DeleteExtension, Deliver,
       DeliverConfig, SecretChanged, GarbageCollect, CMPOnItsOwn, CMPOutage, Restart, Idle,
       Worker, TakeNext, TakeNothing, AddFinalizer, Begin, DeleteStep, FindConfig,
       DeleteVirtualServer, DeleteVIPPort, DeleteLBService, DeleteCall, DeleteBridge,
       DeleteClearOperation, RemoveFinalizer, Return, ReturnError, GoTo, vars, extVars, locals
  <2> QED
    BY <1>1, <2>1, Busy DEF EnsureConfig, SaveConfig, locals
<1> QED
  BY <1>3, <1>4

(* What a successful pass is about to report is what it saved. *)
SavedInv == pc = "output" /\ Done(why) /\ cfg[cur].there =>
                cfg[cur].spec = mem.spec /\ cfg[cur].ids = mem.ids

(* It stays so until it is reported.                                         *)
LEMMA SavedNext ==
  ASSUME PassInv, SavedInv, [Next]_vars
  PROVE  SavedInv'
<1> SUFFICES ASSUME pc' = "output", Done(why'), cfg'[cur'].there
             PROVE  cfg'[cur'].spec = mem'.spec /\ cfg'[cur'].ids = mem'.ids
  BY DEF SavedInv
<1>1. /\ cur \in Shoots /\ UNCHANGED <<cur, mem, why>> /\ ~EnsureConfig
      /\ \/ pc = "output" /\ ~SaveConfig
         \/ pc = "save" /\ (SaveConfig \/ ~Done(why))
  BY OutputSteps
<1>2. CfgMove(cur)
  BY <1>1, CfgMoves DEF PassInv
<1>3. CASE pc = "output" /\ ~SaveConfig
  BY <1>1, <1>2, <1>3 DEF CfgMove, SavedInv, NoCfg
<1>4. CASE pc = "save" /\ SaveConfig
  BY <1>1, <1>4 DEF SaveConfig, PassInv, ExtTypeOK, CfgRecord
<1> QED
  BY <1>1, <1>3, <1>4

(* A pass reports a success only of what is recorded, however old the copies *)
(* of the Extension and of the config it worked on, and whatever fails.      *)
THEOREM SuccessesAreRecorded == Spec => []SuccessIsRecorded
<1>1. Init => SavedInv
  BY DEF Init, SavedInv
<1>2. PassInv /\ SavedInv /\ [Next]_vars => SavedInv'
  BY SavedNext
<1>3. PassInv /\ SavedInv => SuccessIsRecorded
  BY DEF PassInv, FlowInv, Concluded, Complete, SavedInv, SuccessIsRecorded
<1> QED
  BY <1>1, <1>2, <1>3, PassInvariant, PTL DEF Spec

(* ------------------------ The status of a generation ---------------------- *)

(* With reads that are never behind, the Extension a pass works on and the   *)
(* one at the API server differ only in what gardenlet asked for since.      *)
Truthful(s) ==
    ext[s].uid # 0 => /\ ext[s].st.gen <= ext[s].gen
                      /\ ext[s].st.gen = ext[s].gen => ext[s].st.why \in Outcomes(ext[s].spec)
InStep ==
    pc # "idle" => /\ ext[cur].uid # 0 /\ ext[cur].fin
                   /\ seen.gen <= ext[cur].gen
                   /\ seen.gen = ext[cur].gen => seen.spec = ext[cur].spec
                   /\ pc # "clear" => seen.st = ext[cur].st
StatusInv == (\A s \in Shoots : Truthful(s)) /\ InStep

(* On a fresh copy the merge patch writes exactly the wanted status.         *)
LEMMA PatchIsExact ==
  ASSUME NEW new \in StatusRecord, NEW base \in StatusRecord
  PROVE  /\ Patched(base, new, base).gen = new.gen
         /\ Patched(base, new, base).why = new.why
BY DEF Patched, Sent, StatusRecord

(* On fresh reads a pass knows its generation's spec and the status of now.  *)
LEMMA InStepNext ==
  ASSUME StaleReads = FALSE, PassInv, StatusInv, [Next]_vars
  PROVE  InStep'
<1> SUFFICES ASSUME pc' # "idle"
             PROVE  /\ ext'[cur'].uid # 0 /\ ext'[cur'].fin
                    /\ seen'.gen <= ext'[cur'].gen
                    /\ seen'.gen = ext'[cur'].gen => seen'.spec = ext'[cur'].spec
                    /\ pc' # "clear" => seen'.st = ext'[cur'].st
  BY DEF InStep
<1>1. ExtTypeOK /\ WorkerOK /\ ObjectsOK
  BY TypeParts DEF PassInv
<1>2. CASE pc = "idle" /\ \E s \in Shoots : Begin(s)
  <2>1. PICK s \in Shoots : Begin(s)
    BY <1>2
  <2>2. ext' = ext /\ cur' = s /\ seen' = ext[s] /\ ext[s].uid # 0 /\ ext[s].fin
    BY <2>1 DEF Begin, Take
  <2>3. ext[s].gen \in Nat
    BY <1>1 DEF ObjectsOK, ExtRecord
  <2> QED
    BY <2>2, <2>3
<1>3. CASE pc # "idle" /\ UNCHANGED <<cur, seen>> /\ (pc = "clear" => pc' = "clear")
  <2>1. /\ cur \in Shoots /\ ext[cur].uid # 0 /\ ext[cur].fin
        /\ seen.gen <= ext[cur].gen
        /\ seen.gen = ext[cur].gen => seen.spec = ext[cur].spec
        /\ pc # "clear" => seen.st = ext[cur].st
    BY <1>1, <1>3, Busy DEF StatusInv, InStep
  <2>2. seen.gen \in Nat /\ ext[cur].gen \in Nat
    BY <1>1, <2>1 DEF WorkerOK, ObjectsOK, ExtRecord
  <2>3. ExtStep(cur)
    BY <1>1, <2>1, ExtSteps
  <2> QED
    BY <1>3, <2>1, <2>2, <2>3 DEF ExtStep
<1> QED
  BY <1>2, <1>3, SeenSteps

(* Every step keeps the statuses of their generations.                       *)
LEMMA TruthfulNext ==
  ASSUME StaleConfigs = FALSE, PassInv, StatusInv, [Next]_vars, NEW s \in Shoots
  PROVE  Truthful(s)'
<1> SUFFICES ASSUME ext'[s].uid # 0
             PROVE  /\ ext'[s].st.gen <= ext'[s].gen
                    /\ ext'[s].st.gen = ext'[s].gen => ext'[s].st.why \in Outcomes(ext'[s].spec)
  BY DEF Truthful, Outcomes, CPCase, AppCase
<1>1. ExtTypeOK /\ WorkerOK /\ ObjectsOK
  BY TypeParts DEF PassInv
<1>2. /\ ext[s] \in ExtRecord /\ ext'[s] \in ExtRecord
      /\ ext[s].gen \in Nat /\ ext[s].st.gen \in Nat /\ ext'[s].gen \in Nat /\ ext'[s].st.gen \in Nat
  <2>1. ExtTypeOK'
    BY <1>1, NextTyped
  <2> QED
    BY <1>1, <2>1 DEF ExtTypeOK, ExtRecord, StatusRecord
<1>3. Truthful(s)
  BY DEF StatusInv
<1>4. ExtStep(s)
  BY <1>1, ExtSteps
<1>5. CASE ext'[s] = ext[s]
  BY <1>3, <1>5 DEF Truthful
<1>6. CASE ext[s].uid = 0 /\ ext'[s].st.gen < ext'[s].gen
  BY <1>2, <1>6
<1>7. CASE /\ ext[s].uid # 0 /\ ext'[s].st = ext[s].st
           /\ ext'[s].gen = IF ext'[s].spec = ext[s].spec THEN ext[s].gen ELSE ext[s].gen + 1
  BY <1>2, <1>3, <1>7 DEF Truthful
<1>8. CASE /\ ext'[s].uid = ext[s].uid /\ ext'[s].spec = ext[s].spec /\ ext'[s].gen = ext[s].gen
           /\ ext'[s].st = ext[s].st
  BY <1>3, <1>8 DEF Truthful
<1>9. CASE /\ ext'[s].spec = ext[s].spec /\ ext'[s].gen = ext[s].gen
           /\ pc = "output" /\ s = cur /\ ext'[s].st = Patched(ext[s].st, Output, seen.st)
  <2>1. seen.st = ext[s].st /\ seen.gen <= ext[s].gen
        /\ (seen.gen = ext[s].gen => seen.spec = ext[s].spec)
    BY <1>9 DEF StatusInv, InStep
  <2>2. ext'[s].st.gen = seen.gen /\ ext'[s].st.why = why
    <3>1. Output.gen = seen.gen /\ Output.why = why
      BY DEF Output
    <3> QED
      BY <1>1, <1>2, <1>9, <2>1, <3>1, OutputTyped, PatchIsExact DEF ExtRecord
  <2>3. why \in Outcomes(seen.spec)
    BY <1>9 DEF PassInv, FlowInv, Concluded, Concordant, Passing
  <2> QED
    BY <1>9, <2>1, <2>2, <2>3
<1> QED
  BY <1>4, <1>5, <1>6, <1>7, <1>8, <1>9 DEF ExtStep

(* If a pass starts on what the API server holds of Extension and config,    *)
(* whatever gardenlet changes during it: the generation a status names is    *)
(* the one it tells of.                                                      *)
THEOREM StatusIsOfItsGeneration ==
  ASSUME StaleReads = FALSE, StaleConfigs = FALSE
  PROVE  Spec => []StatusOfGeneration
<1>1. Init => StatusInv
  BY DEF Init, StatusInv, Truthful, InStep, NoExt
<1>2. PassInv /\ StatusInv /\ [Next]_vars => StatusInv'
  BY InStepNext, TruthfulNext DEF StatusInv
<1>3. StatusInv => StatusOfGeneration
  BY DEF StatusInv, Truthful, StatusOfGeneration
<1> QED
  BY <1>1, <1>2, <1>3, PassInvariant, PTL DEF Spec

(* ------------------------- No request is slept through -------------------- *)

(* Two copies of an Extension that carry the same timestamp show the same    *)
(* request, the second one perhaps with the finalizer added since.           *)
Agree(a, b) ==
    a.uid # 0 /\ b.uid # 0 /\ a.ts = b.ts =>
        a.uid = b.uid /\ a.spec = b.spec /\ a.deleting = b.deleting /\ (a.fin => b.fin)
(* Nothing that is still to be delivered would queue the Shoot. *)
Delivered(s) ==
    cache[s].uid = ext[s].uid /\ cache[s].ts = ext[s].ts /\ (ext[s].fin => cache[s].fin)

Stamps  == /\ \A s \in Shoots : ext[s].ts <= clock /\ cache[s].ts <= clock
           /\ pc # "idle" => seen.ts <= clock
Reads   == /\ \A s \in Shoots : Agree(cache[s], ext[s])
           /\ pc # "idle" => seen.uid # 0 /\ seen.fin /\ Agree(seen, ext[cur])
Noticed == pc # "idle" => cur \in queue \/ (cache[cur].uid = seen.uid /\ cache[cur].ts = seen.ts)
Ending  == {"save", "output", "clear"}
Carried ==
    /\ pc \in Ending /\ Deployable(seen.spec) => why \in {"reconciled", "failed"}
    /\ pc \in Ending /\ why = "reconciled" => bridge[cur] = seen.spec
    /\ pc = "clear" => why # "failed"
Handled(s) ==
    There(s) /\ s \notin queue /\ cur # s /\ Delivered(s) =>
        ext[s].fin /\ (Deployable(ext[s].spec) => bridge[s] = ext[s].spec)
WakeInv == Stamps /\ Reads /\ Noticed /\ Carried /\ \A s \in Shoots : Handled(s)

(* What one step does to the request an Extension carries. *)
Kept(s) == /\ ext'[s].uid = ext[s].uid /\ ext'[s].spec = ext[s].spec /\ ext'[s].ts = ext[s].ts
           /\ ext'[s].deleting = ext[s].deleting /\ (ext[s].fin => ext'[s].fin)
AskStep(s) ==
    \/ ext'[s].uid = 0 /\ ext'[s].ts = 0
    \/ clock < clock' /\ ext'[s].ts = clock'
    \/ Kept(s)

(* Every act of gardenlet shows: a later timestamp, or the Extension is      *)
(* gone.                                                                     *)
LEMMA GardenletAsks ==
  ASSUME ExtTypeOK, NEW t \in Shoots, Gardenlet(t), NEW s \in Shoots
  PROVE  AskStep(s) /\ clock < clock'
<1>1. ext \in [Shoots -> ExtRecord] /\ ext[t] \in ExtRecord
  BY DEF ExtTypeOK
<1>2. clock \in Nat /\ clock' = clock + 1 /\ clock < clock'
  <2>1. clock \in Nat
    BY DEF ExtTypeOK, Times
  <2>2. Asks
    <3>1. CreateExtension(t) => Asks
      BY DEF CreateExtension
    <3>2. RequestReconcile(t) => Asks
      BY DEF RequestReconcile
    <3>3. DeleteExtension(t) => Asks
      BY DEF DeleteExtension
    <3> QED
      BY <3>1, <3>2, <3>3 DEF Gardenlet
  <2> QED
    BY <2>1, <2>2 DEF Asks
<1>3. CASE s # t
  <2>1. ext'[s] = ext[s]
    BY <1>1, <1>3 DEF Gardenlet, CreateExtension, RequestReconcile, DeleteExtension
  <2> QED
    BY <1>2, <2>1 DEF AskStep, Kept
<1>4. CASE s = t
  <2>1. ext'[t].ts = clock' \/ ext'[t] = NoExt
    <3>1. CASE CreateExtension(t)
      BY <1>1, <3>1 DEF CreateExtension, NoExt
    <3>2. CASE RequestReconcile(t)
      <4>1. PICK sp \in Specs :
              ext' = [ext EXCEPT ![t] = [ext[t] EXCEPT
                          !.spec = sp, !.op = TRUE, !.ts = clock',
                          !.gen = IF sp = ext[t].spec THEN @ ELSE @ + 1]]
        BY <3>2 DEF RequestReconcile
      <4> DEFINE g == IF sp = ext[t].spec THEN ext[t].gen ELSE ext[t].gen + 1
      <4>2. ext'[t] = [ext[t] EXCEPT !.spec = sp, !.op = TRUE, !.ts = clock', !.gen = g]
        BY <1>1, <4>1
      <4> HIDE DEF g
      <4> QED
        BY <1>1, <4>2 DEF ExtRecord
    <3>3. CASE DeleteExtension(t)
      <4>1. PICK op \in BOOLEAN :
              ext' = [ext EXCEPT ![t] = IF ext[t].fin
                                        THEN [ext[t] EXCEPT !.deleting = TRUE, !.ts = clock',
                                                            !.op = ext[t].op \/ op]
                                        ELSE NoExt]
        BY <3>3 DEF DeleteExtension
      <4> DEFINE b == ext[t].op \/ op
      <4>2. \/ ext'[t] = [ext[t] EXCEPT !.deleting = TRUE, !.ts = clock', !.op = b]
            \/ ext'[t] = NoExt
        BY <1>1, <4>1
      <4> HIDE DEF b
      <4> QED
        BY <1>1, <4>2 DEF ExtRecord
    <3> QED
      BY <3>1, <3>2, <3>3 DEF Gardenlet
  <2> QED
    BY <1>2, <1>4, <2>1 DEF AskStep, NoExt
<1> QED
  BY <1>2, <1>3, <1>4

(* Every step keeps the request of an Extension or is one gardenlet asked    *)
(* for.                                                                      *)
LEMMA AskSteps ==
  ASSUME ExtTypeOK, [Next]_vars, NEW s \in Shoots
  PROVE  AskStep(s) /\ clock <= clock' /\ clock \in Nat /\ clock' \in Nat
<1>1. ext \in [Shoots -> ExtRecord] /\ ext[s] \in ExtRecord /\ clock \in Nat
  BY DEF ExtTypeOK, Times
<1>2. clock' \in Nat
  BY NextTyped DEF ExtTypeOK, Times
<1>3. CASE \E t \in Shoots : Gardenlet(t)
  BY <1>1, <1>2, <1>3, GardenletAsks
<1>4. CASE UNCHANGED <<ext, clock>>
  BY <1>1, <1>4 DEF AskStep, Kept
<1>5. CASE UNCHANGED clock /\ \E t \in Shoots : AddFinalizer(t)
  <2>1. ext'[s] = ext[s] \/ ext'[s] = [ext[s] EXCEPT !.fin = TRUE]
    BY <1>1, <1>5 DEF AddFinalizer
  <2> QED
    BY <1>1, <1>5, <2>1 DEF AskStep, Kept, ExtRecord
<1>6. CASE UNCHANGED clock /\ UpdateExtensionOutput
  <2>1. \/ ext'[s] = ext[s]
        \/ ext'[s] = [ext[s] EXCEPT !.st = Patched(ext[s].st, Output, seen.st)]
    BY <1>1, <1>6 DEF UpdateExtensionOutput
  <2>2. Kept(s)
    BY <1>1, <2>1 DEF Kept, ExtRecord
  <2> QED
    BY <1>1, <1>6, <2>2 DEF AskStep
<1>7. CASE UNCHANGED clock /\ (ClearOperation \/ DeleteClearOperation)
  <2>1. ext'[s] = ext[s] \/ ext'[s] = [ext[s] EXCEPT !.op = FALSE]
    BY <1>1, <1>7 DEF ClearOperation, DeleteClearOperation
  <2> QED
    BY <1>1, <1>7, <2>1 DEF AskStep, Kept, ExtRecord
<1>8. CASE UNCHANGED clock /\ RemoveFinalizer
  <2>1. ext'[s] = ext[s] \/ ext'[s] = NoExt
    BY <1>1, <1>8 DEF RemoveFinalizer
  <2> QED
    BY <1>1, <1>8, <2>1 DEF AskStep, Kept, NoExt
<1>9. \/ \E t \in Shoots : Gardenlet(t)
      \/ UNCHANGED <<ext, clock>>
      \/ UNCHANGED clock /\ \/ \E t \in Shoots : AddFinalizer(t)
                            \/ UpdateExtensionOutput \/ ClearOperation
                            \/ DeleteClearOperation \/ RemoveFinalizer
  BY DEF Next, Deliver, DeliverConfig, SecretChanged, GarbageCollect, CMPOnItsOwn, CMPOutage,
         Restart, Worker,
         TakeNext, TakeNothing, AddFinalizer, Begin, ReconcileStep, ConfigFails, EnsureConfig,
         EnsureLB, EnsureVIPPort, EnsureVS, ProvisionFails, CredentialsRejected, DeployBridge,
         UndeployBridge, SaveConfig, SaveConfigFails, UpdateExtensionOutput, ClearOperation,
         DeleteStep, FindConfig, DeleteVirtualServer, DeleteVIPPort, DeleteLBService, DeleteCall,
         DeleteBridge, DeleteClearOperation, RemoveFinalizer, vars, extVars
<1> QED
  BY <1>3, <1>4, <1>5, <1>6, <1>7, <1>8, <1>9

(* No timestamp is ahead of the clock.                                       *)
LEMMA StampsNext ==
  ASSUME PassInv, Stamps, [Next]_vars
  PROVE  Stamps'
<1>1. ExtTypeOK /\ ExtTypeOK'
  BY NextTyped DEF PassInv
<1>2. ASSUME NEW s \in Shoots
      PROVE  /\ ext[s].ts \in Nat /\ cache[s].ts \in Nat /\ seen.ts \in Nat /\ ext'[s].ts \in Nat
             /\ clock \in Nat /\ clock' \in Nat /\ clock <= clock'
  <2>1. ext[s] \in ExtRecord /\ cache[s] \in ExtRecord /\ seen \in ExtRecord /\ ext'[s] \in ExtRecord
    BY <1>1 DEF ExtTypeOK
  <2> QED
    BY <1>1, <2>1, AskSteps DEF ExtRecord, Times
<1>3. ASSUME NEW s \in Shoots PROVE ext'[s].ts <= clock'
  BY <1>1, <1>2, AskSteps DEF AskStep, Kept, Stamps
<1>4. ASSUME NEW s \in Shoots PROVE cache'[s].ts <= clock'
  BY <1>1, <1>2, CacheSteps DEF Stamps
<1>5. ASSUME pc' # "idle" PROVE seen'.ts <= clock'
  <2>1. CASE \E s \in Shoots : Begin(s)
    BY <1>2, <2>1 DEF Stamps, Begin
  <2>2. CASE pc # "idle" /\ UNCHANGED seen
    <3>1. cur \in Shoots
      BY <1>1, <2>2, TypeParts, Busy
    <3> QED
      BY <1>2, <2>2, <3>1 DEF Stamps
  <2> QED
    BY <1>5, <2>1, <2>2, SeenSteps
<1> QED
  BY <1>3, <1>4, <1>5 DEF Stamps

(* A copy that agrees with the Extension goes on agreeing with it. *)
LEMMA AgreeNext ==
  ASSUME PassInv, [Next]_vars, NEW s \in Shoots, NEW a \in ExtRecord, a.ts <= clock,
         Agree(a, ext[s])
  PROVE  Agree(a, ext'[s])
<1>1. a.ts \in Nat
  BY DEF ExtRecord, Times
<1>2. AskStep(s) /\ clock \in Nat /\ clock' \in Nat
  BY AskSteps DEF PassInv
<1> QED
  BY <1>1, <1>2 DEF Agree, AskStep, Kept

(* A copy with the timestamp of now shows the request of now.                *)
LEMMA ReadsNext ==
  ASSUME PassInv, Stamps, Reads, [Next]_vars
  PROVE  Reads'
<1>1. ExtTypeOK /\ WorkerOK /\ ObjectsOK
  BY TypeParts DEF PassInv
<1>2. ASSUME NEW s \in Shoots PROVE Agree(cache'[s], ext'[s])
  <2>1. CASE cache'[s] = cache[s]
    BY <1>1, <2>1, AgreeNext DEF Stamps, Reads, ObjectsOK
  <2>2. CASE cache'[s] = ext'[s]
    BY <2>2 DEF Agree
  <2> QED
    BY <1>1, <2>1, <2>2, CacheSteps
<1>3. ASSUME pc' # "idle" PROVE seen'.uid # 0 /\ seen'.fin /\ Agree(seen', ext'[cur'])
  <2>1. CASE \E s \in Shoots : Begin(s)
    BY <2>1 DEF Begin, Reads
  <2>2. CASE pc # "idle" /\ UNCHANGED <<cur, seen>>
    <3>1. cur \in Shoots /\ seen \in ExtRecord
      BY <1>1, <2>2, Busy DEF WorkerOK
    <3> QED
      BY <2>2, <3>1, AgreeNext DEF Stamps, Reads
  <2> QED
    BY <1>3, <2>1, <2>2, SeenSteps
<1> QED
  BY <1>2, <1>3 DEF Reads, Agree

(* What the informer brings is either queued or of no interest. *)
LEMMA NoticeSteps ==
  ASSUME ExtTypeOK, [Next]_vars, NEW s \in Shoots
  PROVE  \/ cache'[s] = cache[s]
         \/ s \in queue'
         \/ pc' = "idle" /\ cache'[s] = ext[s] /\ UNCHANGED ext /\ ext[s].uid = 0
         \/ cache'[s] = ext[s] /\ UNCHANGED ext /\ Delivered(s)
<1>1. CASE \E t \in Shoots : Deliver(t)
  <2>1. PICK t \in Shoots : Deliver(t)
    BY <1>1
  <2>2. CASE s # t
    BY <2>1, <2>2 DEF Deliver, ExtTypeOK
  <2>3. CASE s = t /\ ~(cache[t].uid # ext[t].uid \/ Reconcilable(cache[t], ext[t]))
    <3>1. cache'[s] = ext[s] /\ UNCHANGED ext
      BY <2>1, <2>3 DEF Deliver, ExtTypeOK
    <3>2. Delivered(s)
      BY <2>3 DEF Delivered, Reconcilable
    <3> QED
      BY <3>1, <3>2
  <2>4. CASE s = t /\ (cache[t].uid # ext[t].uid \/ Reconcilable(cache[t], ext[t]))
    BY <2>1, <2>4 DEF Deliver, Enqueue
  <2> QED
    BY <2>2, <2>3, <2>4
<1>2. CASE Restart
  BY <1>2 DEF Restart, Idle
<1>3. \/ UNCHANGED cache \/ Restart \/ \E t \in Shoots : Deliver(t)
  BY DEF Next, Gardenlet, CreateExtension, RequestReconcile, DeleteExtension, DeliverConfig,
         SecretChanged,
         GarbageCollect, CMPOnItsOwn, CMPOutage, Worker, TakeNext, TakeNothing, AddFinalizer, Begin,
         ReconcileStep, ConfigFails, EnsureConfig, EnsureLB, EnsureVIPPort, EnsureVS,
         ProvisionFails, CredentialsRejected, DeployBridge, UndeployBridge, SaveConfig,
         SaveConfigFails, UpdateExtensionOutput, ClearOperation,
         DeleteStep, FindConfig, DeleteVirtualServer, DeleteVIPPort, DeleteLBService, DeleteCall,
         DeleteBridge, DeleteClearOperation, RemoveFinalizer, vars, extVars
<1> QED
  BY <1>1, <1>2, <1>3

(* A Shoot leaves the queue only when the idle worker takes it. *)
LEMMA QueueSteps ==
  ASSUME ExtTypeOK, [Next]_vars, NEW s \in queue, s \notin queue'
  PROVE  \/ Restart
         \/ pc = "idle" /\ UNCHANGED cache /\ \/ TakeNothing(s) \/ AddFinalizer(s) \/ Begin(s)
<1>1. ASSUME NEW t \in Shoots, TakeNothing(t) \/ AddFinalizer(t) \/ Begin(t)
      PROVE  t = s /\ pc = "idle" /\ UNCHANGED cache
  BY <1>1 DEF TakeNothing, AddFinalizer, Begin, Take
<1>2. ASSUME UNCHANGED queue PROVE FALSE
  BY <1>2
<1>3. ASSUME NEW S, Enqueue(S) PROVE FALSE
  BY <1>3 DEF Enqueue
<1>4. \/ UNCHANGED queue
      \/ \E S : Enqueue(S)
      \/ Restart \/ \E t \in Shoots : TakeNothing(t) \/ AddFinalizer(t) \/ Begin(t)
  <2>1. ASSUME AppPlane(mem') \/ AfterOutput \/ Return \/ ReturnError
        PROVE  UNCHANGED queue \/ \E S : Enqueue(S)
    BY <2>1 DEF AppPlane, AfterOutput, Return, ReturnError, GoTo
  <2>2. ASSUME NEW m, AppPlane(m) PROVE UNCHANGED queue
    BY <2>2 DEF AppPlane, GoTo
  <2>3. ASSUME EnsureConfig \/ EnsureVS PROVE UNCHANGED queue
    BY <2>2, <2>3 DEF EnsureConfig, EnsureVS, GoTo
  <2>4. ASSUME ReconcileStep, ~EnsureConfig, ~EnsureVS PROVE UNCHANGED queue \/ \E S : Enqueue(S)
    BY <2>1, <2>4
       DEF ReconcileStep, ConfigFails, EnsureLB, EnsureVIPPort, ProvisionFails, CredentialsRejected,
           CPFails, DeployBridge, UndeployBridge, SaveConfig, SaveConfigFails,
           UpdateExtensionOutput, ClearOperation, GoTo
  <2>5. ASSUME DeleteStep PROVE UNCHANGED queue \/ \E S : Enqueue(S)
    BY <2>1, <2>5
       DEF DeleteStep, FindConfig, DeleteVirtualServer, DeleteVIPPort, DeleteLBService, DeleteCall,
           DeleteBridge, DeleteClearOperation, RemoveFinalizer, GoTo
  <2>6. CASE Worker
    BY <2>3, <2>4, <2>5, <2>6 DEF Worker, TakeNext
  <2>7. CASE ~Worker
    BY <2>7
       DEF Next, Gardenlet, CreateExtension, RequestReconcile, DeleteExtension, Deliver,
       DeliverConfig, SecretChanged, GarbageCollect, CMPOnItsOwn, CMPOutage, vars, extVars
  <2> QED
    BY <2>6, <2>7
<1> QED
  BY <1>1, <1>2, <1>3, <1>4

(* The worker's Shoot is queued again once a newer request is delivered.     *)
LEMMA NoticedNext ==
  ASSUME PassInv, Noticed, [Next]_vars
  PROVE  Noticed'
<1> SUFFICES ASSUME pc' # "idle"
             PROVE  cur' \in queue' \/ (cache'[cur'].uid = seen'.uid /\ cache'[cur'].ts = seen'.ts)
  BY DEF Noticed
<1>1. ExtTypeOK /\ WorkerOK
  BY TypeParts DEF PassInv
<1>2. CASE \E s \in Shoots : Begin(s)
  BY <1>2 DEF Begin
<1>3. CASE pc # "idle" /\ UNCHANGED <<cur, seen>>
  <2>1. cur \in Shoots
    BY <1>1, <1>3, Busy
  <2>2. CASE cur \in queue
    <3>1. cur \in queue'
      BY <1>1, <1>3, <2>2, QueueSteps DEF Restart, Idle
    <3> QED
      BY <1>3, <3>1
  <2>3. CASE cache[cur].uid = seen.uid /\ cache[cur].ts = seen.ts
    BY <1>1, <1>3, <2>1, <2>3, NoticeSteps DEF Delivered
  <2> QED
    BY <1>3, <2>2, <2>3 DEF Noticed
<1> QED
  BY <1>2, <1>3, SeenSteps

(* A pass that ends well has brought the bridge to the spec it read.         *)
LEMMA CarriedNext ==
  ASSUME "auth" \notin Faults, StaleConfigs = FALSE, PassInv, Carried, [Next]_vars
  PROVE  Carried'
<1>1. ExtTypeOK /\ OnTime /\ FlowInv
  BY DEF PassInv
<1>2. CASE pc' \notin Ending
  BY <1>2 DEF Carried, Ending
<1>3. ASSUME UNCHANGED <<cur, seen>>, pc' = "save", why' \notin {"reconciled"},
             Deployable(seen.spec) => why' = "failed"
      PROVE  Carried'
  BY <1>3 DEF Carried, Deployable, AppCase, CPCase
<1>4. CASE EnsureConfig /\ pc' = "save"
  <2>1. UNCHANGED <<cur, seen>>
    BY <1>4 DEF EnsureConfig, AppPlane, GoTo
  <2> DEFINE m == SyncedConfig(Copy(cur))
  <2>2. m \in CfgRecord /\ m.spec = seen.spec
    <3>1. WorkerOK /\ ObjectsOK /\ cur \in Shoots /\ seen.spec.json
      BY <1>1, <1>4, TypeParts, Busy DEF EnsureConfig
    <3>2. Copy(cur) = cfg[cur] /\ cfg[cur] \in CfgRecord /\ ~cfg[cur].late
      BY <1>1, <3>1 DEF Copy, OnTime, ObjectsOK
    <3> QED
      BY <3>1, <3>2, SyncedTyped, SyncedExactly
  <2>3. CPCase(seen.spec) \notin {"shared", "manual", "cmp"} /\ why' \in {"blocked", "config"}
    <3>1. CASE CPCase(m.spec) \in {"shared", "manual", "cmp"}
      <4>1. GoTo("lb") \/ \E n : n.cp = "true" /\ AppPlane(n)
        <5>1. [m EXCEPT !.cp = "true"].cp = "true" /\ [m EXCEPT !.cp = "true", !.vip = TRUE].cp = "true"
          BY <2>2 DEF CfgRecord
        <5> HIDE DEF m
        <5> QED
          BY <1>4, <3>1, <5>1 DEF EnsureConfig, m
      <4> QED
        BY <1>4, <4>1 DEF AppPlane, GoTo
    <3>2. CASE CPCase(m.spec) \notin {"shared", "manual", "cmp"}
      <4>1. why' = "config" \/ AppPlane([m EXCEPT !.cp = "false"])
        BY <1>4, <3>2 DEF EnsureConfig
      <4>2. [m EXCEPT !.cp = "false"].cp = "false"
        BY <2>2 DEF CfgRecord
      <4>3. why' \in {"blocked", "config"}
        BY <1>4, <4>1, <4>2 DEF AppPlane, GoTo
      <4> QED
        BY <2>2, <3>2, <4>3
    <3> QED
      BY <3>1, <3>2
  <2> QED
    BY <1>3, <1>4, <2>1, <2>3 DEF Deployable
<1>5. CASE ProvisionFails \/ CredentialsRejected
  <2>1. ~CredentialsRejected
    BY DEF CredentialsRejected, Fault
  <2>2. UNCHANGED <<cur, seen>> /\ pc' = "save" /\ why' = "failed"
    BY <1>5, <2>1 DEF ProvisionFails, CPFails, GoTo
  <2> QED
    BY <1>3, <2>2
<1>6. CASE DeployBridge
  <2>1. cur \in Shoots /\ mem.spec = seen.spec /\ bridge \in [Shoots -> ProviderConfigs]
        /\ UNCHANGED <<cur, seen>> /\ pc' = "save"
    BY <1>1, <1>6, TypeParts, Busy DEF DeployBridge, FlowInv, Concordant, Passing, GoTo, ObjectsOK
  <2>2. \/ why' = "config" /\ AppCase(seen.spec) = "broken"
        \/ why' = "reconciled" /\ bridge'[cur] = seen.spec
        \/ why' = "failed"
    BY <1>6, <2>1 DEF DeployBridge
  <2>3. CASE why' = "reconciled" /\ bridge'[cur] = seen.spec
    BY <2>1, <2>3 DEF Carried
  <2> QED
    BY <1>3, <2>1, <2>2, <2>3 DEF Deployable
<1>7. CASE UndeployBridge
  <2>1. UNCHANGED <<cur, seen>> /\ pc' = "save" /\ why' = "disabled" /\ ~seen.spec.app
    BY <1>1, <1>7 DEF UndeployBridge, GoTo, FlowInv, Removing, Concordant, Passing
  <2> QED
    BY <1>3, <2>1 DEF Deployable, AppCase
<1>8. CASE /\ pc \in Ending /\ pc' \in Ending /\ UNCHANGED <<cur, seen, why, bridge>>
           /\ pc' = "clear" => pc = "clear" \/ why # "failed"
  BY <1>8 DEF Carried, Deployable
<1>9. ~EnsureVS \/ pc' \notin Ending
  <2>1. ASSUME EnsureVS PROVE pc' \notin Ending
    <3>1. PICK i \in Ids :
            AppPlane([mem EXCEPT !.cp = "true", !.vip = TRUE, !.ids = [got EXCEPT !.vs = i]])
      BY <2>1 DEF EnsureVS
    <3> DEFINE m == [mem EXCEPT !.cp = "true", !.vip = TRUE, !.ids = [got EXCEPT !.vs = i]]
    <3>2. m.cp = "true"
      BY <1>1 DEF ExtTypeOK, CfgRecord
    <3>3. AppPlane(m)
      BY <3>1
    <3> HIDE DEF m
    <3> QED
      BY <3>2, <3>3 DEF AppPlane, GoTo, Ending
  <2> QED
    BY <2>1
<1>10. \/ pc' \notin Ending
       \/ EnsureConfig /\ pc' = "save"
       \/ EnsureVS \/ ProvisionFails \/ CredentialsRejected \/ DeployBridge \/ UndeployBridge
       \/ /\ pc \in Ending /\ pc' \in Ending /\ UNCHANGED <<cur, seen, why, bridge>>
          /\ pc' = "clear" => pc = "clear" \/ why # "failed"
  <2>1. CASE ReconcileStep
    <3>1. CASE EnsureConfig
      BY <3>1 DEF EnsureConfig, AppPlane, GoTo, Ending
    <3>2. CASE ConfigFails \/ EnsureLB \/ EnsureVIPPort
      BY <3>2 DEF ConfigFails, EnsureLB, EnsureVIPPort, GoTo, ReturnError, Idle, Ending
    <3>3. CASE SaveConfig \/ SaveConfigFails \/ UpdateExtensionOutput \/ ClearOperation
      BY <3>3 DEF SaveConfig, SaveConfigFails, UpdateExtensionOutput, AfterOutput, ClearOperation,
                  Return, ReturnError, Idle, GoTo, Ending
    <3> QED
      BY <2>1, <3>1, <3>2, <3>3 DEF ReconcileStep
  <2>2. CASE DeleteStep
    BY <2>2 DEF DeleteStep, FindConfig, DeleteVirtualServer, DeleteVIPPort, DeleteLBService,
                DeleteCall, DeleteBridge, DeleteClearOperation, RemoveFinalizer, Return,
                ReturnError, Idle, GoTo, Ending
  <2>3. CASE ~ReconcileStep /\ ~DeleteStep
    BY <2>3 DEF Next, Gardenlet, CreateExtension, RequestReconcile, DeleteExtension, Deliver,
       DeliverConfig, SecretChanged, GarbageCollect, CMPOnItsOwn, CMPOutage, Restart, Idle,
       Worker, TakeNext, TakeNothing, AddFinalizer, Begin, Ending, vars, extVars, locals
  <2> QED
    BY <2>1, <2>2, <2>3
<1> QED
  BY <1>2, <1>4, <1>5, <1>6, <1>7, <1>8, <1>9, <1>10

(* The bridge of a Shoot changes only in its own pass.                       *)
LEMMA OthersBridge ==
  ASSUME ExtTypeOK, [Next]_vars, NEW s \in Shoots, s # cur
  PROVE  bridge'[s] = bridge[s]
<1>1. CASE DeployBridge \/ RemoveBridge
  BY <1>1 DEF DeployBridge, RemoveBridge, ExtTypeOK
<1>2. UNCHANGED bridge \/ DeployBridge \/ RemoveBridge
  BY DEF Next, Gardenlet, CreateExtension, RequestReconcile, DeleteExtension, Deliver,
         DeliverConfig, SecretChanged,
         GarbageCollect, CMPOnItsOwn, CMPOutage, Restart, Worker, TakeNext, TakeNothing,
         AddFinalizer, Begin, ReconcileStep, ConfigFails, EnsureConfig, EnsureLB, EnsureVIPPort,
         EnsureVS, ProvisionFails, CredentialsRejected, UndeployBridge, SaveConfig,
         SaveConfigFails, UpdateExtensionOutput, ClearOperation,
         DeleteStep, FindConfig, DeleteVirtualServer, DeleteVIPPort, DeleteLBService, DeleteCall,
         DeleteBridge, DeleteClearOperation, RemoveFinalizer, vars, extVars
<1> QED
  BY <1>1, <1>2

(* How a pass can end: to be repeated, with a restart, handled, or deleted. *)
LEMMA EndSteps ==
  ASSUME ExtTypeOK, [Next]_vars, pc # "idle", cur' # cur
  PROVE  \/ cur \in queue'
         \/ Restart
         \/ pc = "clear" /\ UNCHANGED <<queue, cache, bridge>>
         \/ ext'[cur].uid = 0
<1>1. cur \in Shoots
  BY TypeParts, Busy
<1>2. ASSUME ReturnError PROVE cur \in queue'
  BY <1>2 DEF ReturnError, Enqueue
<1>3. CASE ReconcileStep
  <2>1. \/ ReturnError
        \/ ClearOperation /\ UNCHANGED <<queue, cache, bridge>> /\ pc = "clear"
    BY <1>3 DEF ReconcileStep, ConfigFails, EnsureConfig, AppPlane, EnsureLB, EnsureVIPPort,
                EnsureVS, ProvisionFails, CredentialsRejected, CPFails, DeployBridge,
                UndeployBridge, SaveConfig, SaveConfigFails, UpdateExtensionOutput, AfterOutput,
                ClearOperation, Return, GoTo
  <2> QED
    BY <1>2, <2>1
<1>4. CASE DeleteStep
  <2>1. ReturnError \/ (RemoveFinalizer /\ ext' = [ext EXCEPT ![cur] = NoExt])
    BY <1>4 DEF DeleteStep, FindConfig, DeleteVirtualServer, DeleteVIPPort, DeleteLBService,
                DeleteCall, DeleteBridge, DeleteClearOperation, RemoveFinalizer, Return, GoTo
  <2> QED
    BY <1>1, <1>2, <2>1 DEF NoExt, ExtTypeOK
<1>5. CASE ~ReconcileStep /\ ~DeleteStep
  BY <1>5 DEF Next, Gardenlet, CreateExtension, RequestReconcile, DeleteExtension, Deliver,
     DeliverConfig, SecretChanged, GarbageCollect, CMPOnItsOwn, CMPOutage, Worker, TakeNext,
     TakeNothing, AddFinalizer, Begin, Take, vars, extVars, locals
<1> QED
  BY <1>3, <1>4, <1>5

(* Every step leaves a request handled or about to be noticed.               *)
LEMMA HandledNext ==
  ASSUME PassInv, WakeInv, [Next]_vars, NEW s \in Shoots
  PROVE  Handled(s)'
<1> SUFFICES ASSUME ext'[s].uid # 0, ~ext'[s].deleting, s \notin queue', cur' # s,
                    cache'[s].uid = ext'[s].uid, cache'[s].ts = ext'[s].ts,
                    ext'[s].fin => cache'[s].fin
             PROVE  ext'[s].fin /\ (Deployable(ext'[s].spec) => bridge'[s] = ext'[s].spec)
  BY DEF Handled, There, Delivered, Deployable
<1>1. ExtTypeOK /\ WorkerOK /\ Stamps /\ Reads /\ Noticed /\ Carried /\ Handled(s)
  BY TypeParts DEF PassInv, WakeInv
<1>2. ~Restart
  BY DEF Restart
<1>3. Kept(s)
  <2>1. AskStep(s) /\ clock \in Nat /\ clock' \in Nat
    BY <1>1, AskSteps
  <2>2. cache'[s].ts <= clock
    BY <1>1, CacheSteps DEF Stamps
  <2>3. ~(clock < clock' /\ ext'[s].ts = clock')
    BY <2>1, <2>2
  <2> QED
    BY <2>1, <2>3 DEF AskStep
<1>4. CASE cur = s
  <2>1. pc # "idle"
    BY <1>1, <1>4, CPAssumption DEF WorkerOK, CPAssumption
  <2>2. pc = "clear" /\ UNCHANGED <<queue, cache, bridge>>
    BY <1>1, <1>2, <1>4, <2>1, EndSteps
  <2>3. cache[s].uid = seen.uid /\ cache[s].ts = seen.ts
    BY <1>1, <1>4, <2>1, <2>2 DEF Noticed
  <2>4. ext[s].uid = seen.uid /\ ext[s].ts = seen.ts
    BY <1>3, <2>2, <2>3 DEF Kept
  <2>5. ext[s].spec = seen.spec /\ ext[s].fin
    BY <1>1, <1>4, <2>1, <2>4 DEF Reads, Agree
  <2>6. Deployable(seen.spec) => bridge[s] = seen.spec
    BY <1>1, <1>4, <2>2 DEF Carried, Ending
  <2> QED
    BY <1>3, <2>2, <2>5, <2>6 DEF Kept
<1>5. CASE cur # s /\ s \in queue
  <2>1. pc = "idle" /\ UNCHANGED cache /\ (TakeNothing(s) \/ AddFinalizer(s))
    <3>1. ~Begin(s)
      BY DEF Begin
    <3> QED
      BY <1>1, <1>2, <1>5, <3>1, QueueSteps
  <2>2. CASE TakeNothing(s)
    <3>1. cache[s].uid # 0 /\ cache[s].deleting
      BY <2>1, <2>2 DEF TakeNothing
    <3>2. ext[s].uid = cache[s].uid /\ ext[s].ts = cache[s].ts /\ ~ext[s].deleting
      BY <1>3, <2>1 DEF Kept
    <3> QED
      BY <1>1, <3>1, <3>2 DEF Reads, Agree
  <2>3. CASE AddFinalizer(s)
    <3>1. ext'[s].fin /\ ~cache[s].fin
      BY <1>1, <1>5, <2>3 DEF AddFinalizer, ExtTypeOK, ExtRecord
    <3> QED
      BY <2>1, <3>1
  <2> QED
    BY <2>1, <2>2, <2>3
<1>6. CASE cur # s /\ s \notin queue
  <2>1. bridge'[s] = bridge[s]
    BY <1>1, <1>6, OthersBridge
  <2>2. Delivered(s)
    <3>1. CASE cache'[s] = cache[s]
      BY <1>3, <3>1 DEF Kept, Delivered
    <3> QED
      BY <1>1, <3>1, NoticeSteps
  <2>3. There(s)
    BY <1>3 DEF Kept, There
  <2>4. ext[s].fin /\ (Deployable(ext[s].spec) => bridge[s] = ext[s].spec)
    BY <1>1, <1>6, <2>2, <2>3 DEF Handled
  <2> QED
    BY <1>3, <2>1, <2>4 DEF Kept
<1> QED
  BY <1>4, <1>5, <1>6

(* If CMP never rejects the credentials and a pass reads its config as it    *)
(* is: whatever gardenlet changed, however late it learns of that, calls     *)
(* fail and the controller restarts, a Shoot that is neither queued nor at   *)
(* work nor undelivered runs what was asked for.                             *)
THEOREM NoRequestSleptThrough ==
  ASSUME "auth" \notin Faults, StaleConfigs = FALSE
  PROVE  Spec => []SettledAgrees
<1>1. Init => WakeInv
  BY DEF Init, WakeInv, Stamps, Reads, Noticed, Carried, Ending, Agree, Handled, There, NoExt
<1>2. PassInv /\ WakeInv /\ [Next]_vars => WakeInv'
  BY StampsNext, ReadsNext, NoticedNext, CarriedNext, HandledNext DEF WakeInv
<1>3. WakeInv => SettledAgrees
  BY DEF WakeInv, Handled, Delivered, SettledAgrees, Settled
<1> QED
  BY <1>1, <1>2, <1>3, PassInvariant, PTL DEF Spec

(* ---------------------- Nothing is left at CMP ----------------------------- *)

(* The steps of a pass that has a config, of a reconciliation and of a       *)
(* deletion.                                                                 *)
Provision   == {"lb", "vip", "vs"}
Saving      == {"deploy", "undeploy", "save"}
Reconciling == Provision \cup Saving \cup {"config", "output", "clear"}
Deleting    == {"find", "del_vs", "del_vip", "del_lb", "del_bridge", "del_clear", "del_finalizer"}

(* How the finalizer and the deletion of an Extension move.                  *)
ExtMove(s) ==
    \/ /\ ext'[s].uid = ext[s].uid
       /\ (ext[s].fin => ext'[s].fin) /\ (ext[s].deleting => ext'[s].deleting)
       /\ ext[s].uid = 0 => ext'[s].fin = ext[s].fin
    \/ /\ ext[s].uid = 0 /\ ext'[s].uid = clock' /\ clock < clock'
       /\ ~ext'[s].fin /\ ~ext'[s].deleting
       /\ PromptGC => ~cfg[s].there
       /\ UNCHANGED <<cfg, cache, pc, cur, seen>>
    \/ /\ ext'[s] = NoExt /\ UNCHANGED <<cfg, cache>>
       /\ \/ ~ext[s].fin /\ UNCHANGED <<pc, cur, seen>>
          \/ s = cur /\ ext[s] = seen /\ pc = "del_finalizer" /\ pc' = "idle"

(* What gardenlet does is such a move.                                      *)
LEMMA GardenletMoves ==
  ASSUME ExtTypeOK, NEW t \in Shoots, Gardenlet(t), NEW s \in Shoots
  PROVE  ExtMove(s)
<1>1. ext \in [Shoots -> ExtRecord] /\ ext[t] \in ExtRecord /\ ext[s] \in ExtRecord
  BY DEF ExtTypeOK
<1>2. UNCHANGED <<cfg, cache, pc, cur, seen>>
  BY DEF Gardenlet, CreateExtension, RequestReconcile, DeleteExtension, locals
<1>3. CASE CreateExtension(t)
  <2>1. PICK sp \in Specs :
          ext' = [ext EXCEPT ![t] = [NoExt EXCEPT !.uid = clock', !.spec = sp, !.gen = 1,
                                                  !.op = TRUE, !.ts = clock']]
    BY <1>3 DEF CreateExtension
  <2> DEFINE e == [NoExt EXCEPT !.uid = clock', !.spec = sp, !.gen = 1, !.op = TRUE, !.ts = clock']
  <2>2. e.uid = clock' /\ ~e.fin /\ ~e.deleting
    BY DEF NoExt
  <2>3. ext'[s] = IF s = t THEN e ELSE ext[s]
    BY <1>1, <2>1
  <2>4. ext[t].uid = 0 /\ (PromptGC => ~cfg[t].there) /\ clock < clock'
    BY <1>3 DEF CreateExtension, Asks, ExtTypeOK, Times
  <2> HIDE DEF e
  <2>5. CASE s = t
    BY <1>2, <2>2, <2>3, <2>4, <2>5 DEF ExtMove
  <2> QED
    BY <2>3, <2>5 DEF ExtMove
<1>4. CASE RequestReconcile(t)
  <2>1. PICK sp \in Specs :
          ext' = [ext EXCEPT ![t] = [ext[t] EXCEPT
                      !.spec = sp, !.op = TRUE, !.ts = clock',
                      !.gen = IF sp = ext[t].spec THEN @ ELSE @ + 1]]
    BY <1>4 DEF RequestReconcile
  <2> DEFINE g == IF sp = ext[t].spec THEN ext[t].gen ELSE ext[t].gen + 1
             e == [ext[t] EXCEPT !.spec = sp, !.op = TRUE, !.ts = clock', !.gen = g]
  <2>2. ext'[s] = IF s = t THEN e ELSE ext[s]
    BY <1>1, <2>1
  <2> HIDE DEF g
  <2>3. e.uid = ext[t].uid /\ e.fin = ext[t].fin /\ e.deleting = ext[t].deleting
    BY <1>1 DEF ExtRecord
  <2>4. ext[t].uid # 0
    BY <1>4 DEF RequestReconcile
  <2> HIDE DEF e
  <2> QED
    BY <2>2, <2>3, <2>4 DEF ExtMove
<1>5. CASE DeleteExtension(t)
  <2>1. PICK op \in BOOLEAN :
          ext' = [ext EXCEPT ![t] = IF ext[t].fin
                                    THEN [ext[t] EXCEPT !.deleting = TRUE, !.ts = clock',
                                                        !.op = ext[t].op \/ op]
                                    ELSE NoExt]
    BY <1>5 DEF DeleteExtension
  <2> DEFINE b == ext[t].op \/ op
             e == [ext[t] EXCEPT !.deleting = TRUE, !.ts = clock', !.op = b]
  <2>2. ext'[s] = IF s = t THEN IF ext[t].fin THEN e ELSE NoExt ELSE ext[s]
    BY <1>1, <2>1
  <2> HIDE DEF b
  <2>3. e.uid = ext[t].uid /\ e.fin = ext[t].fin /\ e.deleting
    BY <1>1 DEF ExtRecord
  <2>4. ext[t].uid # 0
    BY <1>5 DEF DeleteExtension
  <2> HIDE DEF e
  <2>5. CASE s # t
    BY <2>2, <2>5 DEF ExtMove
  <2>6. CASE s = t /\ ext[t].fin
    BY <2>2, <2>3, <2>4, <2>6 DEF ExtMove
  <2>7. CASE s = t /\ ~ext[t].fin
    BY <1>2, <2>2, <2>4, <2>7 DEF ExtMove
  <2> QED
    BY <2>5, <2>6, <2>7
<1> QED
  BY <1>3, <1>4, <1>5 DEF Gardenlet

(* So is every step.                                                        *)
LEMMA ExtMoves ==
  ASSUME ExtTypeOK, [Next]_vars, NEW s \in Shoots
  PROVE  ExtMove(s)
<1>1. ext \in [Shoots -> ExtRecord] /\ ext[s] \in ExtRecord
  BY DEF ExtTypeOK
<1>2. CASE ext'[s] = ext[s]
  BY <1>2 DEF ExtMove
<1>3. CASE \E t \in Shoots : AddFinalizer(t)
  <2>1. PICK t \in Shoots : AddFinalizer(t)
    BY <1>3
  <2>2. ext' = ext \/ (ext[t].uid # 0 /\ ext' = [ext EXCEPT ![t].fin = TRUE])
    BY <2>1 DEF AddFinalizer
  <2>3. ext'[s] = ext[s] \/ (ext[s].uid # 0 /\ ext'[s] = [ext[s] EXCEPT !.fin = TRUE])
    BY <1>1, <2>2
  <2> QED
    BY <1>1, <2>3 DEF ExtMove, ExtRecord
<1>4. CASE UpdateExtensionOutput
  <2>1. ext' = ext \/ ext' = [ext EXCEPT ![cur].st = Patched(@, Output, seen.st)]
    BY <1>4 DEF UpdateExtensionOutput
  <2>2. \/ ext'[s] = ext[s]
        \/ s = cur /\ ext'[s] = [ext[s] EXCEPT !.st = Patched(ext[s].st, Output, seen.st)]
    BY <1>1, <2>1
  <2> QED
    BY <1>1, <2>2 DEF ExtMove, ExtRecord
<1>5. CASE ClearOperation \/ DeleteClearOperation
  <2>1. ext' = ext \/ ext' = [ext EXCEPT ![cur].op = FALSE]
    BY <1>5 DEF ClearOperation, DeleteClearOperation
  <2>2. ext'[s] = ext[s] \/ ext'[s] = [ext[s] EXCEPT !.op = FALSE]
    BY <1>1, <2>1
  <2> QED
    BY <1>1, <2>2 DEF ExtMove, ExtRecord
<1>6. CASE RemoveFinalizer
  <2>1. UNCHANGED <<cfg, cache>> /\ pc = "del_finalizer" /\ pc' = "idle"
    BY <1>6 DEF RemoveFinalizer, Return, ReturnError, Idle
  <2>2. ext' = ext \/ (ext' = [ext EXCEPT ![cur] = NoExt] /\ ext[cur] = seen)
    BY <1>6 DEF RemoveFinalizer
  <2>3. ext'[s] = ext[s] \/ (ext'[s] = NoExt /\ s = cur /\ ext[s] = seen)
    BY <1>1, <2>2
  <2> QED
    BY <1>2, <2>1, <2>3 DEF ExtMove
<1>7. \/ UNCHANGED ext
      \/ \E t \in Shoots : Gardenlet(t) \/ AddFinalizer(t)
      \/ UpdateExtensionOutput \/ ClearOperation \/ DeleteClearOperation \/ RemoveFinalizer
  BY DEF Next, Deliver, DeliverConfig, SecretChanged, GarbageCollect, CMPOnItsOwn, CMPOutage,
         Restart, Worker,
         TakeNext, TakeNothing, Begin, ReconcileStep, ConfigFails, EnsureConfig, EnsureLB,
         EnsureVIPPort, EnsureVS, ProvisionFails, CredentialsRejected, DeployBridge, UndeployBridge,
         SaveConfig, SaveConfigFails, DeleteStep, FindConfig, DeleteVirtualServer, DeleteVIPPort,
         DeleteLBService, DeleteCall, DeleteBridge, vars, extVars
<1> QED
  BY <1>2, <1>3, <1>4, <1>5, <1>6, <1>7, GardenletMoves

(* Which half of a pass the worker is in, and how it gets there.             *)
LEMMA PassMoves ==
  ASSUME ExtTypeOK, [Next]_vars, pc' # "idle"
  PROVE  \/ /\ pc # "idle" /\ UNCHANGED <<cur, seen>>
            /\ pc \in Reconciling <=> pc' \in Reconciling
            /\ pc \in Deleting <=> pc' \in Deleting
         \/ /\ pc = "idle" /\ cur' \in Shoots /\ seen' = cache[cur'] /\ seen'.uid # 0 /\ seen'.fin
            /\ UNCHANGED <<ext, cfg, cache, clock, mem, got>>
            /\ pc' = IF seen'.deleting THEN "find" ELSE "config"
<1> USE DEF Reconciling, Deleting, Provision, Saving
<1>1. CASE UNCHANGED <<pc, locals>>
  BY <1>1 DEF locals
<1>2. CASE \E s \in Shoots : Begin(s)
  BY <1>2 DEF Begin, Take
<1>3. CASE EnsureConfig \/ EnsureVS \/ UpdateExtensionOutput
  BY <1>3 DEF EnsureConfig, EnsureVS, UpdateExtensionOutput, AfterOutput, AppPlane, ReturnError, Idle, GoTo
<1>4. CASE EnsureLB \/ EnsureVIPPort \/ ProvisionFails \/ CredentialsRejected \/ DeployBridge \/ UndeployBridge
  BY <1>4 DEF EnsureLB, EnsureVIPPort, ProvisionFails, CredentialsRejected, CPFails, DeployBridge,
     UndeployBridge, GoTo
<1>5. CASE ConfigFails \/ SaveConfig \/ SaveConfigFails \/ ClearOperation
  BY <1>5 DEF ConfigFails, SaveConfig, SaveConfigFails, ClearOperation, Return, ReturnError, Idle, GoTo
<1>6. CASE DeleteStep
  BY <1>6 DEF DeleteStep, FindConfig, DeleteVirtualServer, DeleteVIPPort, DeleteLBService, DeleteCall,
     DeleteBridge, DeleteClearOperation, RemoveFinalizer, Return, ReturnError, Idle, GoTo
<1>7. CASE ~ReconcileStep /\ ~DeleteStep /\ ~\E s \in Shoots : Begin(s)
  BY <1>1, <1>7 DEF Next, Gardenlet, CreateExtension, RequestReconcile, DeleteExtension,
     Deliver, DeliverConfig, SecretChanged, GarbageCollect, CMPOnItsOwn, CMPOutage, Restart,
     Idle, Worker, TakeNext, TakeNothing, AddFinalizer, vars, extVars, locals
<1> QED
  BY <1>2, <1>3, <1>4, <1>5, <1>6, <1>7 DEF ReconcileStep

(* What Extensions, copies and the pass know of each other.                  *)
CopyInv ==
    /\ \A s \in Shoots :
          /\ ext[s].uid <= clock /\ cache[s].uid <= clock
          /\ ext[s].uid = 0 => ~ext[s].fin
          /\ cache[s].uid # 0 /\ cache[s].fin /\ ~cache[s].deleting =>
                ext[s].uid = cache[s].uid /\ ext[s].fin
          /\ cache[s].uid # 0 /\ cache[s].uid = ext[s].uid /\ cache[s].deleting => ext[s].deleting
    /\ pc # "idle" => seen.uid \in 1 .. clock
    /\ pc \in Reconciling => ext[cur].uid = seen.uid /\ ext[cur].fin
    /\ pc \in Deleting =>
          /\ ext[cur].uid = seen.uid => ext[cur].deleting
          /\ cache[cur].uid = seen.uid => cache[cur].deleting

(* A step keeps what the copies know true.                                  *)
LEMMA CopyNext ==
  ASSUME ExtTypeOK, CopyInv, [Next]_vars
  PROVE  CopyInv'
<1> DEFINE Known(e, c, k) ==
      /\ e.uid <= k /\ c.uid <= k
      /\ e.uid = 0 => ~e.fin
      /\ c.uid # 0 /\ c.fin /\ ~c.deleting => e.uid = c.uid /\ e.fin
      /\ c.uid # 0 /\ c.uid = e.uid /\ c.deleting => e.deleting
<1>1. ASSUME NEW s \in Shoots
      PROVE  /\ ext[s].uid \in Nat /\ cache[s].uid \in Nat /\ ext'[s].uid \in Nat
             /\ clock \in Nat /\ clock' \in Nat /\ clock <= clock' /\ seen.uid \in Nat
  <2>1. ExtTypeOK'
    BY NextTyped
  <2> QED
    BY <2>1, AskSteps DEF ExtTypeOK, ExtRecord, Times
<1>2. ASSUME NEW s \in Shoots PROVE Known(ext[s], cache[s], clock) /\ ExtMove(s)
  BY ExtMoves DEF CopyInv
<1>3. ASSUME pc' # "idle"
      PROVE  cur' \in Shoots
  BY <1>3, NextTyped, TypePartsNext DEF WorkerOK
<1>4. ASSUME NEW s \in Shoots PROVE Known(ext'[s], cache'[s], clock')
  <2>1. CASE cache'[s] = ext[s] /\ UNCHANGED ext
    BY <1>1, <1>2, <2>1
  <2>2. CASE cache'[s] = cache[s]
    <3>1. CASE ext'[s].uid = ext[s].uid
      BY <1>1, <1>2, <2>2, <3>1 DEF ExtMove, NoExt
    <3>2. CASE ext[s].uid = 0 /\ ext'[s].uid = clock' /\ clock < clock' /\ ~ext'[s].fin
      BY <1>1, <1>2, <2>2, <3>2
    <3>3. CASE ext'[s] = NoExt
      <4>1. ~(cache[s].uid # 0 /\ cache[s].fin /\ ~cache[s].deleting)
        <5>1. CASE ~ext[s].fin
          BY <1>2, <5>1
        <5>2. CASE s = cur /\ ext[s] = seen /\ pc = "del_finalizer"
          BY <1>2, <5>2 DEF CopyInv, Deleting
        <5> QED
          BY <1>2, <3>3, <5>1, <5>2 DEF ExtMove, NoExt
      <4> QED
        BY <1>1, <1>2, <2>2, <3>3, <4>1 DEF NoExt
    <3> QED
      BY <1>2, <3>1, <3>2, <3>3 DEF ExtMove
  <2> QED
    BY <2>1, <2>2, CacheSteps
<1>5. ASSUME pc' # "idle" PROVE seen'.uid \in 1 .. clock'
  <2>1. cur' \in Shoots
    BY <1>3, <1>5
  <2>2. CASE pc # "idle" /\ UNCHANGED seen
    BY <1>1, <2>1, <2>2 DEF CopyInv
  <2>3. CASE seen' = cache[cur'] /\ seen'.uid # 0
    BY <1>1, <1>2, <2>1, <2>3
  <2> QED
    BY <1>5, <2>2, <2>3, PassMoves
<1>6. ASSUME pc' \in Reconciling PROVE ext'[cur'].uid = seen'.uid /\ ext'[cur'].fin
  <2>1. pc' # "idle" /\ cur' \in Shoots
    BY <1>3, <1>6 DEF Reconciling, Provision, Saving
  <2>2. CASE pc # "idle" /\ UNCHANGED <<cur, seen>> /\ pc \in Reconciling
    <3>1. ext[cur].uid = seen.uid /\ ext[cur].fin /\ seen.uid \in 1 .. clock /\ pc # "del_finalizer"
      BY <2>2 DEF CopyInv, Reconciling, Provision, Saving
    <3> QED
      BY <1>1, <1>2, <2>1, <2>2, <3>1 DEF ExtMove
  <2>3. CASE pc = "idle" /\ seen' = cache[cur'] /\ seen'.uid # 0 /\ seen'.fin /\ ~seen'.deleting /\ UNCHANGED ext
    BY <1>2, <2>1, <2>3
  <2> QED
    BY <1>6, <2>1, <2>2, <2>3, PassMoves DEF Reconciling, Provision, Saving
<1>7. ASSUME pc' \in Deleting
      PROVE  /\ ext'[cur'].uid = seen'.uid => ext'[cur'].deleting
             /\ cache'[cur'].uid = seen'.uid => cache'[cur'].deleting
  <2>1. pc' # "idle" /\ cur' \in Shoots
    BY <1>3, <1>7 DEF Deleting
  <2>2. CASE pc # "idle" /\ UNCHANGED <<cur, seen>> /\ pc \in Deleting
    <3>1. /\ ext[cur].uid = seen.uid => ext[cur].deleting
          /\ cache[cur].uid = seen.uid => cache[cur].deleting
          /\ seen.uid \in 1 .. clock
      BY <2>2 DEF CopyInv
    <3>2. cache'[cur].uid = seen.uid => cache'[cur].deleting
      BY <2>1, <2>2, <3>1, CacheSteps
    <3>3. ext'[cur].uid = seen.uid => ext'[cur].deleting
      BY <1>1, <1>2, <2>1, <2>2, <3>1 DEF ExtMove, NoExt
    <3> QED
      BY <2>2, <3>2, <3>3
  <2>3. CASE pc = "idle" /\ seen' = cache[cur'] /\ seen'.uid # 0 /\ seen'.deleting /\ UNCHANGED <<ext, cache>>
    BY <1>2, <2>1, <2>3
  <2> QED
    BY <1>7, <2>1, <2>2, <2>3, PassMoves DEF Deleting
<1> HIDE DEF Known
<1>8. \A s \in Shoots : Known(ext'[s], cache'[s], clock')
  BY <1>4
<1> QED
  BY <1>5, <1>6, <1>7, <1>8 DEF CopyInv, Known

(* Conditions come and go; a config is what it asks for and what it records. *)
SameConfig(m, n) == m.there = n.there /\ m.spec = n.spec /\ m.ids = n.ids

(* Blocking the application plane changes neither.                          *)
LEMMA BlockSame ==
  ASSUME NEW m \in CfgRecord
  PROVE  SameConfig(Block(m), m)
BY DEF Block, SameConfig, CfgRecord

(* A config read as it is stays as it is when it is synced, but for its spec *)
(* and, perhaps, its owner.                                                 *)
LEMMA CopyIsConfig == ASSUME StaleConfigs = FALSE, NEW s \in Shoots PROVE Copy(s) = cfg[s]
BY DEF Copy
LEMMA SyncedSame ==
  ASSUME ObjectsOK, WorkerOK, cur \in Shoots, ~cfg[cur].there => cfg[cur].ids = NoIds
  PROVE  LET m == SyncedConfig(cfg[cur]) IN
         /\ m.there /\ m.ids = cfg[cur].ids
         /\ (cfg[cur].there /\ m.owner = cfg[cur].owner) \/ m.owner = seen.uid
<1> DEFINE c == cfg[cur]
<1>1. c \in CfgRecord /\ c.there \in BOOLEAN
  BY DEF ObjectsOK, CfgRecord
<1>2. CASE ~c.there
  BY <1>2 DEF SyncedConfig, NoCfg
<1>3. CASE c.there /\ c.spec = seen.spec
  BY <1>1, <1>3 DEF SyncedConfig, CfgRecord
<1>4. CASE c.there /\ c.spec # seen.spec
  <2> DEFINE sp == MergedSpec(seen.spec, c.spec, c.spec)
             o  == Sent(seen.uid, c.owner, c.owner)
  <2>1. SyncedConfig(c) = [c EXCEPT !.owner = o, !.spec = sp]
    BY <1>1, <1>4 DEF SyncedConfig, CfgRecord
  <2>2. o = c.owner \/ o = seen.uid
    BY DEF Sent
  <2> HIDE DEF sp, o
  <2> QED
    BY <1>1, <1>4, <2>1, <2>2 DEF CfgRecord
<1> QED
  BY <1>2, <1>3, <1>4

(* The gate passes the config on.                                           *)
LEMMA AppPlaneSame ==
  ASSUME NEW m \in CfgRecord, AppPlane(m)
  PROVE  pc' \in Saving /\ cur' = cur /\ SameConfig(mem', m)
<1>1. SameConfig(m, m)
  BY DEF SameConfig
<1> QED
  BY <1>1, BlockSame DEF AppPlane, GoTo, Saving

(* So does a control plane that cannot be had.                              *)
LEMMA CPFailsSame ==
  ASSUME WorkerOK, NEW y, CPFails(y)
  PROVE  pc' = "save" /\ cur' = cur /\ SameConfig(mem', mem)
<1>1. [mem EXCEPT !.cp = "false"] \in CfgRecord /\ SameConfig([mem EXCEPT !.cp = "false"], mem)
  BY DEF WorkerOK, CfgRecord, Conditions, SameConfig
<1> QED
  BY <1>1, BlockSame DEF CPFails, GoTo, SameConfig

(* The steps of a reconciliation that has a config. *)
ConfigStep ==
    /\ EnsureConfig /\ pc = "config" /\ SameConfig(mem', SyncedConfig(Copy(cur)))
    /\ pc' \in {"lb"} \cup Saving
FoundVS ==
    /\ pc = "vs" /\ pc' \in Saving /\ SameConfig(mem', [mem EXCEPT !.ids = mem'.ids])
    /\ \E i \in Ids : EnsureVirtualServer(cur, got.lb, Fresh("vs"), i)
                      /\ mem'.ids = [got EXCEPT !.vs = i]
GivenUp ==
    /\ ProvisionFails \/ CredentialsRejected
    /\ pc \in Provision /\ pc' = "save" /\ SameConfig(mem', mem)
Applied ==
    /\ pc \in {"deploy", "undeploy"} /\ pc' = "save" /\ SameConfig(mem', mem)
    /\ UNCHANGED <<cpVars, cfg>>

(* Ensuring the config is such a step, ...                                  *)
LEMMA ConfigSteps ==
  ASSUME ExtTypeOK, EnsureConfig
  PROVE  ConfigStep /\ cur' = cur
<1> DEFINE m == SyncedConfig(Copy(cur))
<1>1. m \in CfgRecord /\ cur \in Shoots
  BY CopyTyped, SyncedTyped, TypeParts, Busy DEF EnsureConfig
<1>2. \A c \in Conditions, v \in BOOLEAN :
        /\ [m EXCEPT !.cp = c] \in CfgRecord /\ SameConfig([m EXCEPT !.cp = c], m)
        /\ [m EXCEPT !.cp = c, !.vip = v] \in CfgRecord /\ SameConfig([m EXCEPT !.cp = c, !.vip = v], m)
  <2> HIDE DEF m
  <2> QED
    BY <1>1 DEF CfgRecord, SameConfig
<1>3. "true" \in Conditions /\ "false" \in Conditions
  BY DEF Conditions
<1>4. pc = "config" /\
      \/ AppPlane([m EXCEPT !.cp = "true"]) \/ AppPlane([m EXCEPT !.cp = "true", !.vip = TRUE])
      \/ AppPlane([m EXCEPT !.cp = "false"])
      \/ GoTo("lb") /\ mem' = m
      \/ GoTo("save") /\ mem' = Block([m EXCEPT !.cp = "false"])
  BY DEF EnsureConfig
<1> HIDE DEF m
<1>5. pc' \in {"lb"} \cup Saving /\ cur' = cur /\ SameConfig(mem', m)
  <2>1. ASSUME NEW n \in CfgRecord, SameConfig(n, m), AppPlane(n)
        PROVE  pc' \in Saving /\ cur' = cur /\ SameConfig(mem', m)
    BY <2>1, AppPlaneSame DEF SameConfig
  <2>2. ASSUME NEW n \in CfgRecord, SameConfig(n, m), GoTo("save"), mem' = Block(n)
        PROVE  pc' \in Saving /\ cur' = cur /\ SameConfig(mem', m)
    BY <2>2, BlockSame DEF SameConfig, GoTo, Saving
  <2>3. CASE GoTo("lb") /\ mem' = m
    BY <2>3 DEF SameConfig, GoTo
  <2> QED
    BY <1>2, <1>3, <1>4, <2>1, <2>2, <2>3
<1> QED
  BY <1>4, <1>5 DEF ConfigStep, m

(* ... and so is finding or making the virtual server.                      *)
LEMMA FoundSteps ==
  ASSUME ExtTypeOK, FlowInv, EnsureVS
  PROVE  FoundVS /\ cur' = cur
<1>1. PICK i \in Ids :
        /\ EnsureVirtualServer(cur, got.lb, Fresh("vs"), i)
        /\ AppPlane([mem EXCEPT !.cp = "true", !.vip = TRUE, !.ids = [got EXCEPT !.vs = i]])
  BY DEF EnsureVS
<1> DEFINE g == [got EXCEPT !.vs = i]
           m == [mem EXCEPT !.cp = "true", !.vip = TRUE, !.ids = g]
<1>2. g \in IdsRecord
  BY DEF ExtTypeOK, IdsRecord
<1> HIDE DEF g
<1>3. m \in CfgRecord /\ m.there = mem.there /\ m.spec = mem.spec /\ m.ids = g
  BY <1>2 DEF ExtTypeOK, CfgRecord, Conditions
<1> HIDE DEF m
<1>4. pc' \in Saving /\ cur' = cur /\ SameConfig(mem', m)
  BY <1>1, <1>3, AppPlaneSame DEF m, g
<1>5. SameConfig(mem', [mem EXCEPT !.ids = mem'.ids]) /\ mem'.ids = g
  BY <1>3, <1>4 DEF SameConfig, ExtTypeOK, CfgRecord
<1> QED
  BY <1>1, <1>4, <1>5 DEF FoundVS, EnsureVS, g

(* How a pass that has a config goes on.                                    *)
LEMMA WorkingMoves ==
  ASSUME PassInv, [Next]_vars, pc' \in Provision \cup Saving
  PROVE  /\ pc # "idle" /\ UNCHANGED <<cur, seen>>
         /\ \/ UNCHANGED <<pc, mem, got>>
            \/ ConfigStep
            \/ EnsureLB /\ pc = "lb" /\ pc' = "vip" /\ mem' = mem
            \/ EnsureVIPPort /\ pc = "vip" /\ pc' = "vs" /\ mem' = mem /\ got'.lb = got.lb
            \/ FoundVS
            \/ GivenUp
            \/ Applied
<1>1. ExtTypeOK /\ WorkerOK /\ FlowInv
  BY TypeParts DEF PassInv
<1>2. pc # "idle" /\ UNCHANGED <<cur, seen>>
  BY <1>1, PassMoves DEF Provision, Saving
<1>3. CASE EnsureConfig
  BY <1>1, <1>2, <1>3, ConfigSteps
<1>4. CASE EnsureVS
  BY <1>1, <1>2, <1>4, FoundSteps
<1>5. CASE EnsureLB \/ EnsureVIPPort
  <2>1. got'.lb = got.lb \/ EnsureLB
    BY <1>1, <1>5 DEF EnsureVIPPort, WorkerOK, IdsRecord
  <2> QED
    BY <1>2, <1>5, <2>1 DEF EnsureLB, EnsureVIPPort, GoTo
<1>6. CASE ProvisionFails \/ CredentialsRejected
  BY <1>1, <1>2, <1>6, CPFailsSame DEF ProvisionFails, CredentialsRejected, GivenUp, Provision
<1>7. CASE DeployBridge \/ UndeployBridge
  <2>1. \A c : SameConfig([mem EXCEPT !.app = c], mem)
    BY <1>1 DEF WorkerOK, CfgRecord, SameConfig
  <2> QED
    BY <1>2, <1>7, <2>1 DEF DeployBridge, UndeployBridge, GoTo, Applied
<1>8. CASE UNCHANGED <<pc, locals>>
  BY <1>2, <1>8 DEF locals
<1>9. ~Restart /\ ~\E s \in Shoots : Begin(s)
  BY <1>2 DEF Restart, Idle, Provision, Saving, Begin, Take
<1>10. CASE ReconcileStep /\ ~EnsureConfig /\ ~EnsureVS
  <2>1. ASSUME ConfigFails \/ SaveConfig \/ SaveConfigFails \/ UpdateExtensionOutput \/ ClearOperation
        PROVE  FALSE
    BY <2>1 DEF ConfigFails, SaveConfig, SaveConfigFails, UpdateExtensionOutput, AfterOutput,
       ClearOperation, Return, ReturnError, Idle, GoTo, Provision, Saving
  <2> QED
    BY <1>5, <1>6, <1>7, <1>10, <2>1 DEF ReconcileStep
<1>11. ~DeleteStep
  BY DEF DeleteStep, FindConfig, DeleteVirtualServer, DeleteVIPPort, DeleteLBService, DeleteCall,
     DeleteBridge, DeleteClearOperation, RemoveFinalizer, Return, ReturnError, Idle, GoTo,
     Provision, Saving
<1>12. CASE ~Worker
  BY <1>8, <1>9, <1>12 DEF Next, Gardenlet, CreateExtension, RequestReconcile, DeleteExtension,
     Deliver, DeliverConfig, SecretChanged, GarbageCollect, CMPOnItsOwn, CMPOutage, vars, extVars,
     locals
<1>13. CASE \E s \in Shoots : TakeNext(s)
  BY <1>8, <1>9, <1>13 DEF TakeNext, TakeNothing, AddFinalizer
<1> QED
  BY <1>3, <1>4, <1>10, <1>11, <1>12, <1>13 DEF Worker

(* A pass that has a config works on the spec of the Extension it reconciles, *)
(* which can be decoded.                                                     *)
LEMMA WorkingSpec ==
  ASSUME StaleConfigs = FALSE, PassInv, pc \in Provision \cup Saving
  PROVE  mem.spec = seen.spec /\ ~mem.late /\ mem.spec \in Specs /\ mem.spec.json
<1>1. mem.spec = seen.spec /\ ~mem.late
  BY DEF PassInv, FlowInv, Concordant, Passing, Provision, Saving
<1>2. mem.spec \in Specs
  BY <1>1 DEF PassInv, SpecInv, Provision, Saving
<1>3. CPCase(mem.spec) # "malformed"
  BY DEF PassInv, FlowInv, Provisioning, GateOpen, Removing, Concluded, Outcomes, Provision, Saving
<1> QED
  BY <1>1, <1>2, <1>3, Cases, SpecsShaped

(* What is recorded of the Extension there is, and what the pass knows of it. *)
ConfigInv ==
    /\ \A s \in Shoots :
          /\ cfg[s].there /\ ext[s].uid # 0 => cfg[s].owner = ext[s].uid
          /\ cfg[s].there => cfg[s].spec \in Specs /\ cfg[s].spec.json
          /\ ~cfg[s].there => cfg[s].ids = NoIds
    /\ pc \in Provision \cup Saving => cfg[cur].there /\ mem.there
    /\ pc \in Provision => mem.ids = cfg[cur].ids

(* The config of an Extension stays its own.                                *)
LEMMA ConfigNext ==
  ASSUME PromptGC, StaleConfigs = FALSE, PassInv, CopyInv, ConfigInv, [Next]_vars
  PROVE  ConfigInv'
<1>1. ExtTypeOK /\ WorkerOK /\ ObjectsOK /\ SpecInv /\ OnTime
  BY TypeParts DEF PassInv
<1>2. ASSUME NEW s \in Shoots
      PROVE  /\ ExtMove(s) /\ CfgMove(s) /\ cfg[s] \in CfgRecord
             /\ cfg[s].there /\ ext[s].uid # 0 => cfg[s].owner = ext[s].uid
             /\ cfg[s].there => cfg[s].spec \in Specs /\ cfg[s].spec.json
             /\ ~cfg[s].there => cfg[s].ids = NoIds
  BY <1>1, ExtMoves, CfgMoves DEF ConfigInv, ObjectsOK
<1>3. ASSUME EnsureConfig
      PROVE  LET m == SyncedConfig(Copy(cur)) IN
             /\ m.there /\ m.ids = cfg[cur].ids /\ m.spec \in Specs /\ m.spec.json
             /\ m.owner = ext[cur].uid /\ UNCHANGED ext
             /\ cfg'[cur] = m
  <2> DEFINE m == SyncedConfig(Copy(cur))
  <2>1. /\ pc = "config" /\ cur \in Shoots /\ UNCHANGED ext /\ seen.spec.json
        /\ cfg' = IF m.late THEN cfg ELSE [cfg EXCEPT ![cur] = m]
    BY <1>1, <1>3, Busy DEF EnsureConfig
  <2>2. Copy(cur) = cfg[cur] /\ ~cfg[cur].late
    BY <1>1, <2>1, CopyIsConfig DEF OnTime
  <2>3. m.spec = seen.spec /\ ~m.late
    BY <1>1, <2>1, <2>2, SyncedExactly
  <2>4. m.there /\ m.ids = cfg[cur].ids
        /\ ((cfg[cur].there /\ m.owner = cfg[cur].owner) \/ m.owner = seen.uid)
    BY <1>1, <1>2, <2>1, <2>2, SyncedSame
  <2> HIDE DEF m
  <2>5. ext[cur].uid = seen.uid /\ seen.uid # 0
    BY <1>1, <2>1 DEF CopyInv, Reconciling
  <2>6. seen.spec \in Specs
    BY <1>1, <2>1 DEF SpecInv
  <2>7. cfg'[cur] = m /\ m.owner = ext[cur].uid
    BY <1>1, <1>2, <2>1, <2>3, <2>4, <2>5 DEF ObjectsOK
  <2> QED
    BY <2>1, <2>3, <2>4, <2>6, <2>7 DEF m
<1>4. ASSUME SaveConfig
      PROVE  LET m == [mem EXCEPT !.owner = cfg[cur].owner] IN
             /\ m.there /\ m.spec \in Specs /\ m.spec.json
             /\ m.owner = ext[cur].uid /\ UNCHANGED ext
             /\ cfg'[cur] = m
  <2>1. pc = "save" /\ cur \in Shoots /\ cfg[cur].there /\ UNCHANGED ext
        /\ cfg' = [cfg EXCEPT ![cur] = [mem EXCEPT !.owner = cfg[cur].owner]]
    BY <1>1, <1>4, Busy DEF SaveConfig
  <2>2. ext[cur].uid # 0
    BY <1>1, <2>1 DEF CopyInv, Reconciling, Saving
  <2>3. mem.there /\ mem.spec \in Specs /\ mem.spec.json
    BY <2>1, WorkingSpec DEF ConfigInv, Saving
  <2>4. /\ [mem EXCEPT !.owner = cfg[cur].owner].owner = cfg[cur].owner
        /\ [mem EXCEPT !.owner = cfg[cur].owner].there = mem.there
        /\ [mem EXCEPT !.owner = cfg[cur].owner].spec = mem.spec
    BY <1>1 DEF WorkerOK, CfgRecord
  <2> QED
    BY <1>1, <1>2, <2>1, <2>2, <2>3, <2>4 DEF ObjectsOK
<1>5. ASSUME NEW s \in Shoots
      PROVE  /\ cfg'[s].there /\ ext'[s].uid # 0 => cfg'[s].owner = ext'[s].uid
             /\ cfg'[s].there => cfg'[s].spec \in Specs /\ cfg'[s].spec.json
             /\ ~cfg'[s].there => cfg'[s].ids = NoIds
  <2>1. CASE cfg'[s] = cfg[s]
    BY <1>2, <2>1 DEF ExtMove, NoExt
  <2>2. CASE cfg'[s] = NoCfg
    BY <2>2 DEF NoCfg
  <2>3. CASE EnsureConfig /\ s = cur
    BY <1>3, <2>3
  <2>4. CASE SaveConfig /\ s = cur
    BY <1>4, <2>4
  <2> QED
    BY <1>2, <2>1, <2>2, <2>3, <2>4 DEF CfgMove
<1>6. ASSUME pc' \in Provision \cup Saving
      PROVE  /\ cfg'[cur'].there /\ mem'.there
             /\ pc' \in Provision => mem'.ids = cfg'[cur'].ids
  <2>1. pc # "idle" /\ UNCHANGED <<cur, seen>> /\ cur \in Shoots
    BY <1>1, <1>6, WorkingMoves, Busy
  <2>2. CASE ConfigStep
    BY <1>3, <2>1, <2>2 DEF ConfigStep, SameConfig
  <2>3. CASE pc \in Provision \cup Saving
    <3>1. /\ cfg[cur].there /\ mem.there
          /\ pc \in Provision => mem.ids = cfg[cur].ids
          /\ ext[cur].uid = seen.uid /\ seen.uid # 0
      BY <1>1, <2>1, <2>3 DEF ConfigInv, CopyInv, Reconciling
    <3>2. ~EnsureConfig /\ ~SaveConfig
      BY <1>6, <2>3 DEF EnsureConfig, SaveConfig, GoTo, Provision, Saving
    <3>3. cfg'[cur] = cfg[cur]
      BY <1>2, <2>1, <3>1, <3>2 DEF CfgMove
    <3>4. mem'.there /\ (pc' \in Provision => pc \in Provision /\ mem' = mem)
      <4>1. [mem EXCEPT !.ids = mem'.ids].there = mem.there
        BY <1>1 DEF WorkerOK, CfgRecord
      <4> QED
        BY <1>6, <3>1, <3>2, <4>1, WorkingMoves
        DEF ConfigStep, FoundVS, GivenUp, Applied, SameConfig, Provision, Saving
    <3> QED
      BY <2>1, <3>1, <3>3, <3>4
  <2>4. ConfigStep \/ pc \in Provision \cup Saving
    BY <1>6, WorkingMoves DEF FoundVS, GivenUp, Applied, Provision, Saving
  <2> QED
    BY <2>2, <2>3, <2>4
<1> QED
  BY <1>5, <1>6 DEF ConfigInv

(* How an LB service and a virtual server of CMP move. *)
LBMove(l) ==
    \/ lbs'[l] = lbs[l]
    \/ lbs'[l].st = "absent" /\ \A v \in Ids : vss'[v].lb # l \/ vss'[v].st = "absent"
    \/ lbs[l].st # "absent" /\ lbs'[l] = [lbs[l] EXCEPT !.st = "deleting"]
    \/ /\ pc = "lb" /\ (EnsureLB \/ ProvisionFails)
       /\ lbs[l].st = "absent" /\ ReusableLBs(cur) = {} /\ UNCHANGED <<vss>>
       /\ lbs' = [lbs EXCEPT ![l] = [st |-> "live", project |-> Project[cur], name |-> "cp"]]
VSMove(v) ==
    \/ vss'[v] = vss[v]
    \/ vss'[v] = NoVS
    \/ /\ vss'[v].lb = vss[v].lb /\ vss'[v].name = vss[v].name /\ vss'[v].by = vss[v].by
       /\ vss[v].st # "absent" /\ vss'[v].st # "absent"
       /\ vss[v].st = "deleting" => vss'[v].st = "deleting"
    \/ /\ pc = "vs" /\ (EnsureVS \/ ProvisionFails)
       /\ vss[v].st = "absent" /\ ReusableVSs(got.lb) = {} /\ lbs[got.lb].st = "live"
       /\ UNCHANGED lbs
       /\ vss' = [vss EXCEPT ![v] = [st |-> "pending", lb |-> got.lb, name |-> "cp", by |-> cur]]

(* Every step moves CMP's inventory so.                                     *)
LEMMA CPMoves ==
  ASSUME ExtTypeOK, [Next]_vars, NEW l \in Ids
  PROVE  LBMove(l) /\ VSMove(l)
<1>1. /\ lbs \in [Ids -> LBRecord] /\ vss \in [Ids -> VSRecord]
      /\ lbs[l] \in LBRecord /\ vss[l] \in VSRecord
  BY DEF ExtTypeOK, CPTypeOK
<1>2. CASE UNCHANGED <<lbs, vss>>
  BY <1>2 DEF LBMove, VSMove
<1>3. CASE \E i \in Ids : VSReady(i) \/ VSGone(i)
  <2>1. PICK i \in Ids : VSReady(i) \/ VSGone(i)
    BY <1>3
  <2>2. UNCHANGED lbs
    BY <2>1 DEF VSReady, VSGone
  <2>3. \/ vss'[l] = vss[l] \/ vss'[l] = NoVS
        \/ vss[l].st = "pending" /\ vss'[l] = [vss[l] EXCEPT !.st = "ready"]
    BY <1>1, <2>1 DEF VSReady, VSGone
  <2> QED
    BY <1>1, <2>2, <2>3 DEF LBMove, VSMove, VSRecord
<1>4. CASE \E i \in Ids : LBGone(i)
  <2>1. PICK i \in Ids : LBGone(i)
    BY <1>4
  <2>2. /\ lbs' = [lbs EXCEPT ![i] = NoLB]
        /\ vss' = [v \in Ids |-> IF vss[v].lb = i THEN NoVS ELSE vss[v]]
    BY <2>1 DEF LBGone
  <2>3. NoLB.st = "absent" /\ NoVS.st = "absent"
    BY DEF NoLB, NoVS
  <2> QED
    BY <1>1, <2>2, <2>3 DEF LBMove, VSMove
<1>5. CASE \E i \in Ids : EnsureLBService(cur, Fresh("lb"), i) /\ pc = "lb" /\ (EnsureLB \/ ProvisionFails)
  <2>1. PICK i \in Ids : EnsureLBService(cur, Fresh("lb"), i) /\ pc = "lb" /\ (EnsureLB \/ ProvisionFails)
    BY <1>5
  <2>2. UNCHANGED vss
    BY <2>1 DEF EnsureLBService
  <2>3. CASE UNCHANGED lbs
    BY <1>2, <2>2, <2>3
  <2>4. CASE /\ ReusableLBs(cur) = {} /\ Smallest({f \in Fresh("lb") : lbs[f].st = "absent"}, i)
             /\ lbs' = [lbs EXCEPT ![i] = [st |-> "live", project |-> Project[cur], name |-> "cp"]]
    <3>1. lbs[i].st = "absent"
      BY <2>4 DEF Smallest
    <3> QED
      BY <1>1, <2>1, <2>2, <2>4, <3>1 DEF LBMove, VSMove
  <2> QED
    BY <2>1, <2>3, <2>4 DEF EnsureLBService
<1>6. CASE \E i \in Ids : EnsureVirtualServer(cur, got.lb, Fresh("vs"), i) /\ pc = "vs" /\ (EnsureVS \/ ProvisionFails)
  <2>1. PICK i \in Ids : EnsureVirtualServer(cur, got.lb, Fresh("vs"), i) /\ pc = "vs" /\ (EnsureVS \/ ProvisionFails)
    BY <1>6
  <2>2. UNCHANGED lbs
    BY <2>1 DEF EnsureVirtualServer
  <2>3. CASE UNCHANGED vss
    BY <1>2, <2>2, <2>3
  <2>4. CASE /\ ReusableVSs(got.lb) = {} /\ lbs[got.lb].st = "live"
             /\ Smallest({f \in Fresh("vs") : vss[f].st = "absent"}, i)
             /\ vss' = [vss EXCEPT ![i] = [st |-> "pending", lb |-> got.lb, name |-> "cp", by |-> cur]]
    <3>1. vss[i].st = "absent"
      BY <2>4 DEF Smallest
    <3> QED
      BY <1>1, <2>1, <2>2, <2>4, <3>1 DEF LBMove, VSMove
  <2> QED
    BY <2>1, <2>3, <2>4 DEF EnsureVirtualServer
<1>7. CASE DeleteVirtualServer
  <2>1. UNCHANGED <<lbs, vss>> \/ DeleteVS(mem.ids)
    BY <1>7 DEF DeleteVirtualServer, DeleteCall, cpVars
  <2>2. CASE DeleteVS(mem.ids)
    <3>1. vss'[l] = vss[l] \/ (vss[l].st # "absent" /\ vss'[l] = [vss[l] EXCEPT !.st = "deleting"])
      BY <1>1, <2>2 DEF DeleteVS
    <3> QED
      BY <1>1, <2>2, <3>1 DEF LBMove, VSMove, VSRecord, DeleteVS
  <2> QED
    BY <1>2, <2>1, <2>2
<1>8. CASE DeleteVIPPort \/ EnsureVIPPort
  BY <1>2, <1>8 DEF DeleteVIPPort, DeleteCall, DeleteVIP, EnsureVIPPort, EnsureVIP, cpVars
<1>9. CASE DeleteLBService
  <2>1. UNCHANGED <<lbs, vss>> \/ DeleteLB(mem.ids)
    BY <1>9 DEF DeleteLBService, DeleteCall, cpVars
  <2>2. CASE DeleteLB(mem.ids)
    <3>1. lbs'[l] = lbs[l] \/ (lbs[l].st # "absent" /\ lbs'[l] = [lbs[l] EXCEPT !.st = "deleting"])
      BY <1>1, <2>2 DEF DeleteLB
    <3> QED
      BY <1>1, <2>2, <3>1 DEF LBMove, VSMove, DeleteLB
  <2> QED
    BY <1>2, <2>1, <2>2
<1>10. CASE CMPOnItsOwn
  BY <1>2, <1>3, <1>4, <1>10 DEF CMPOnItsOwn, CMPStep, CMPRecovers
<1>11. CASE EnsureLB \/ EnsureVS
  BY <1>5, <1>6, <1>11 DEF EnsureLB, EnsureVS
<1>12. CASE ProvisionFails
  <2>1. UNCHANGED <<lbs, vss>> \/ \E i \in Ids :
          \/ EnsureLBService(cur, Fresh("lb"), i) /\ pc = "lb"
          \/ EnsureVIP(got.lb, Fresh("vip"), i)
          \/ EnsureVirtualServer(cur, got.lb, Fresh("vs"), i) /\ pc = "vs"
    BY <1>12 DEF ProvisionFails, cpVars
  <2> QED
    BY <1>2, <1>5, <1>6, <1>12, <2>1 DEF EnsureVIP
<1> QED
  BY <1>2, <1>7, <1>8, <1>9, <1>10, <1>11, <1>12, CMPUntouched DEF vars, cpVars

(* Where the control planes are: in an LB service of ours, or in the only    *)
(* one there is in the project.                                              *)
Only(l, p, L) == \A k \in Ids : L[k].st # "absent" /\ L[k].project = p => k = l
Ours(l, s, L) ==
    /\ L[l].st # "absent" /\ L[l].project = Project[s]
    /\ L[l].name = "cp" \/ Only(l, Project[s], L)
PlaceInv ==
    /\ \A v \in Ids : vss[v].st # "absent" => vss[v].lb \in Ids /\ lbs[vss[v].lb].st # "absent"
    /\ \A v \in Ids : \A s \in Shoots :
          vss[v].by = s => vss[v].st # "absent" /\ vss[v].name = "cp" /\ Ours(vss[v].lb, s, lbs)
    /\ pc \in {"vip", "vs"} /\ lbs[got.lb].st # "absent" => Ours(got.lb, cur, lbs)

(* A list of one has one element.                                           *)
LEMMA OnlyOne ==
  ASSUME NEW p, NEW i \in LBsIn(p)
  PROVE  Cardinality(LBsIn(p)) = 1 <=> Only(i, p, lbs)
<1>1. IsFiniteSet(LBsIn(p))
  BY CPAssumption, FS_Subset DEF CPAssumption, LBsIn
<1>2. Cardinality(LBsIn(p)) = 1 <=> \E x : LBsIn(p) = {x}
  BY <1>1, FS_Singleton
<1>3. Only(i, p, lbs) <=> LBsIn(p) = {i}
  BY DEF Only, LBsIn
<1> QED
  BY <1>2, <1>3

(* An LB service of ours stays ours until it is gone.                       *)
LEMMA OursNext ==
  ASSUME ExtTypeOK, [Next]_vars, NEW l \in Ids, NEW s \in Shoots, Ours(l, s, lbs),
         lbs'[l].st # "absent"
  PROVE  Ours(l, s, lbs')
<1>1. lbs \in [Ids -> LBRecord] /\ lbs[l].st # "absent" /\ lbs[l].project = Project[s]
      /\ (lbs[l].name = "cp" \/ Only(l, Project[s], lbs))
  BY DEF ExtTypeOK, CPTypeOK, Ours
<1>2. lbs'[l].project = lbs[l].project /\ lbs'[l].name = lbs[l].name
  BY <1>1, CPMoves DEF LBMove, LBRecord
<1>3. ASSUME Only(l, Project[s], lbs), NEW k \in Ids, lbs'[k].st # "absent",
             lbs'[k].project = Project[s]
      PROVE  k = l
  <2>1. CASE lbs[k].st # "absent" /\ lbs[k].project = lbs'[k].project
    BY <1>3, <2>1 DEF Only
  <2>2. CASE /\ lbs[k].st = "absent" /\ ReusableLBs(cur) = {}
             /\ lbs' = [lbs EXCEPT ![k] = [st |-> "live", project |-> Project[cur], name |-> "cp"]]
    <3>1. Project[cur] = Project[s]
      BY <1>1, <1>3, <2>2
    <3>2. l \in LBsIn(Project[cur])
      BY <1>1, <3>1 DEF LBsIn
    <3>3. Cardinality(LBsIn(Project[cur])) = 1
      BY <1>3, <3>1, <3>2, OnlyOne
    <3>4. ReusableLBs(cur) # {}
      BY <3>2, <3>3 DEF ReusableLBs, Reusable
    <3> QED
      BY <2>2, <3>4
  <2> QED
    BY <1>1, <1>3, <2>1, <2>2, CPMoves DEF LBMove, LBRecord
<1>4. Only(l, Project[s], lbs) => Only(l, Project[s], lbs')
  BY <1>3 DEF Only
<1> QED
  BY <1>1, <1>2, <1>4 DEF Ours

(* ensureOrFindLBService comes back with an LB service of ours.             *)
LEMMA FoundIsOurs ==
  ASSUME ExtTypeOK, EnsureLB
  PROVE  /\ got'.lb \in Ids /\ cur' = cur /\ cur \in Shoots /\ Ours(got'.lb, cur, lbs')
         /\ got'.lb \in ReusableLBs(cur) \/ ReusableLBs(cur) = {}
<1>1. PICK i \in Ids : EnsureLBService(cur, Fresh("lb"), i) /\ got' = [got EXCEPT !.lb = i]
  BY DEF EnsureLB
<1>2. got'.lb = i /\ cur' = cur /\ cur \in Shoots /\ lbs \in [Ids -> LBRecord]
  BY <1>1, Busy, TypeParts DEF EnsureLB, GoTo, ExtTypeOK, CPTypeOK, IdsRecord
<1>3. CASE i \in ReusableLBs(cur) /\ UNCHANGED lbs
  <2>1. i \in LBsIn(Project[cur]) /\ (lbs[i].name = "cp" \/ Cardinality(LBsIn(Project[cur])) = 1)
    BY <1>3 DEF ReusableLBs, Reusable
  <2> QED
    BY <1>2, <1>3, <2>1, OnlyOne DEF Ours, LBsIn
<1>4. CASE /\ ReusableLBs(cur) = {}
           /\ lbs' = [lbs EXCEPT ![i] = [st |-> "live", project |-> Project[cur], name |-> "cp"]]
  BY <1>2, <1>4 DEF Ours
<1> QED
  BY <1>1, <1>2, <1>3, <1>4 DEF EnsureLBService

(* Every control plane stays in an LB service of ours.                      *)
LEMMA PlaceNext ==
  ASSUME PassInv, PlaceInv, [Next]_vars
  PROVE  PlaceInv'
<1>1. ExtTypeOK /\ WorkerOK /\ FlowInv /\ vss \in [Ids -> VSRecord] /\ lbs \in [Ids -> LBRecord]
  BY TypeParts DEF PassInv, CPTypeOK
<1>2. ASSUME NEW v \in Ids, vss'[v].st # "absent"
      PROVE  vss'[v].lb \in Ids /\ lbs'[vss'[v].lb].st # "absent"
  <2>1. CASE vss[v].st # "absent" /\ vss'[v].lb = vss[v].lb
    <3>1. vss[v].lb \in Ids /\ lbs[vss[v].lb].st # "absent" /\ lbs[vss[v].lb] \in LBRecord
      BY <1>1, <2>1 DEF PlaceInv
    <3>2. LBMove(vss[v].lb)
      BY <1>1, <3>1, CPMoves
    <3> QED
      BY <1>1, <1>2, <2>1, <3>1, <3>2 DEF LBMove, LBRecord
  <2>2. CASE /\ pc = "vs" /\ lbs[got.lb].st = "live" /\ UNCHANGED lbs
             /\ vss' = [vss EXCEPT ![v] = [st |-> "pending", lb |-> got.lb, name |-> "cp", by |-> cur]]
    BY <1>1, <2>2 DEF FlowInv, IdsInHand
  <2>3. VSMove(v)
    BY <1>1, CPMoves
  <2> QED
    BY <1>1, <1>2, <2>1, <2>2, <2>3 DEF VSMove, NoVS
<1>3. ASSUME NEW v \in Ids, NEW s \in Shoots, vss'[v].by = s
      PROVE  vss'[v].st # "absent" /\ vss'[v].name = "cp" /\ Ours(vss'[v].lb, s, lbs')
  <2>1. CASE /\ vss'[v].lb = vss[v].lb /\ vss'[v].name = vss[v].name /\ vss'[v].by = vss[v].by
             /\ vss[v].st # "absent" => vss'[v].st # "absent"
    <3>1. vss[v].st # "absent" /\ vss[v].name = "cp" /\ Ours(vss[v].lb, s, lbs) /\ vss[v].lb \in Ids
      BY <1>3, <2>1 DEF PlaceInv
    <3>2. lbs'[vss[v].lb].st # "absent"
      BY <1>2, <2>1, <3>1
    <3>3. Ours(vss[v].lb, s, lbs')
      BY <1>1, <3>1, <3>2, OursNext
    <3> QED
      BY <2>1, <3>1, <3>3
  <2>2. CASE /\ pc = "vs" /\ lbs[got.lb].st = "live" /\ UNCHANGED lbs
             /\ vss' = [vss EXCEPT ![v] = [st |-> "pending", lb |-> got.lb, name |-> "cp", by |-> cur]]
    <3>1. Ours(got.lb, cur, lbs)
      BY <2>2 DEF PlaceInv
    <3>2. vss'[v].st = "pending" /\ vss'[v].name = "cp" /\ vss'[v].lb = got.lb /\ s = cur
      BY <1>1, <1>3, <2>2
    <3> QED
      BY <2>2, <3>1, <3>2
  <2>3. vss'[v] # NoVS
    BY <1>3, CPAssumption DEF NoVS, CPAssumption
  <2>4. VSMove(v)
    BY <1>1, CPMoves
  <2> QED
    BY <1>1, <2>1, <2>2, <2>3, <2>4 DEF VSMove
<1>4. ASSUME pc' \in {"vip", "vs"}, lbs'[got'.lb].st # "absent"
      PROVE  Ours(got'.lb, cur', lbs')
  <2>1. \/ EnsureLB
        \/ pc \in {"vip", "vs"} /\ cur' = cur /\ got'.lb = got.lb
    BY <1>4, WorkingMoves DEF ConfigStep, FoundVS, GivenUp, Applied, Provision, Saving
  <2>2. CASE EnsureLB
    BY <1>1, <2>2, FoundIsOurs
  <2>3. CASE pc \in {"vip", "vs"} /\ cur' = cur /\ got'.lb = got.lb
    <3>1. got.lb \in Ids /\ cur \in Shoots
      BY <1>1, <2>3, Busy DEF FlowInv, IdsInHand
    <3>2. LBMove(got.lb)
      BY <1>1, <3>1, CPMoves
    <3>3. lbs[got.lb].st # "absent"
      BY <1>1, <1>4, <2>3, <3>1, <3>2 DEF LBMove
    <3>4. Ours(got.lb, cur, lbs)
      BY <2>3, <3>3 DEF PlaceInv
    <3> QED
      BY <1>1, <1>4, <2>3, <3>1, <3>4, OursNext
  <2> QED
    BY <2>1, <2>2, <2>3
<1> QED
  BY <1>2, <1>3, <1>4 DEF PlaceInv

(* What a step is when nothing fails in it. *)
LEMMA CalmSteps ==
  ASSUME ExtTypeOK, [Next]_vars, faults' = 0
  PROVE  /\ faults = 0 /\ ~Restart /\ ~CMPOutage /\ ~CredentialsRejected
         /\ cmpUp => cmpUp'
         /\ cmpUp /\ ProvisionFails => pc \in {"vip", "vs"} /\ lbs[got.lb].st # "live"
         /\ SaveConfigFails => ~cfg[cur].there \/ mem.late
         /\ FindConfig => LET c == Copy(cur) IN
              \/ c.there /\ mem' = c /\ pc' = IF ReachesCMP(c.spec) THEN "del_vs" ELSE "del_bridge"
              \/ ~c.there /\ pc' = "del_clear"
         /\ cmpUp /\ DeleteVirtualServer => DeleteVS(mem.ids)
         /\ cmpUp /\ DeleteLBService => DeleteLB(mem.ids)
<1>1. faults \in Nat
  BY ExtAssumption DEF ExtAssumption, ExtTypeOK
<1>2. ASSUME NEW k PROVE ~Fault(k)
  BY <1>1 DEF Fault
<1>3. UNCHANGED faults
  <2>1. CASE ReconcileStep
    BY <1>2, <2>1 DEF ReconcileStep, ConfigFails, EnsureConfig, EnsureLB, EnsureVIPPort, EnsureVS,
       ProvisionFails, CredentialsRejected, DeployBridge, UndeployBridge, RemoveBridge, SaveConfig,
       SaveConfigFails, UpdateExtensionOutput, ClearOperation, NoFault
  <2>2. CASE DeleteStep
    BY <1>2, <2>2 DEF DeleteStep, FindConfig, DeleteVirtualServer, DeleteVIPPort, DeleteLBService,
       DeleteCall, DeleteBridge, RemoveBridge, DeleteClearOperation, RemoveFinalizer, NoFault
  <2>3. CASE ~ReconcileStep /\ ~DeleteStep
    BY <1>2, <2>3 DEF Next, Gardenlet, CreateExtension, RequestReconcile, DeleteExtension,
         Deliver, DeliverConfig,
       SecretChanged, GarbageCollect, CMPOnItsOwn, CMPOutage, Restart, Worker, TakeNext,
       TakeNothing, AddFinalizer, Begin, NoFault, vars, extVars
  <2> QED
    BY <2>1, <2>2, <2>3
<1>4. ~Restart /\ ~CMPOutage /\ ~CredentialsRejected
  BY <1>2 DEF Restart, CMPOutage, CredentialsRejected
<1>5. cmpUp => cmpUp'
  <2>1. CASE UNCHANGED <<lbs, vips, vss>>
    BY <1>4, <2>1 DEF Next, Gardenlet, CreateExtension, RequestReconcile, DeleteExtension,
         Deliver, DeliverConfig,
       SecretChanged, GarbageCollect, CMPOnItsOwn, CMPStep, CMPRecovers, VSReady, VSGone, LBGone,
       Worker, TakeNext, TakeNothing, AddFinalizer, Begin, ReconcileStep, ConfigFails, EnsureConfig,
       EnsureLB, EnsureLBService, EnsureVIPPort, EnsureVIP, EnsureVS, EnsureVirtualServer,
       ProvisionFails, DeployBridge, UndeployBridge, SaveConfig, SaveConfigFails,
       UpdateExtensionOutput, ClearOperation, DeleteStep, FindConfig, DeleteVirtualServer,
       DeleteVIPPort, DeleteLBService, DeleteCall, DeleteVS, DeleteVIP, DeleteLB, DeleteBridge,
       DeleteClearOperation, RemoveFinalizer, vars, cpVars
  <2>2. CASE CMPOnItsOwn \/ EnsureLB \/ EnsureVIPPort \/ EnsureVS \/ ProvisionFails
             \/ DeleteVirtualServer \/ DeleteVIPPort \/ DeleteLBService
    BY <2>2 DEF CMPOnItsOwn, CMPStep, CMPRecovers, VSReady, VSGone, LBGone,
       EnsureLB, EnsureLBService, EnsureVIPPort, EnsureVIP, EnsureVS, EnsureVirtualServer,
       ProvisionFails, DeleteVirtualServer,
       DeleteVIPPort, DeleteLBService, DeleteCall, DeleteVS, DeleteVIP, DeleteLB, cpVars
  <2> QED
    BY <2>1, <2>2, CMPUntouched DEF vars, cpVars
<1>6. /\ cmpUp /\ ProvisionFails => pc \in {"vip", "vs"} /\ lbs[got.lb].st # "live"
      /\ SaveConfigFails => ~cfg[cur].there \/ mem.late
  BY <1>2 DEF ProvisionFails, SaveConfigFails
<1>7. FindConfig => LET c == Copy(cur) IN
        \/ c.there /\ mem' = c /\ pc' = IF ReachesCMP(c.spec) THEN "del_vs" ELSE "del_bridge"
        \/ ~c.there /\ pc' = "del_clear"
  BY <1>2 DEF FindConfig, GoTo
<1>8. /\ cmpUp /\ DeleteVirtualServer => DeleteVS(mem.ids)
      /\ cmpUp /\ DeleteLBService => DeleteLB(mem.ids)
  BY <1>2 DEF DeleteVirtualServer, DeleteLBService, DeleteCall
<1> QED
  BY <1>3, <1>4, <1>5, <1>6, <1>7, <1>8

(* How a pass goes on outside provisioning.                                  *)
Onward ==
    \/ UNCHANGED <<pc, mem, got>>
    \/ SaveConfig /\ pc = "save" /\ pc' = "output" /\ mem' = mem
    \/ pc \in {"save", "output"} /\ pc' \in {"output", "clear"} /\ mem' = mem /\ UNCHANGED cfg
       /\ (pc = "save" => SaveConfigFails)
    \/ FindConfig /\ pc = "find" /\ pc' \in {"del_vs", "del_clear", "del_bridge"}
    \/ DeleteVirtualServer /\ pc = "del_vs" /\ pc' = "del_vip" /\ mem' = mem
    \/ DeleteVIPPort /\ pc = "del_vip" /\ pc' = "del_lb" /\ mem' = mem
    \/ DeleteLBService /\ pc = "del_lb" /\ pc' = "del_bridge" /\ mem' = mem
    \/ pc \in {"del_bridge", "del_clear"} /\ pc' \in {"del_clear", "del_finalizer"}

(* A step of a pass outside provisioning is one of these; ...                 *)
LEMMA OnwardMoves ==
  ASSUME ExtTypeOK, [Next]_vars, pc # "idle", pc' # "idle", pc' \notin Provision \cup Saving
  PROVE  Onward
<1>1. CASE UNCHANGED <<pc, locals>>
  BY <1>1 DEF locals, Onward
<1>2. CASE DeleteStep
  BY <1>2 DEF DeleteStep, FindConfig, DeleteVirtualServer, DeleteVIPPort, DeleteLBService, DeleteCall,
     DeleteBridge, DeleteClearOperation, RemoveFinalizer, Return, ReturnError, Idle, GoTo, Onward
<1>3. ~EnsureConfig
  BY ConfigSteps DEF ConfigStep, Provision, Saving
<1>4. CASE SaveConfig \/ SaveConfigFails \/ UpdateExtensionOutput
  BY <1>4 DEF SaveConfig, SaveConfigFails, UpdateExtensionOutput, AfterOutput, ReturnError, Idle,
     GoTo, Onward
<1>5. ~EnsureVS
  <2>1. ASSUME NEW m, AppPlane(m) PROVE pc' \in Saving
    BY <2>1 DEF AppPlane, GoTo, Saving
  <2> QED
    BY <2>1 DEF EnsureVS
<1>6. CASE ReconcileStep
  BY <1>3, <1>4, <1>5, <1>6 DEF ReconcileStep, ConfigFails, EnsureLB, EnsureVIPPort, ProvisionFails,
     CredentialsRejected, CPFails, DeployBridge, UndeployBridge, ClearOperation, Return,
     ReturnError, Idle, GoTo, Provision, Saving
<1>7. CASE ~ReconcileStep /\ ~DeleteStep
  BY <1>1, <1>7 DEF Next, Gardenlet, CreateExtension, RequestReconcile, DeleteExtension,
     Deliver, DeliverConfig, SecretChanged, GarbageCollect, CMPOnItsOwn, CMPOutage, Restart,
     Idle, Worker, TakeNext, TakeNothing, AddFinalizer, Begin, Take, vars, extVars, locals
<1> QED
  BY <1>2, <1>6, <1>7

(* ... and this is how a pass ends.                                         *)
LEMMA EndMoves ==
  ASSUME ExtTypeOK, [Next]_vars, pc # "idle", pc' = "idle"
  PROVE  \/ Restart \/ SaveConfigFails
         \/ pc \in {"config", "output", "clear", "del_finalizer"}
<1>1. ~EnsureConfig
  BY ConfigSteps DEF ConfigStep, Saving
<1>2. ~EnsureVS
  <2>1. ASSUME NEW m, AppPlane(m) PROVE pc' \in Saving
    BY <2>1 DEF AppPlane, GoTo, Saving
  <2> QED
    BY <2>1 DEF EnsureVS, Saving
<1>3. CASE Worker
  BY <1>1, <1>2, <1>3 DEF Worker, TakeNext, TakeNothing, AddFinalizer, Begin, Take, ReconcileStep,
     ConfigFails, EnsureLB, EnsureVIPPort, ProvisionFails,
     CredentialsRejected, CPFails, DeployBridge, UndeployBridge, SaveConfig, UpdateExtensionOutput,
     ClearOperation, DeleteStep, FindConfig, DeleteVirtualServer, DeleteVIPPort, DeleteLBService,
     DeleteCall, DeleteBridge, DeleteClearOperation, RemoveFinalizer, GoTo
<1>4. CASE ~Worker
  BY <1>4 DEF Next, Gardenlet, CreateExtension, RequestReconcile, DeleteExtension, Deliver,
     DeliverConfig, SecretChanged, GarbageCollect, CMPOnItsOwn, CMPOutage, vars, extVars, locals
<1> QED
  BY <1>3, <1>4

(* What of a Shoot is in use at CMP is recorded, or in the hands of the pass *)
(* that will record it; and a deletion has asked for it before it goes on.   *)
LiveLB(l, s) == lbs[l].st = "live" /\ lbs[l].project = Project[s] /\ lbs[l].name = "cp"
LiveVS(v, s) == vss[v].by = s /\ vss[v].st # "deleting"
Recorded(s)  == IF cur = s /\ pc \in Saving THEN mem.ids ELSE cfg[s].ids
HeldLB(s)    == IF cur = s /\ pc \in {"vip", "vs"} THEN got.lb ELSE Recorded(s).lb
Released     == {"del_bridge", "del_clear", "del_finalizer"}
KeptLB(s, l) ==
    LiveLB(l, s) =>
        /\ ext[s].fin /\ HeldLB(s) = l
        /\ cur = s => pc \notin Released
        /\ cur = s /\ pc \in {"del_vs", "del_vip", "del_lb"} => mem.ids.lb = l
KeptVS(s, v) ==
    LiveVS(v, s) =>
        /\ ext[s].fin /\ Recorded(s).vs = v /\ Recorded(s).lb # NoId
        /\ cur = s => pc \notin Released \cup {"del_vip", "del_lb"}
        /\ cur = s /\ pc = "del_vs" => mem.ids.vs = v /\ mem.ids.lb # NoId
KeptInv == faults = 0 => cmpUp /\ \A s \in Shoots : \A i \in Ids : KeptLB(s, i) /\ KeptVS(s, i)

(* The ids in a config are replaced by nothing but a pass that saves its own. *)
LEMMA CfgIds ==
  ASSUME StaleConfigs = FALSE, PassInv, CopyInv, ConfigInv, [Next]_vars, NEW s \in Shoots, ext[s].fin
  PROVE  \/ cfg'[s].ids = cfg[s].ids
         \/ SaveConfig /\ pc = "save" /\ s = cur /\ cfg'[s].ids = mem.ids
<1>1. ExtTypeOK /\ WorkerOK /\ ObjectsOK
  BY TypeParts DEF PassInv
<1>2. /\ ext[s].uid # 0
      /\ cfg[s].there => cfg[s].owner = ext[s].uid
      /\ ~cfg[s].there => cfg[s].ids = NoIds
  BY DEF CopyInv, ConfigInv
<1>3. CASE cfg[s].owner # ext[s].uid /\ cfg'[s] = NoCfg
  BY <1>2, <1>3 DEF NoCfg
<1>4. CASE EnsureConfig /\ s = cur /\ cfg'[s] = SyncedConfig(Copy(s))
  BY <1>1, <1>2, <1>4, SyncedSame, CopyIsConfig
<1>5. CASE SaveConfig /\ s = cur /\ cfg'[s] = [mem EXCEPT !.owner = cfg[s].owner]
  BY <1>1, <1>5 DEF WorkerOK, CfgRecord, SaveConfig
<1>6. CfgMove(s)
  BY <1>1, CfgMoves
<1> QED
  BY <1>3, <1>4, <1>5, <1>6 DEF CfgMove

(* No record is lost: only the pass that found a virtual server changes it.  *)
LEMMA RecordedNext ==
  ASSUME StaleConfigs = FALSE, PassInv, CopyInv, ConfigInv, [Next]_vars, NEW s \in Shoots, ext[s].fin,
         ~Restart, ~SaveConfigFails
  PROVE  \/ Recorded(s)' = Recorded(s)
         \/ FoundVS /\ s = cur /\ Recorded(s)' = mem'.ids
<1>1. ExtTypeOK /\ WorkerOK /\ ObjectsOK /\ s # NoShoot
  BY TypeParts, CPAssumption DEF PassInv, CPAssumption
<1>2. CASE cur' = s /\ pc' \in Saving
  <2>1. cur = s /\ Recorded(s)' = mem'.ids /\ pc # "idle"
    BY <1>2, WorkingMoves DEF Recorded
  <2>2. ASSUME SameConfig(mem', mem), pc \in Saving PROVE Recorded(s)' = Recorded(s)
    BY <2>1, <2>2 DEF Recorded, SameConfig
  <2>3. CASE ConfigStep
    <3>1. Recorded(s) = cfg[s].ids
      BY <2>3 DEF ConfigStep, Recorded, Saving
    <3>2. SyncedConfig(Copy(s)).ids = cfg[s].ids
      BY <1>1, <2>1, SyncedSame, CopyIsConfig DEF ConfigInv
    <3> QED
      BY <2>1, <2>3, <3>1, <3>2 DEF ConfigStep, SameConfig
  <2>4. CASE GivenUp
    <3>1. mem.ids = cfg[s].ids /\ Recorded(s) = cfg[s].ids
      BY <2>1, <2>4 DEF GivenUp, ConfigInv, Recorded, Saving, Provision
    <3> QED
      BY <2>1, <2>4, <3>1 DEF GivenUp, SameConfig
  <2>5. CASE UNCHANGED <<pc, mem, got>>
    BY <1>2, <2>2, <2>5 DEF SameConfig
  <2>6. CASE Applied
    BY <2>2, <2>6 DEF Applied, Saving
  <2>7. CASE FoundVS
    BY <2>1, <2>7
  <2> QED
    BY <1>2, <2>3, <2>4, <2>5, <2>6, <2>7, WorkingMoves DEF Saving
<1>3. CASE ~(cur' = s /\ pc' \in Saving) /\ cur = s /\ pc \in Saving
  <2>1. pc # "idle" /\ pc' # "idle"
    BY <1>1, <1>3, EndMoves DEF Saving
  <2>2. cur' = cur /\ pc' \notin Saving
    BY <1>1, <1>3, <2>1, PassMoves
  <2>3. pc' \notin Provision
    BY <1>3, <2>2, WorkingMoves DEF ConfigStep, FoundVS, GivenUp, Applied, Saving, Provision
  <2>4. SaveConfig
    BY <1>1, <1>3, <2>1, <2>2, <2>3, OnwardMoves DEF Onward, Saving
  <2>5. cfg'[s].ids = mem.ids
    BY <1>1, <1>3, <2>4 DEF SaveConfig, ObjectsOK, WorkerOK, CfgRecord
  <2> QED
    BY <1>3, <2>5 DEF Recorded
<1>4. CASE ~(cur' = s /\ pc' \in Saving) /\ ~(cur = s /\ pc \in Saving)
  <2>1. cfg'[s].ids = cfg[s].ids
    BY <1>4, CfgIds DEF Saving
  <2> QED
    BY <1>4, <2>1 DEF Recorded
<1> QED
  BY <1>2, <1>3, <1>4

(* What a step of a history without faults is.                               *)
LEMMA CalmFacts ==
  ASSUME StaleConfigs = FALSE, PassInv, ConfigInv, KeptInv, [Next]_vars, faults' = 0
  PROVE  /\ faults = 0 /\ cmpUp /\ cmpUp' /\ ~Restart /\ ~SaveConfigFails /\ ~CredentialsRejected
         /\ \A s \in Shoots : \A i \in Ids : KeptLB(s, i) /\ KeptVS(s, i)
<1>1. ExtTypeOK
  BY DEF PassInv
<1>2. ~SaveConfigFails
  BY <1>1, CalmSteps, WorkingSpec DEF SaveConfigFails, ConfigInv, Saving
<1> QED
  BY <1>1, <1>2, CalmSteps DEF KeptInv

(* Nor does the pass lose the LB service it works with while it is in use.   *)
LEMMA HeldNext ==
  ASSUME StaleConfigs = FALSE, PassInv, CopyInv, ConfigInv, KeptInv, [Next]_vars, faults' = 0,
         NEW s \in Shoots, ext[s].fin
  PROVE  \/ HeldLB(s)' = HeldLB(s)
         \/ EnsureLB /\ s = cur /\ HeldLB(s)' = got'.lb
         \/ lbs[HeldLB(s)].st # "live"
<1>1. ExtTypeOK /\ WorkerOK
  BY TypeParts DEF PassInv
<1>2. ~Restart /\ ~SaveConfigFails /\ ~CredentialsRejected /\ cmpUp
  BY CalmFacts
<1>3. CASE cur' = s /\ pc' \in {"vip", "vs"}
  <2>1. cur = s /\ HeldLB(s)' = got'.lb
    BY <1>3, WorkingMoves DEF HeldLB, Provision
  <2>2. \/ UNCHANGED <<pc, got>> \/ EnsureLB
        \/ pc = "vip" /\ got'.lb = got.lb
    BY <1>3, WorkingMoves DEF ConfigStep, FoundVS, GivenUp, Applied, Provision, Saving
  <2> QED
    BY <1>3, <2>1, <2>2 DEF HeldLB
<1>4. CASE ~(cur' = s /\ pc' \in {"vip", "vs"}) /\ cur = s /\ pc \in {"vip", "vs"}
  <2>1. pc # "idle" /\ pc' # "idle"
    BY <1>1, <1>2, <1>4, EndMoves
  <2>2. cur' = cur /\ pc' \notin {"vip", "vs"} /\ HeldLB(s) = got.lb
    BY <1>1, <1>4, <2>1, PassMoves DEF HeldLB
  <2>3. pc' \in Provision \cup Saving
    BY <1>1, <1>4, <2>1, <2>2, OnwardMoves DEF Onward, Provision, Saving
  <2>4. FoundVS \/ GivenUp
    BY <1>4, <2>2, <2>3, WorkingMoves DEF ConfigStep, Applied
  <2>5. CASE FoundVS
    <3>1. mem'.ids.lb = got.lb /\ pc' \in Saving
      BY <1>1, <2>5 DEF FoundVS, WorkerOK, IdsRecord
    <3>2. HeldLB(s)' = mem'.ids.lb
      BY <1>4, <2>2, <3>1 DEF HeldLB, Recorded, Saving
    <3> QED
      BY <2>2, <3>1, <3>2
  <2>6. CASE GivenUp
    BY <1>1, <1>2, <2>2, <2>6, CalmSteps DEF GivenUp
  <2> QED
    BY <2>4, <2>5, <2>6
<1>5. CASE ~(cur' = s /\ pc' \in {"vip", "vs"}) /\ ~(cur = s /\ pc \in {"vip", "vs"})
  <2>1. HeldLB(s)' = Recorded(s)'.lb /\ HeldLB(s) = Recorded(s).lb
    BY <1>5 DEF HeldLB
  <2>2. ~(FoundVS /\ s = cur)
    BY <1>5 DEF FoundVS
  <2>3. Recorded(s)' = Recorded(s)
    BY <1>2, <2>2, RecordedNext
  <2> QED
    BY <2>1, <2>3
<1> QED
  BY <1>3, <1>4, <1>5

(* No two Shoots of a project.                                               *)
OwnProjects == \A s, t \in Shoots : Project[s] = Project[t] => s = t

(* A calm deletion goes through its calls in order, with what is recorded.   *)
LEMMA DeletionMoves ==
  ASSUME SpecsReachCMP, StaleConfigs = FALSE, PassInv, ConfigInv, KeptInv, [Next]_vars, faults' = 0,
         pc # "idle", pc' \in Deleting, Recorded(cur).lb # NoId \/ Recorded(cur).vs # NoId
  PROVE  /\ cur' = cur
         /\ \/ UNCHANGED <<pc, mem>>
            \/ pc = "find" /\ pc' = "del_vs" /\ mem'.ids = Recorded(cur)
            \/ pc = "del_vs" /\ pc' = "del_vip" /\ mem' = mem /\ DeleteVS(mem.ids)
            \/ pc = "del_vip" /\ pc' = "del_lb" /\ mem' = mem
            \/ pc = "del_lb" /\ pc' = "del_bridge" /\ mem' = mem /\ DeleteLB(mem.ids)
            \/ pc \in {"del_bridge", "del_clear"} /\ pc' \in {"del_clear", "del_finalizer"}
<1>1. ExtTypeOK /\ WorkerOK
  BY TypeParts DEF PassInv
<1>2. cur \in Shoots /\ cur' = cur /\ pc \in Deleting
  BY <1>1, PassMoves, Busy DEF Deleting
<1>3. cmpUp
  BY CalmFacts
<1>4. Recorded(cur) = cfg[cur].ids
  BY <1>2 DEF Recorded, Deleting, Saving
<1>5. FindConfig => pc' = "del_vs" /\ mem'.ids = cfg[cur].ids
  <2>1. cfg[cur].there
    BY <1>2, <1>4 DEF ConfigInv, NoIds
  <2>2. ReachesCMP(cfg[cur].spec)
    BY <1>2, <2>1 DEF ConfigInv, SpecsReachCMP
  <2> QED
    BY <1>1, <1>2, <2>1, <2>2, CalmSteps, CopyIsConfig
<1>6. Onward
  BY <1>1, OnwardMoves DEF Deleting, Provision, Saving
<1> QED
  BY <1>1, <1>2, <1>3, <1>4, <1>5, <1>6, CalmSteps DEF Onward, Deleting

(* An Extension whose resources are in use keeps its finalizer.              *)
LEMMA FinStays ==
  ASSUME ExtTypeOK, CopyInv, [Next]_vars, NEW s \in Shoots, ext[s].fin,
         cur = s => pc # "del_finalizer"
  PROVE  ext'[s].fin
BY ExtMoves DEF ExtMove, CopyInv

(* An LB service in use stays recorded.                                      *)
LEMMA KeptLBNext ==
  ASSUME OwnProjects, SpecsReachCMP, StaleConfigs = FALSE,
         PassInv, Alone, CopyInv, ConfigInv, PlaceInv, KeptInv, [Next]_vars, faults' = 0, NEW s \in Shoots, NEW l \in Ids
  PROVE  KeptLB(s, l)'
<1> SUFFICES ASSUME LiveLB(l, s)'
             PROVE  /\ ext'[s].fin /\ HeldLB(s)' = l
                    /\ cur' = s => pc' \notin Released
                    /\ cur' = s /\ pc' \in {"del_vs", "del_vip", "del_lb"} => mem'.ids.lb = l
  BY DEF KeptLB
<1>1. ExtTypeOK /\ WorkerOK /\ lbs \in [Ids -> LBRecord] /\ l # NoId
  BY TypeParts, CPAssumption DEF PassInv, CPTypeOK, CPAssumption
<1>2. lbs'[l].st = "live" /\ lbs'[l].project = Project[s] /\ lbs'[l].name = "cp"
  BY DEF LiveLB
<1>3. KeptLB(s, l)
  BY CalmFacts
<1>4. CASE LiveLB(l, s)
  <2>1. /\ ext[s].fin /\ HeldLB(s) = l
        /\ cur = s => pc \notin Released
        /\ cur = s /\ pc \in {"del_vs", "del_vip", "del_lb"} => mem.ids.lb = l
    BY <1>3, <1>4 DEF KeptLB
  <2>2. ext'[s].fin
    BY <1>1, <2>1, FinStays DEF Released
  <2>3. HeldLB(s)' = l
    <3>1. CASE EnsureLB /\ s = cur
      <4>1. l \in LBsIn(Project[cur]) /\ lbs[l].name = "cp"
        BY <1>4, <3>1 DEF LiveLB, LBsIn
      <4>2. ReusableLBs(cur) = {i \in LBsIn(Project[cur]) : lbs[i].name = "cp"}
        BY <4>1 DEF ReusableLBs, Reusable
      <4>3. got'.lb \in LBsIn(Project[cur]) /\ lbs[got'.lb].name = "cp"
        BY <1>1, <3>1, <4>1, <4>2, FoundIsOurs
      <4>4. got'.lb = l
        BY <4>1, <4>3 DEF Alone, NamedLB, LBsIn
      <4> QED
        BY <2>1, <3>1, <4>4, HeldNext, <1>4 DEF LiveLB
    <3> QED
      BY <1>4, <2>1, <3>1, HeldNext DEF LiveLB
  <2>4. ASSUME cur' = s, pc' \in Deleting
        PROVE  /\ pc' \notin Released
               /\ pc' \in {"del_vs", "del_vip", "del_lb"} => mem'.ids.lb = l
    <3>1. CASE pc = "idle"
      BY <2>4, <3>1, <1>1, PassMoves DEF Released, Deleting
    <3>2. CASE pc # "idle"
      <4>1. cur = s /\ pc \in Deleting
        BY <1>1, <2>4, <3>2, PassMoves DEF Deleting
      <4>2. Recorded(cur).lb = l
        BY <2>1, <4>1 DEF HeldLB, Deleting
      <4>3. ~(pc = "del_lb" /\ DeleteLB(mem.ids))
        BY <1>1, <1>2, <1>4, <2>1, <4>1 DEF DeleteLB, LiveLB, LBRecord
      <4> QED
        BY <1>1, <2>1, <2>4, <3>2, <4>1, <4>2, <4>3, DeletionMoves DEF Released, Deleting
    <3> QED
      BY <3>1, <3>2
  <2> QED
    BY <2>2, <2>3, <2>4 DEF Released, Deleting
<1>5. CASE ~LiveLB(l, s)
  <2>1. LBMove(l) /\ lbs[l] \in LBRecord
    BY <1>1, CPMoves
  <2>2. /\ pc = "lb" /\ (EnsureLB \/ ProvisionFails)
        /\ lbs[l].st = "absent" /\ ReusableLBs(cur) = {}
        /\ lbs' = [lbs EXCEPT ![l] = [st |-> "live", project |-> Project[cur], name |-> "cp"]]
    BY <1>1, <1>2, <1>5, <2>1 DEF LBMove, LiveLB, LBRecord
  <2>3. EnsureLB
    BY <1>1, <2>2, CalmSteps, CalmFacts
  <2>4. PICK i \in Ids : EnsureLBService(cur, Fresh("lb"), i) /\ got' = [got EXCEPT !.lb = i]
    BY <2>3 DEF EnsureLB
  <2>5. lbs' # lbs /\ lbs' = [lbs EXCEPT ![i] = [st |-> "live", project |-> Project[cur], name |-> "cp"]]
    BY <1>1, <2>2, <2>4 DEF EnsureLBService
  <2>6. i = l /\ got'.lb = i
    BY <1>1, <2>2, <2>4, <2>5 DEF WorkerOK, IdsRecord
  <2>7. cur \in Shoots /\ cur = s /\ cur' = s /\ pc' = "vip"
    BY <1>1, <1>2, <2>2, <2>3, Busy DEF EnsureLB, GoTo, OwnProjects
  <2>8. ext'[s].fin
    BY <2>2, <2>3, <2>7 DEF EnsureLB, CopyInv, Reconciling, Provision
  <2> QED
    BY <2>6, <2>7, <2>8 DEF HeldLB, Released
<1> QED
  BY <1>4, <1>5

(* A virtual server in use stays recorded.                                   *)
LEMMA KeptVSNext ==
  ASSUME SpecsReachCMP, StaleConfigs = FALSE,
         PassInv, Alone, CopyInv, ConfigInv, PlaceInv, KeptInv, [Next]_vars, faults' = 0, NEW s \in Shoots, NEW v \in Ids
  PROVE  KeptVS(s, v)'
<1> SUFFICES ASSUME LiveVS(v, s)'
             PROVE  /\ ext'[s].fin /\ Recorded(s)'.vs = v /\ Recorded(s)'.lb # NoId
                    /\ cur' = s => pc' \notin Released \cup {"del_vip", "del_lb"}
                    /\ cur' = s /\ pc' = "del_vs" => mem'.ids.vs = v /\ mem'.ids.lb # NoId
  BY DEF KeptVS
<1>1. /\ ExtTypeOK /\ WorkerOK /\ FlowInv /\ vss \in [Ids -> VSRecord] /\ lbs \in [Ids -> LBRecord]
      /\ v # NoId /\ s # NoShoot
  BY TypeParts, CPAssumption DEF PassInv, CPTypeOK, CPAssumption
<1>2. vss'[v].by = s /\ vss'[v].st # "deleting"
  BY DEF LiveVS
<1>3. KeptVS(s, v) /\ ~Restart /\ ~SaveConfigFails
  BY CalmFacts
<1>4. CASE LiveVS(v, s)
  <2>1. /\ ext[s].fin /\ Recorded(s).vs = v /\ Recorded(s).lb # NoId
        /\ cur = s => pc \notin Released \cup {"del_vip", "del_lb"}
        /\ cur = s /\ pc = "del_vs" => mem.ids.vs = v /\ mem.ids.lb # NoId
    BY <1>3, <1>4 DEF KeptVS
  <2>2. ext'[s].fin
    BY <1>1, <2>1, FinStays DEF Released
  <2>3. /\ vss[v].st # "absent" /\ vss[v].name = "cp" /\ vss[v].lb \in Ids
        /\ Ours(vss[v].lb, s, lbs)
    BY <1>4 DEF LiveVS, PlaceInv
  <2>4. ASSUME FoundVS, s = cur PROVE mem'.ids.vs = v /\ mem'.ids.lb # NoId
    <3>1. PICK i \in Ids : EnsureVirtualServer(cur, got.lb, Fresh("vs"), i)
                           /\ mem'.ids = [got EXCEPT !.vs = i]
      BY <2>4 DEF FoundVS
    <3>2. got.lb \in Ids /\ mem'.ids.lb = got.lb /\ mem'.ids.vs = i /\ got.lb # NoId
      BY <1>1, <2>4, <3>1, CPAssumption
      DEF FoundVS, FlowInv, IdsInHand, WorkerOK, IdsRecord, CPAssumption
    <3>3. lbs[got.lb].st # "absent"
      <4>1. CASE i \in ReusableVSs(got.lb)
        <5>1. vss[i].st # "absent" /\ vss[i].lb = got.lb
          BY <4>1 DEF ReusableVSs, Reusable, VSsOf
        <5> QED
          BY <5>1 DEF PlaceInv
      <4>2. CASE lbs[got.lb].st = "live"
        BY <4>2
      <4> QED
        BY <3>1, <4>1, <4>2 DEF EnsureVirtualServer
    <3>4. Ours(got.lb, s, lbs)
      BY <2>4, <3>3 DEF PlaceInv, FoundVS
    <3>5. got.lb = vss[v].lb
      BY <2>3, <3>2, <3>4 DEF Ours, Only, Alone, NamedLB
    <3>6. v \in VSsOf(got.lb) /\ ReusableVSs(got.lb) = {w \in VSsOf(got.lb) : vss[w].name = "cp"}
      BY <2>3, <3>5 DEF VSsOf, ReusableVSs, Reusable
    <3>7. i \in VSsOf(got.lb) /\ vss[i].name = "cp"
      BY <2>3, <3>1, <3>6 DEF EnsureVirtualServer
    <3>8. i = v
      BY <2>3, <3>6, <3>7 DEF Alone, NamedVS, VSsOf
    <3> QED
      BY <3>2, <3>8
  <2>5. Recorded(s)'.vs = v /\ Recorded(s)'.lb # NoId
    BY <1>3, <2>1, <2>4, RecordedNext
  <2>6. ASSUME cur' = s, pc' \in Deleting
        PROVE  /\ pc' \notin Released \cup {"del_vip", "del_lb"}
               /\ pc' = "del_vs" => mem'.ids.vs = v /\ mem'.ids.lb # NoId
    <3>1. CASE pc = "idle"
      BY <1>1, <2>6, <3>1, PassMoves DEF Released, Deleting
    <3>2. CASE pc # "idle"
      <4>1. cur = s /\ pc \in Deleting
        BY <1>1, <2>6, <3>2, PassMoves DEF Deleting
      <4>2. ~(pc = "del_vs" /\ DeleteVS(mem.ids))
        BY <1>1, <1>2, <2>1, <2>3, <4>1 DEF DeleteVS, VSRecord
      <4> QED
        BY <1>1, <2>1, <2>6, <3>2, <4>1, <4>2, DeletionMoves DEF Released, Deleting
    <3> QED
      BY <3>1, <3>2
  <2> QED
    BY <2>2, <2>5, <2>6 DEF Released, Deleting
<1>5. CASE ~LiveVS(v, s)
  <2>1. VSMove(v) /\ vss[v] \in VSRecord
    BY <1>1, CPMoves
  <2>2. /\ pc = "vs" /\ (EnsureVS \/ ProvisionFails)
        /\ vss[v].st = "absent" /\ lbs[got.lb].st = "live"
        /\ vss' = [vss EXCEPT ![v] = [st |-> "pending", lb |-> got.lb, name |-> "cp", by |-> cur]]
    BY <1>1, <1>2, <1>5, <2>1 DEF VSMove, LiveVS, NoVS
  <2>3. FoundVS /\ cur' = cur /\ cur = s /\ UNCHANGED ext
    <3>1. EnsureVS
      BY <1>1, <2>2, CalmSteps, CalmFacts
    <3> QED
      BY <1>1, <1>2, <2>2, <3>1, FoundSteps DEF EnsureVS
  <2>4. PICK i \in Ids : EnsureVirtualServer(cur, got.lb, Fresh("vs"), i)
                         /\ mem'.ids = [got EXCEPT !.vs = i]
    BY <2>3 DEF FoundVS
  <2>5. vss' # vss /\ vss' = [vss EXCEPT ![i] = [st |-> "pending", lb |-> got.lb, name |-> "cp", by |-> cur]]
    BY <1>1, <2>2, <2>4 DEF EnsureVirtualServer
  <2>6. i = v /\ mem'.ids.vs = v /\ mem'.ids.lb = got.lb /\ got.lb \in Ids /\ got.lb # NoId
    BY <1>1, <2>2, <2>4, <2>5, CPAssumption
    DEF WorkerOK, IdsRecord, FlowInv, IdsInHand, CPAssumption
  <2>7. Recorded(s)' = mem'.ids /\ pc' \in Saving
    BY <2>3 DEF FoundVS, Recorded
  <2>8. ext'[s].fin
    BY <2>2, <2>3 DEF CopyInv, Reconciling, Provision
  <2> QED
    BY <2>6, <2>7, <2>8 DEF Released, Saving
<1> QED
  BY <1>4, <1>5

(* The record of what was made at CMP outlives every pass until a deletion   *)
(* has used it: nothing is left in use at CMP of an Extension that is gone,  *)
(* whatever gardenlet asks for meanwhile and however late the informer's     *)
(* Extensions are.  The hypotheses exclude the cases in which the code does  *)
(* leave something behind: a providerConfig that does not reach CMP, a       *)
(* config read behind, two Shoots of a project, which use one stack, an      *)
(* Extension created again before its old config is collected; and, in       *)
(* CleanRelease, a fault.                                                    *)
THEOREM NothingLeftBehind ==
  ASSUME PromptGC, SpecsReachCMP, StaleConfigs = FALSE, OwnProjects
  PROVE  Spec => []CleanRelease
<1> DEFINE Inv == Alone /\ CopyInv /\ ConfigInv /\ PlaceInv /\ KeptInv
<1>1. Init => Inv
  <2> SUFFICES ASSUME Init PROVE Inv
    OBVIOUS
  <2>1. \A i \in Ids : /\ lbs[i].name = "other"
                       /\ vss[i].name = "other" /\ vss[i].by = NoShoot
                       /\ vss[i].st # "absent" => vss[i].lb = i /\ lbs[i].st # "absent"
    BY DEF Init, CPInit, NoLB, NoVS
  <2>2. Alone
    BY <2>1 DEF Alone, NamedLB, NamedVS
  <2>3. \A s \in Shoots : ext[s] = NoExt /\ cache[s] = NoExt /\ cfg[s] = NoCfg
    BY DEF Init
  <2>4. pc = "idle" /\ clock = 0 /\ cmpUp
    BY DEF Init, CPInit
  <2>5. CopyInv
    BY <2>3, <2>4 DEF CopyInv, NoExt, Reconciling, Deleting, Provision, Saving
  <2>6. ConfigInv
    BY <2>3, <2>4 DEF ConfigInv, NoExt, NoCfg, Provision, Saving
  <2>7. PlaceInv
    BY <2>1, <2>4, CPAssumption DEF PlaceInv, CPAssumption
  <2>8. KeptInv
    BY <2>1, <2>4, CPAssumption DEF KeptInv, KeptLB, KeptVS, LiveLB, LiveVS, CPAssumption
  <2> QED
    BY <2>2, <2>5, <2>6, <2>7, <2>8
<1>2. PassInv /\ Inv /\ [Next]_vars => Inv'
  <2> SUFFICES ASSUME PassInv, Inv, [Next]_vars PROVE Inv'
    OBVIOUS
  <2>1. Alone' /\ CopyInv' /\ ConfigInv' /\ PlaceInv'
    BY NextAlone, CopyNext, ConfigNext, PlaceNext DEF PassInv
  <2>2. ASSUME faults' = 0 PROVE cmpUp' /\ \A s \in Shoots : \A i \in Ids : KeptLB(s, i)' /\ KeptVS(s, i)'
    BY <2>2, CalmFacts, KeptLBNext, KeptVSNext
  <2>3. KeptInv'
    BY <2>2 DEF KeptInv
  <2> QED
    BY <2>1, <2>3
<1>3. PassInv /\ Inv => CleanRelease
  <2> SUFFICES ASSUME PassInv, Inv, NEW s \in Shoots, faults = 0, ext[s].uid = 0
               PROVE  /\ \A l \in LBsIn(Project[s]) : lbs[l].name = "cp" => lbs[l].st = "deleting"
                      /\ \A v \in Ids : vss[v].by = s => vss[v].st = "deleting"
    BY DEF CleanRelease
  <2>1. ~ext[s].fin
    BY DEF CopyInv
  <2>2. \A i \in Ids : ~LiveLB(i, s) /\ ~LiveVS(i, s)
    BY <2>1 DEF KeptInv, KeptLB, KeptVS
  <2>3. \A i \in Ids : lbs[i].st \in {"absent", "live", "deleting"}
    BY DEF PassInv, ExtTypeOK, CPTypeOK, LBRecord
  <2> QED
    BY <2>2, <2>3 DEF LiveLB, LiveVS, LBsIn
<1> HIDE DEF Inv
<1> QED
  BY <1>1, <1>2, <1>3, PassInvariant, PTL DEF Spec
=============================================================================

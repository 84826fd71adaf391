------------------------- MODULE IngressGroupProofs -------------------------
(* What TLAPS proves of IngressGroup for every set of Ingresses, vip-groups, *)
(* backends and provider ids, and every selection and number of changes and  *)
(* faults: type correctness, and that an LBService never has two             *)
(* certificates of one Secret.                                               *)
EXTENDS IngressGroup, TLAPS

(* The calls of a pass that makes a group converge, in their order.          *)
ListenerCalls ==
    {"cert", "cert-unbind", "cert-delete", "pool", "rule", "drop-rules"}
AfterLB == {"vip", "listener", "obsolete-pools", "obsolete-listeners", "persist", "publish"}
              \cup ListenerCalls
Converging == {"finalizer", "lb"} \cup AfterLB

Needed == UNION {Backends[i] : i \in w.members}

(* What a pass has in hand at each of its calls.                             *)
InHand ==
    /\ pc \in Converging => w.members # {} /\ w.owner \in Identities
    /\ w.todo \subseteq NeededBy(w.tls)
    /\ pc \in AfterLB => w.a.lb \in LbIds
    /\ pc \in AfterLB \ {"vip"} => w.a.vip \in VipIds
    /\ pc \in {"listener"} \cup ListenerCalls => w.todo # {}
    /\ pc \in ListenerCalls => w.vs \in VsIds
    /\ pc = "cert" => w.certs # {}
    /\ pc \in {"cert-unbind", "cert-delete"} => Obsolete # {}
    /\ pc = "publish" => w.at \in Ingresses
    /\ pc \in {"children", "clean"} => CleanupLBs(w.a) # {}

(* The pools of a listener come before its rules: a rule is never created    *)
(* for a backend whose pool the pass does not have.                          *)
PoolsFirst ==
    /\ pc \in {"cert", "cert-unbind", "cert-delete", "pool"} => w.routes = Routes(w.members)
    /\ pc \in {"cert", "cert-unbind", "cert-delete"} => w.pools = Needed
    /\ pc = "pool" =>
          w.pools # {} /\ w.pools \subseteq Needed /\ \A b \in Needed \ w.pools : OurPools(b) # {}
    /\ pc = "rule" =>
          w.routes # {} /\ w.routes \subseteq Routes(w.members) /\ \A b \in Needed : OurPools(b) # {}

TypeInv == TypeOK /\ InHand /\ PoolsFirst


CMPTypeOK ==
    /\ lbs \in [LbIds -> LBRecord]
    /\ vips \in [VipIds -> LbIds \cup {NoId}]
    /\ vss \in [VsIds -> VSRecord]

(* The "nothing" values are of the right type.                               *)
LEMMA NullTypes ==
    /\ NoAnnotations \in Annotations /\ NoLB \in LBRecord /\ NoVS \in VSRecord
    /\ IdleWork \in Work /\ IdleWork.on = 0 /\ IdleWork.certs \subseteq IdleWork.tls
    /\ Absent \in Object
    /\ \A i \in Ingresses, g \in Groups : NewObject(i, g) \in Object
    /\ NoId \notin LbIds /\ NoId \notin VipIds /\ NoId \notin VsIds
<1>1. NoAnnotations \in Annotations
  BY DEF NoAnnotations, Annotations
<1>2. NoLB \in LBRecord /\ NoVS \in VSRecord
  BY DEF NoLB, NoVS, LBRecord, VSRecord, LBStatus
<1>3. IdleWork \in Work /\ IdleWork.on = 0 /\ IdleWork.certs \subseteq IdleWork.tls
  BY <1>1 DEF IdleWork, Work, Whys
<1>4. Absent \in Object /\ \A i \in Ingresses, g \in Groups : NewObject(i, g) \in Object
  <2>1. Absent \in Object
    BY IngressAssumption DEF Absent, Object
  <2>2. \A g \in Groups, b \in BOOLEAN :
           [Absent EXCEPT !.there = TRUE, !.group = g, !.tls = b] \in Object
    BY <2>1 DEF Object
  <2>3. \A i : (i \in TLS) \in BOOLEAN
    OBVIOUS
  <2> QED
    BY <2>1, <2>2, <2>3, Zenon DEF NewObject
<1>5. NoId \notin LbIds /\ NoId \notin VipIds /\ NoId \notin VsIds
  BY IngressAssumption
<1> QED
  BY <1>1, <1>2, <1>3, <1>4, <1>5

(* Nobody is named as the aliases are.                                       *)
LEMMA LegacyIsNobody == Legacy \notin Identities
<1> SUFFICES ASSUME NEW g \in Groups, NEW i \in Ingresses PROVE Legacy # Identity(g, i)
  BY DEF Identities
<1>1. i # 0
  BY IngressAssumption
<1> QED
  BY <1>1 DEF Legacy, Identity

(* An Ingress has an identity, in its own group and in any other.            *)
LEMMA IdentityType == \A g \in Groups, i \in Ingresses : Identity(g, i) \in Identities
BY DEF Identities

(* The first part of an identity is the group's name, and but for the        *)
(* ungrouped that is all there is to it.                                     *)
LEMMA IdentityParts ==
    ASSUME NEW k \in Identities
    PROVE  k[1] \in Groups /\ (k[1] # "" => \A i : k = Identity(k[1], i))
<1>1. PICK g \in Groups, j \in Ingresses : k = Identity(g, j)
  BY DEF Identities
<1>2. k[1] = g
  BY <1>1 DEF Identity
<1> QED
  BY <1>1, <1>2 DEF Identity

(* The parts of the type invariant a step changes.                           *)
LEMMA TypeFromParts ==
    ASSUME TypeOK, UNCHANGED cacheVars, CMPTypeOK',
           ing' \in [Ingresses -> Object], ann' \in [Ingresses -> Annotations],
           status' \in [Ingresses -> VipIds \cup {NoId}], queue' \subseteq Ingresses,
           pc' \in PCs, w' \in Work, w'.certs \subseteq w'.tls, pc' # "idle" => w'.on \in Ingresses,
           events' \in 0 .. MaxEvents, fault' \in FaultKinds \cup {"none"}
    PROVE  TypeOK'
BY DEF TypeOK, StateTypeOK, CMPTypeOK, CacheTypeOK, cacheVars

(* The number of changes and faults is bounded, and one fault is of a kind.  *)
LEMMA EventTypes ==
    ASSUME TypeOK
    PROVE  /\ NoEvent => events' \in 0 .. MaxEvents /\ fault' \in FaultKinds \cup {"none"}
           /\ Event => events' \in 0 .. MaxEvents
           /\ \A f \in FaultKinds :
                 Spend(f) => events' \in 0 .. MaxEvents /\ fault' \in FaultKinds \cup {"none"}
<1>1. MaxEvents \in Nat /\ events \in 0 .. MaxEvents /\ fault \in FaultKinds \cup {"none"}
  BY IngressAssumption DEF TypeOK, StateTypeOK
<1> QED
  BY <1>1 DEF NoEvent, Event, Spend

(* Steps that leave the CMP resources alone keep their types.                *)
LEMMA CMPUnchanged == TypeOK /\ UNCHANGED cmpVars => CMPTypeOK'
BY DEF TypeOK, StateTypeOK, CMPTypeOK, cmpVars

(* A step of the pass leaves the variables well typed.                       *)
LEMMA ContinueType ==
    ASSUME TypeOK, UNCHANGED cacheVars, NEW next \in PCs, NEW work \in Work, Continue(next, work),
           work.on \in Ingresses, work.certs \subseteq work.tls, CMPTypeOK'
    PROVE  TypeOK'
BY TypeFromParts DEF TypeOK, StateTypeOK, Continue

(* So does the end of a pass.                                                *)
LEMMA ReturnType ==
    ASSUME TypeOK, UNCHANGED cacheVars, pc # "idle", Return, CMPTypeOK',
           events' \in 0 .. MaxEvents, fault' \in FaultKinds \cup {"none"}
    PROVE  TypeOK'
BY TypeFromParts, NullTypes DEF TypeOK, StateTypeOK, Return, EndPass, PCs

(* Between two passes, and while the pass is not at work, there is nothing   *)
(* to say of what it has in hand.                                            *)
LEMMA IdleInv ==
    ASSUME pc' = "idle", w' = IdleWork
    PROVE  InHand' /\ PoolsFirst'
BY DEF InHand, PoolsFirst, IdleWork, Converging, AfterLB, ListenerCalls

(* Users and CMP do not touch the pass.                                      *)
LEMMA PassUntouched ==
    ASSUME TypeInv, UNCHANGED <<pc, w>>
    PROVE  InHand' /\ PoolsFirst'
BY DEF TypeInv, InHand, PoolsFirst, Needed, Obsolete, OurPools, Name, Proto

(* The initial states.                                                       *)
LEMMA InitType == Init => TypeInv
<1> SUFFICES ASSUME Init PROVE TypeInv
  OBVIOUS
<1>1. TypeOK
  BY NullTypes, IngressAssumption DEF Init, TypeOK, StateTypeOK, CacheTypeOK, PCs
<1>2. InHand /\ PoolsFirst
  BY DEF Init, InHand, PoolsFirst, IdleWork, Converging, AfterLB, ListenerCalls
<1> QED
  BY <1>1, <1>2 DEF TypeInv

-----------------------------------------------------------------------------
(* What a pass reads, behind or not, is of the type of what is there.        *)
LEMMA ReadTypes ==
    ASSUME TypeInv
    PROVE  IngRead \in [Ingresses -> Object] /\ AnnRead \in [Ingresses -> Annotations]
BY DEF TypeInv, TypeOK, StateTypeOK, CacheTypeOK, IngRead, AnnRead

(* The start of a pass, over members there are.                              *)
LEMMA StartType ==
    ASSUME TypeInv, UNCHANGED cacheVars, NEW i \in Ingresses, NEW why \in Whys,
           NEW next \in {"finalizer", "lb", "strip"}, NEW owner \in Identities,
           NEW members \in SUBSET Ingresses, next # "strip" => members # {},
           Start(i, why, next, owner, members)
    PROVE  TypeInv'
<1> DEFINE t == {j \in members : IngRead[j].tls}
           m == [j \in Ingresses |-> IF why = "ensure" /\ j \in members
                                     THEN IngRead[j].secret ELSE NoMaterial]
           b == [j \in Ingresses |-> IF j \in members THEN AnnRead[j] ELSE NoAnnotations]
           work == [IdleWork EXCEPT !.on = i, !.why = why, !.owner = owner, !.members = members,
                                    !.tls = t, !.material = m, !.base = b,
                                    !.a = AnnRead[i], !.left = members]
<1>1. t \in SUBSET Ingresses
  OBVIOUS
<1>2. m \in [Ingresses -> Versions \cup {NoMaterial}]
  BY ReadTypes DEF Object
<1>3. AnnRead[i] \in Annotations /\ b \in [Ingresses -> Annotations] /\ TypeOK
  BY ReadTypes, NullTypes DEF TypeInv
<1>4. w' = work /\ pc' = next /\ queue' = queue \ {i}
      /\ UNCHANGED <<ing, ann, status, events, fault, lbs, vips, vss>>
  BY Zenon DEF Start, Dequeue
<1> HIDE DEF t, m, b
<1>5. /\ work \in Work /\ work.on = i /\ work.certs = {} /\ work.todo = {}
      /\ work.members = members /\ work.owner = owner
  BY <1>1, <1>2, <1>3, NullTypes DEF Work, IdleWork
<1> HIDE DEF work
<1>6. TypeOK'
  <2>1. CMPTypeOK'
    BY <1>3, <1>4, CMPUnchanged DEF cmpVars
  <2> QED
    BY <1>3, <1>4, <1>5, <2>1, TypeFromParts DEF TypeOK, StateTypeOK, PCs
<1>7. InHand' /\ PoolsFirst'
  BY <1>4, <1>5 DEF InHand, PoolsFirst, Converging, AfterLB, ListenerCalls
<1> QED
  BY <1>6, <1>7 DEF TypeInv

(* The four ways to start one, and an Ingress that is gone.                  *)
LEMMA TakeType ==
    ASSUME TypeInv, NEW i \in Ingresses, Take(i)
    PROVE  TypeInv'
<1>1. TypeOK /\ IngRead[i].group \in Groups /\ AnnRead[i] \in Annotations
  BY ReadTypes DEF TypeInv, Object
<1>0. UNCHANGED cacheVars
  BY DEF Take
<1>2. Identity(IngRead[i].group, i) \in Identities
  BY <1>1, IdentityType
<1>3. \A g : LiveIn(IngRead, g) \subseteq Ingresses
  BY DEF LiveIn
<1>4. CASE Ignore(i)
  <2>1. TypeOK'
    BY <1>1, <1>4, <1>0 DEF Ignore, Dequeue, TypeOK, StateTypeOK, CacheTypeOK, cacheVars
  <2> QED
    BY <1>4, <2>1, PassUntouched DEF Ignore, TypeInv
<1>5. CASE BeginEnsure(i)
  <2>1. i \in GroupMembers(IngRead, i) /\ GroupMembers(IngRead, i) \subseteq Ingresses
    BY <1>3, <1>5 DEF BeginEnsure, GroupMembers, LiveIn
  <2>2. PICK next \in {"finalizer", "lb"} :
           Start(i, "ensure", next, Identity(IngRead[i].group, i), GroupMembers(IngRead, i))
    BY <1>5, Zenon DEF BeginEnsure
  <2> QED
    BY <1>2, <1>0, <2>1, <2>2, StartType DEF Whys
<1>6. CASE BeginLeave(i)
  <2>1. PICK g \in ObservedGroups(i) :
           /\ Left(i, g)
           /\ Start(i, "leave", IF LiveIn(IngRead, g) \ {i} = {} THEN "strip" ELSE "lb",
                    Identity(g, i), LiveIn(IngRead, g) \ {i})
    BY <1>6 DEF BeginLeave
  <2>2. PICK e \in AnnRead[i].lbs : e.key # Legacy /\ g = e.key[1]
    BY <2>1 DEF ObservedGroups, Left
  <2>3. e.key \in Identities
    BY <1>1, <2>2 DEF Annotations
  <2>4. g \in Groups
    BY <2>2, <2>3, IdentityParts
  <2>5. Identity(g, i) \in Identities
    BY <2>4, IdentityType
  <2>6. PICK next \in {"strip", "lb"} :
           /\ next # "strip" => LiveIn(IngRead, g) \ {i} # {}
           /\ Start(i, "leave", next, Identity(g, i), LiveIn(IngRead, g) \ {i})
    BY <2>1, Zenon
  <2> QED
    BY <1>3, <1>0, <2>5, <2>6, StartType DEF Whys
<1>7. CASE BeginDepart(i)
  <2>1. Remaining(i) \in SUBSET Ingresses
    BY <1>3 DEF Remaining
  <2> QED
    BY <1>2, <1>7, <1>0, <2>1, StartType DEF BeginDepart, Whys
<1>8. CASE BeginCleanup(i)
  <2> DEFINE s == \E j \in Ingresses : SharesLB(j, i, AnnRead[i].lb)
  <2>1. s \in BOOLEAN
    OBVIOUS
  <2>2. PICK b \in BOOLEAN :
           w' = [IdleWork EXCEPT !.on = i, !.why = "delete", !.a = AnnRead[i], !.shared = b]
    BY <1>8, <2>1, Zenon DEF BeginCleanup
  <2>3. AnnRead[i] \in Annotations
    BY <1>1
  <2>4. w' \in Work /\ w'.on = i /\ w'.certs = {} /\ w'.todo = {} /\ w'.a = AnnRead[i]
    BY <2>2, <2>3, NullTypes DEF Work, IdleWork, Whys
  <2>5. /\ pc' = IF CleanupLBs(AnnRead[i]) = {} THEN "unfinalize" ELSE "children"
        /\ queue' = queue \ {i} /\ UNCHANGED <<ing, ann, status, events, fault, lbs, vips, vss>>
    BY <1>8 DEF BeginCleanup, Dequeue
  <2>6. TypeOK'
    <3>1. CMPTypeOK'
      BY <1>1, <2>5, CMPUnchanged DEF cmpVars
    <3> QED
      BY <1>1, <1>0, <2>4, <2>5, <3>1, TypeFromParts DEF TypeOK, StateTypeOK, PCs
  <2>7. InHand' /\ PoolsFirst'
    <3>1. CleanupLBs(w'.a) = CleanupLBs(AnnRead[i])
      BY <2>4
    <3> QED
      BY <2>4, <2>5, <3>1 DEF InHand, PoolsFirst, Converging, AfterLB, ListenerCalls, CleanupLBs
  <2> QED
    BY <2>6, <2>7 DEF TypeInv
<1> QED
  BY <1>4, <1>5, <1>6, <1>7, <1>8 DEF Take

-----------------------------------------------------------------------------
(* What there is to know of the pass at every call.                          *)
LEMMA WorkParts ==
    ASSUME TypeInv
    PROVE  /\ w \in Work /\ w.a \in Annotations /\ w.certs \subseteq w.tls
           /\ w.members \subseteq Ingresses /\ w.tls \subseteq Ingresses /\ w.todo \subseteq Protocols
           /\ pc # "idle" => w.on \in Ingresses
           /\ TypeOK /\ CMPTypeOK
BY DEF TypeInv, TypeOK, StateTypeOK, CMPTypeOK, Work

(* The end of a pass.                                                        *)
LEMMA ReturnInv ==
    ASSUME TypeInv, UNCHANGED cacheVars, pc # "idle", Return, CMPTypeOK',
           events' \in 0 .. MaxEvents, fault' \in FaultKinds \cup {"none"}
    PROVE  TypeInv'
<1>1. TypeOK'
  BY ReturnType DEF TypeInv
<1> QED
  BY <1>1, IdleInv DEF TypeInv, Return, EndPass

(* Backends of the members: there are some, and so are routes.               *)
LEMMA NeededTypes ==
    ASSUME TypeInv
    PROVE  /\ Needed \subseteq UNION {Backends[i] : i \in Ingresses}
           /\ Routes(w.members) \subseteq Routes(Ingresses)
           /\ \A t \in Routes(w.members) :
                 t[1] \in w.members /\ t[2] \in Needed /\ t[2] \in Backends[t[1]]
           /\ w.members # {} => Needed # {} /\ Routes(w.members) # {}
<1>1. w.members \subseteq Ingresses
  BY WorkParts
<1>2. \A i \in Ingresses : Backends[i] # {}
  BY IngressAssumption
<1>3. \A i \in w.members : Backends[i] # {}
  BY <1>1, <1>2
<1>4. Needed \subseteq UNION {Backends[i] : i \in Ingresses}
  BY <1>1 DEF Needed
<1>5. Routes(w.members) \subseteq Routes(Ingresses)
  BY <1>1 DEF Routes
<1>6. ASSUME NEW t \in Routes(w.members)
      PROVE  t[1] \in w.members /\ t[2] \in Needed /\ t[2] \in Backends[t[1]]
  <2>1. PICK i \in w.members : t \in {i} \X Backends[i]
    BY DEF Routes
  <2>2. t[1] = i /\ t[2] \in Backends[i]
    BY <2>1
  <2> QED
    BY <2>1, <2>2 DEF Needed
<1>7. ASSUME w.members # {} PROVE Needed # {} /\ Routes(w.members) # {}
  <2>1. PICK i \in w.members : TRUE
    BY <1>7
  <2>2. PICK b \in Backends[i] : TRUE
    BY <2>1, <1>3
  <2>3. b \in Needed /\ <<i, b>> \in Routes(w.members)
    BY <2>1, <2>2 DEF Needed, Routes
  <2> QED
    BY <2>3
<1> QED
  BY <1>4, <1>5, <1>6, <1>7

(* The next listener has a name.                                             *)
LEMMA NameType ==
    ASSUME w.owner \in Identities
    PROVE  Name \in Names /\ Proto \in Protocols
BY DEF Name, Names, Proto, Protocols

(* Entering an LBService leaves the rest of what is recorded alone.          *)
LEMMA WithLBType ==
    ASSUME NEW a \in Annotations, NEW l \in LbIds, w.owner \in Identities
    PROVE  /\ WithLB(a, l) \in Annotations
           /\ WithLB(a, l).lb = l /\ WithLB(a, l).vs = a.vs /\ WithLB(a, l).pools = a.pools
<1>1. WithLegacy(a) \subseteq [key : Identities \cup {Legacy}, id : LbIds]
  <2>1. a.lb # NoId => [key |-> Legacy, id |-> a.lb] \in [key : Identities \cup {Legacy}, id : LbIds]
    BY DEF Annotations
  <2>2. a.lbs \subseteq [key : Identities \cup {Legacy}, id : LbIds]
    BY DEF Annotations
  <2> QED
    BY <2>1, <2>2 DEF WithLegacy
<1> DEFINE S == {e \in WithLegacy(a) : e.key # w.owner} \cup {[key |-> w.owner, id |-> l]}
<1>2. S \in SUBSET [key : Identities \cup {Legacy}, id : LbIds]
  BY <1>1
<1> HIDE DEF S
<1>3. WithLB(a, l) = [a EXCEPT !.lb = l, !.lbs = S]
  BY Zenon DEF WithLB, S
<1> QED
  BY <1>2, <1>3 DEF Annotations

(* Finalizer, LBService and VIP.                                             *)
LEMMA ParentType ==
    ASSUME TypeInv, UNCHANGED cacheVars, EnsureFinalizer \/ GetLB \/ CreateLB \/ KeepVIP \/ CreateVIP
    PROVE  TypeInv'
<1>1. /\ w \in Work /\ w.a \in Annotations /\ w.on \in Ingresses /\ w.certs \subseteq w.tls
      /\ w.members \subseteq Ingresses /\ w.members # {} /\ w.owner \in Identities /\ TypeOK /\ CMPTypeOK
      /\ w.todo \subseteq NeededBy(w.tls)
  BY WorkParts DEF TypeInv, InHand, EnsureFinalizer, GetLB, CreateLB, KeepVIP, CreateVIP, Converging, AfterLB
<1>2. CASE EnsureFinalizer
  <2>1. ing' \in [Ingresses -> Object] /\ queue' \subseteq Ingresses
    <3>1. ing[w.on] \in Object /\ ing \in [Ingresses -> Object] /\ queue \subseteq Ingresses
      BY <1>1 DEF TypeOK, StateTypeOK
    <3>2. [ing[w.on] EXCEPT !.fin = TRUE] \in Object
      BY <3>1 DEF Object
    <3>3. ing' = [ing EXCEPT ![w.on] = [ing[w.on] EXCEPT !.fin = TRUE]] /\ queue' = queue \cup {w.on}
      BY <1>2 DEF EnsureFinalizer
    <3> QED
      BY <1>1, <3>1, <3>2, <3>3
  <2>2. /\ w' \in Work /\ w'.on = w.on /\ w'.certs = w.certs /\ w'.tls = w.tls
        /\ w'.todo = w.todo /\ w'.members = w.members /\ w'.owner = w.owner
    BY <1>1, <1>2 DEF EnsureFinalizer, TypeOK, StateTypeOK, Work
  <2>3. CMPTypeOK'
    BY <1>1, <1>2, CMPUnchanged DEF EnsureFinalizer, cmpVars
  <2>4. TypeOK'
    BY <1>1, <1>2, <2>1, <2>2, <2>3, TypeFromParts DEF EnsureFinalizer, TypeOK, StateTypeOK, PCs
  <2>5. InHand' /\ PoolsFirst'
    BY <1>1, <1>2, <2>2 DEF EnsureFinalizer, InHand, PoolsFirst, Converging, AfterLB, ListenerCalls
  <2> QED
    BY <2>4, <2>5 DEF TypeInv
<1>3. ASSUME NEW l \in LbIds, Continue("vip", [w EXCEPT !.a = WithLB(@, l)]), CMPTypeOK'
      PROVE  TypeInv'
  <2> DEFINE work == [w EXCEPT !.a = WithLB(w.a, l)]
  <2>1. WithLB(w.a, l) \in Annotations /\ WithLB(w.a, l).lb = l
    BY <1>1, WithLBType
  <2>2. /\ work \in Work /\ work.on = w.on /\ work.a.lb = l /\ work.certs = w.certs
        /\ work.tls = w.tls /\ work.todo = w.todo /\ work.members = w.members /\ work.owner = w.owner
    BY <1>1, <2>1 DEF Work
  <2>3. Continue("vip", work)
    BY <1>3
  <2> HIDE DEF work
  <2>4. TypeOK'
    BY <1>1, <1>3, <2>2, <2>3, ContinueType DEF PCs
  <2>5. InHand' /\ PoolsFirst'
    BY <1>1, <2>2, <2>3 DEF Continue, InHand, PoolsFirst, Converging, AfterLB, ListenerCalls
  <2> QED
    BY <2>4, <2>5 DEF TypeInv
<1>4. CASE GetLB
  <2>1. UsableLBs \subseteq LbIds
    BY <1>1 DEF UsableLBs, LBVisible, Annotations
  <2>2. CMPTypeOK' /\ pc # "idle"
    BY <1>1, <1>4, CMPUnchanged DEF GetLB
  <2>3. PICK l \in UsableLBs :
           \/ Continue("vip", [w EXCEPT !.a = WithLB(@, l)])
           \/ Return /\ NoEvent
    BY <1>4 DEF GetLB
  <2> QED
    BY <1>1, <1>3, <2>1, <2>2, <2>3, ReturnInv, EventTypes
<1>5. CASE CreateLB
  <2>1. PICK l \in LbIds, st \in {"ready", "pending"} :
           /\ lbs' = [lbs EXCEPT ![l] = [NoLB EXCEPT !.st = st, !.name = w.owner]]
           /\ \/ Continue("vip", [w EXCEPT !.a = WithLB(@, l)])
              \/ Return /\ Spend("late-lb")
    BY <1>5 DEF CreateLB
  <2>2. [NoLB EXCEPT !.st = st, !.name = w.owner] \in LBRecord
    BY <1>1, NullTypes DEF LBRecord, LBStatus
  <2>3. CMPTypeOK' /\ pc # "idle"
    BY <1>1, <1>5, <2>1, <2>2 DEF CreateLB, CMPTypeOK
  <2> QED
    BY <1>1, <1>3, <2>1, <2>3, ReturnInv, EventTypes DEF FaultKinds
<1>6. ASSUME NEW v \in VipIds, pc = "vip", UseVIP(v), CMPTypeOK'
      PROVE  TypeInv'
  <2> DEFINE a == [w.a EXCEPT !.vip = v]
             work == [w EXCEPT !.a = a, !.todo = NeededBy(w.tls)]
  <2>1. a \in Annotations /\ a.lb = w.a.lb /\ a.vip = v
    BY <1>1 DEF Annotations
  <2>2. NeededBy(w.tls) \subseteq Protocols /\ NeededBy(w.tls) # {}
    BY DEF NeededBy, Protocols
  <2>3. Continue("listener", work)
    BY <1>1, <1>6 DEF UseVIP, Work
  <2> HIDE DEF a
  <2>4. /\ work \in Work /\ work.on = w.on /\ work.a = a /\ work.certs = w.certs
        /\ work.tls = w.tls /\ work.todo = NeededBy(w.tls)
        /\ work.members = w.members /\ work.owner = w.owner
    BY <1>1, <2>1, <2>2 DEF Work
  <2> HIDE DEF work
  <2>5. TypeOK'
    BY <1>1, <1>6, <2>4, <2>3, ContinueType DEF PCs
  <2>6. w.a.lb \in LbIds
    BY <1>6 DEF TypeInv, InHand, AfterLB
  <2>7. InHand' /\ PoolsFirst'
    BY <1>1, <2>1, <2>2, <2>3, <2>4, <2>6
    DEF Continue, InHand, PoolsFirst, Converging, AfterLB, ListenerCalls
  <2> QED
    BY <2>5, <2>7 DEF TypeInv
<1>7. CASE KeepVIP
  <2>1. w.a.vip \in VipIds
    BY <1>1, <1>7 DEF KeepVIP, HasVIP, Annotations
  <2> QED
    BY <1>1, <1>6, <1>7, <2>1, CMPUnchanged DEF KeepVIP
<1>8. CASE CreateVIP
  <2>1. PICK v \in VipIds : vips' = [vips EXCEPT ![v] = w.a.lb] /\ UseVIP(v)
    BY <1>8 DEF CreateVIP
  <2>2. CMPTypeOK'
    BY <1>1, <1>8, <2>1 DEF CreateVIP, CMPTypeOK, Annotations
  <2> QED
    BY <1>6, <1>8, <2>1, <2>2 DEF CreateVIP
<1> QED
  BY <1>2, <1>4, <1>5, <1>7, <1>8

(* A listener in hand: its routes, pools and certificates are to be done.    *)
LEMMA WithVSType ==
    ASSUME TypeInv, pc = "listener", NEW v \in VsIds
    PROVE  /\ WithVS(v) \in Work /\ WithVS(v).a \in Annotations
           /\ WithVS(v).on = w.on /\ WithVS(v).vs = v /\ WithVS(v).certs = w.tls
           /\ WithVS(v).tls = w.tls /\ WithVS(v).todo = w.todo
           /\ WithVS(v).members = w.members /\ WithVS(v).owner = w.owner
           /\ WithVS(v).routes = Routes(w.members) /\ WithVS(v).pools = Needed
           /\ WithVS(v).a = [w.a EXCEPT !.vs = {e \in @ : e.name # Name}
                                                 \cup {[name |-> Name, id |-> v]}]
<1>1. w \in Work /\ w.a \in Annotations /\ w.owner \in Identities
  BY WorkParts DEF TypeInv, InHand, Converging, AfterLB
<1> DEFINE S == {e \in w.a.vs : e.name # Name} \cup {[name |-> Name, id |-> v]}
           a == [w.a EXCEPT !.vs = S]
           work == [w EXCEPT !.vs = v, !.certs = w.tls, !.routes = Routes(w.members),
                             !.pools = Needed, !.a = a]
<1>2. S \in SUBSET [name : Names, id : VsIds]
  BY <1>1, NameType DEF Annotations
<1>3. WithVS(v) = work
  BY <1>1 DEF WithVS, Work, Needed
<1> HIDE DEF S
<1>4. a \in Annotations
  BY <1>1, <1>2 DEF Annotations
<1> HIDE DEF a
<1>5. w.tls \in SUBSET Ingresses /\ Needed \in SUBSET UNION {Backends[i] : i \in Ingresses}
      /\ Routes(w.members) \in SUBSET Routes(Ingresses)
  BY WorkParts, NeededTypes
<1>6. /\ work \in Work /\ work.on = w.on /\ work.vs = v /\ work.certs = w.tls
      /\ work.tls = w.tls /\ work.todo = w.todo
      /\ work.members = w.members /\ work.owner = w.owner
      /\ work.routes = Routes(w.members) /\ work.pools = Needed /\ work.a = a
  BY <1>1, <1>4, <1>5 DEF Work
<1> HIDE DEF work
<1>7. a = [w.a EXCEPT !.vs = {e \in @ : e.name # Name} \cup {[name |-> Name, id |-> v]}]
  BY DEF a, S
<1> QED
  BY <1>3, <1>4, <1>6, <1>7

(* VirtualServerManager.Ensure.                                              *)
LEMMA ListenerType ==
    ASSUME TypeInv, UNCHANGED cacheVars, KeepListener \/ RefuseListener \/ CreateListener
    PROVE  TypeInv'
<1>1. /\ w \in Work /\ w.a \in Annotations /\ w.on \in Ingresses /\ pc = "listener"
      /\ w.members # {} /\ w.owner \in Identities /\ TypeOK /\ CMPTypeOK
      /\ w.todo \subseteq NeededBy(w.tls) /\ w.todo # {} /\ w.a.lb \in LbIds /\ w.a.vip \in VipIds
  BY WorkParts DEF TypeInv, InHand, KeepListener, RefuseListener, CreateListener, Converging, AfterLB
<1>2. ASSUME NEW v \in VsIds, Continue(AfterListener, WithVS(v)), CMPTypeOK'
      PROVE  TypeInv'
  <2> DEFINE work == WithVS(v)
  <2>1. /\ work \in Work /\ work.on = w.on /\ work.vs = v /\ work.certs = w.tls
        /\ work.tls = w.tls /\ work.todo = w.todo /\ work.members = w.members
        /\ work.owner = w.owner /\ work.routes = Routes(w.members) /\ work.pools = Needed
        /\ work.a.lb = w.a.lb /\ work.a.vip = w.a.vip
    BY <1>1, WithVSType DEF Annotations
  <2> HIDE DEF work
  <2>2. pc' = AfterListener /\ w' = work /\ Continue(AfterListener, work)
    BY <1>2 DEF Continue, work
  <2>3. AfterListener \in {"cert", "pool"} /\ (AfterListener = "cert" => w.tls # {})
    BY <1>1 DEF AfterListener, Proto, NeededBy
  <2>4. TypeOK'
    BY <1>1, <1>2, <2>1, <2>2, <2>3, ContinueType DEF PCs
  <2>5. Needed' = Needed
    BY <2>1, <2>2 DEF Needed
  <2>6. Needed # {}
    BY <1>1, NeededTypes
  <2>7. InHand'
    BY <1>1, <2>1, <2>2, <2>3 DEF InHand, Converging, AfterLB, ListenerCalls
  <2>8. PoolsFirst'
    BY <2>1, <2>2, <2>3, <2>5, <2>6 DEF PoolsFirst
  <2> QED
    BY <2>4, <2>7, <2>8 DEF TypeInv
<1>3. CASE KeepListener
  <2>1. Found \subseteq VsIds
    BY <1>1 DEF Found, Current, RecordedAs, Annotations
  <2>2. CMPTypeOK'
    BY <1>1, <1>3, CMPUnchanged DEF KeepListener
  <2> QED
    BY <1>2, <1>3, <2>1, <2>2 DEF KeepListener
<1>4. CASE RefuseListener
  <2>1. \A v \in VsIds : [vss[v] EXCEPT !.st = "deleting"] \in VSRecord
    BY <1>1 DEF CMPTypeOK, VSRecord, LBStatus
  <2>2. CMPTypeOK'
    BY <1>1, <1>4, <2>1 DEF RefuseListener, CMPTypeOK
  <2> QED
    BY <1>1, <1>4, <2>2, ReturnInv, EventTypes DEF RefuseListener, NoEvent
<1>5. CASE CreateListener
  <2>1. PICK v \in VsIds, st \in {"ready", "pending"} :
           /\ vss' = [vss EXCEPT ![v] = [NoVS EXCEPT !.st = st, !.lb = w.a.lb, !.vip = w.a.vip,
                                                     !.name = Name]]
           /\ \/ Continue(AfterListener, WithVS(v))
              \/ Return /\ Spend("late-listener")
    BY <1>5 DEF CreateListener
  <2>2. Name \in Names
    BY <1>1, NameType
  <2>3. [NoVS EXCEPT !.st = st, !.lb = w.a.lb, !.vip = w.a.vip, !.name = Name] \in VSRecord
    BY <1>1, <2>2, NullTypes DEF VSRecord, LBStatus
  <2>4. CMPTypeOK'
    BY <1>1, <1>5, <2>1, <2>3 DEF CreateListener, CMPTypeOK
  <2> QED
    BY <1>1, <1>2, <2>1, <2>4, ReturnInv, EventTypes DEF FaultKinds
<1> QED
  BY <1>3, <1>4, <1>5

(* CertificateManager.Ensure.                                                *)
LEMMA CertificateType ==
    ASSUME TypeInv, UNCHANGED cacheVars,
           UploadCertificate \/ BindCertificate \/ UnbindCertificate \/ DeleteCertificate
    PROVE  TypeInv'
<1>1. /\ w \in Work /\ w.a \in Annotations /\ w.on \in Ingresses
      /\ pc \in {"cert", "cert-unbind", "cert-delete"}
      /\ w.members # {} /\ w.owner \in Identities /\ TypeOK /\ CMPTypeOK
      /\ w.todo \subseteq NeededBy(w.tls) /\ w.todo # {} /\ w.a.lb \in LbIds /\ w.a.vip \in VipIds
      /\ w.vs \in VsIds /\ w.pools = Needed /\ w.routes = Routes(w.members)
      /\ w.certs \subseteq w.tls /\ w.tls \subseteq Ingresses /\ Needed # {}
  BY WorkParts, NeededTypes
  DEF TypeInv, InHand, PoolsFirst, UploadCertificate, BindCertificate, UnbindCertificate,
      DeleteCertificate, Converging, AfterLB, ListenerCalls
<1>2. \A x \in CertIds \cup UNION {{c.id : c \in lbs[l].certs} : l \in LbIds} :
         Bind(x) /\ UNCHANGED vips => vss' \in [VsIds -> VSRecord]
  <2>1. \A x \in CertIds : [vss[w.vs] EXCEPT !.bound = @ \cup {x}] \in VSRecord
    BY <1>1 DEF CMPTypeOK, VSRecord
  <2>2. \A l \in LbIds : \A c \in lbs[l].certs : c.id \in CertIds
    BY <1>1 DEF CMPTypeOK, LBRecord, Certificate
  <2> QED
    BY <1>1, <2>1, <2>2 DEF Bind, CMPTypeOK
<1>3. ASSUME NEW certs \in SUBSET [name : Ingresses, id : CertIds], NEW rest \in SUBSET w.certs,
             NEW next \in {"cert", "cert-unbind", "cert-delete", "pool"},
             Continue(next, [w EXCEPT !.certs = rest, !.a.certs = certs]), CMPTypeOK',
             next = "cert" => rest # {},
             next \in {"cert-unbind", "cert-delete"} => \E e \in certs : e.name \notin w.tls
      PROVE  TypeInv'
  <2> DEFINE a == [w.a EXCEPT !.certs = certs]
             work == [w EXCEPT !.certs = rest, !.a = a]
  <2>1. a \in Annotations /\ a.lb = w.a.lb /\ a.vip = w.a.vip /\ a.certs = certs
    BY <1>1 DEF Annotations
  <2>2. Continue(next, work)
    BY <1>1, <1>3 DEF Work
  <2> HIDE DEF a
  <2>3. /\ work \in Work /\ work.on = w.on /\ work.vs = w.vs /\ work.certs = rest
        /\ work.tls = w.tls /\ work.todo = w.todo /\ work.members = w.members
        /\ work.owner = w.owner /\ work.routes = w.routes /\ work.pools = w.pools
        /\ work.a = a
    <3>1. rest \in SUBSET Ingresses
      BY <1>1
    <3> QED
      BY <1>1, <2>1, <3>1 DEF Work
  <2> HIDE DEF work
  <2>4. TypeOK'
    BY <1>1, <1>3, <2>2, <2>3, ContinueType DEF PCs
  <2>5. pc' = next /\ w' = work
    BY <2>2 DEF Continue
  <2>6. Needed' = Needed
    BY <2>3, <2>5 DEF Needed
  <2>7. InHand'
    BY <1>1, <1>3, <2>1, <2>3, <2>5 DEF InHand, Converging, AfterLB, ListenerCalls, Obsolete
  <2>8. PoolsFirst'
    BY <1>1, <1>3, <2>3, <2>5, <2>6 DEF PoolsFirst
  <2> QED
    BY <2>4, <2>7, <2>8 DEF TypeInv
<1>4. w.a.certs \in SUBSET [name : Ingresses, id : CertIds]
  BY <1>1 DEF Annotations
<1>5. w = [w EXCEPT !.certs = w.certs, !.a.certs = w.a.certs]
  BY <1>1 DEF Work, Annotations
<1>6. ASSUME pc = "cert", NEW c \in CertIds
      PROVE  /\ CertNow \in w.certs
             /\ Entered(c) \in SUBSET [name : Ingresses, id : CertIds]
             /\ \A e \in Obsolete : e \in Entered(c) /\ e.name \notin w.tls
  <2>1. w.certs # {}
    BY <1>6 DEF TypeInv, InHand
  <2>2. CertNow \in w.certs
    BY <2>1 DEF CertNow
  <2> QED
    BY <1>1, <1>4, <2>2 DEF Entered, Obsolete
<1>7. CASE UploadCertificate
  <2>1. PICK c \in CertIds :
           /\ lbs' = [lbs EXCEPT ![w.a.lb].certs = @ \cup
                        {[name |-> CertNow, version |-> w.material[CertNow], id |-> c]}]
           /\ Continue("cert", [w EXCEPT !.a.certs = Entered(c)])
           /\ pc = "cert" /\ UNCHANGED <<vips, vss>>
    BY <1>7 DEF UploadCertificate
  <2>2. CertNow \in w.certs /\ Entered(c) \in SUBSET [name : Ingresses, id : CertIds]
    BY <1>6, <2>1
  <2>3. [name |-> CertNow, version |-> w.material[CertNow], id |-> c] \in Certificate
    BY <1>1, <2>2 DEF Certificate, Work
  <2>4. CMPTypeOK'
    <3>1. lbs[w.a.lb] \in LBRecord
      BY <1>1 DEF CMPTypeOK
    <3>2. \A x \in Certificate : [lbs[w.a.lb] EXCEPT !.certs = @ \cup {x}] \in LBRecord
      BY <3>1 DEF LBRecord
    <3>3. lbs' \in [LbIds -> LBRecord]
      BY <1>1, <2>1, <2>3, <3>2 DEF CMPTypeOK
    <3> QED
      BY <1>1, <2>1, <3>3 DEF CMPTypeOK
  <2>5. [w EXCEPT !.a.certs = Entered(c)] = [w EXCEPT !.certs = w.certs, !.a.certs = Entered(c)]
    BY <1>1 DEF Work
  <2> QED
    BY <1>3, <2>1, <2>2, <2>4, <2>5
<1>8. CASE BindCertificate
  <2>1. PICK c \in Reusable(CertNow) :
           /\ Bind(c.id)
           /\ Continue(IF w.certs # {CertNow} THEN "cert" ELSE AfterCertificates(Obsolete),
                       [w EXCEPT !.certs = @ \ {CertNow}, !.a.certs = Entered(c.id)])
           /\ pc = "cert" /\ UNCHANGED <<lbs, vips>>
    BY <1>8 DEF BindCertificate
  <2>2. c.id \in CertIds
    BY <1>1 DEF Reusable, CMPTypeOK, LBRecord, Certificate
  <2>3. CMPTypeOK'
    BY <1>1, <1>2, <2>1, <2>2 DEF CMPTypeOK
  <2> DEFINE next == IF w.certs # {CertNow} THEN "cert" ELSE AfterCertificates(Obsolete)
             rest == w.certs \ {CertNow}
  <2>4. /\ next \in {"cert", "cert-unbind", "cert-delete", "pool"}
        /\ next = "cert" => rest # {}
        /\ next \in {"cert-unbind", "cert-delete"} => Obsolete # {}
    <3>1. CertNow \in w.certs
      BY <1>6, <2>1, <2>2
    <3> QED
      BY <3>1 DEF AfterCertificates
  <2>5. Continue(next, [w EXCEPT !.certs = rest, !.a.certs = Entered(c.id)])
    BY <1>1, <2>1 DEF Work
  <2>6. rest \in SUBSET w.certs
    OBVIOUS
  <2>7. Entered(c.id) \in SUBSET [name : Ingresses, id : CertIds]
    BY <1>6, <2>1, <2>2
  <2>8. next \in {"cert-unbind", "cert-delete"} => \E e \in Entered(c.id) : e.name \notin w.tls
    BY <1>6, <2>1, <2>2, <2>4
  <2> HIDE DEF next, rest
  <2> QED
    BY <1>3, <2>3, <2>4, <2>5, <2>6, <2>7, <2>8
<1>9. CASE UnbindCertificate
  <2>1. Obsolete # {}
    BY <1>9 DEF UnbindCertificate, TypeInv, InHand
  <2>2. CertGone \in Obsolete
    BY <2>1 DEF CertGone
  <2>3. CertGone.id \in CertIds
    BY <1>4, <2>2 DEF Obsolete
  <2>4. CMPTypeOK'
    BY <1>1, <1>2, <1>9, <2>3 DEF UnbindCertificate, CMPTypeOK
  <2>5. Continue("cert-delete", [w EXCEPT !.certs = w.certs, !.a.certs = w.a.certs])
    BY <1>5, <1>9 DEF UnbindCertificate
  <2>6. \E e \in w.a.certs : e.name \notin w.tls
    BY <2>2 DEF Obsolete
  <2> QED
    BY <1>3, <1>4, <2>4, <2>5, <2>6
<1>10. CASE DeleteCertificate
  <2> DEFINE next == AfterCertificates(Obsolete \ {CertGone})
             certs == w.a.certs \ {CertGone}
  <2>1. next \in {"cert-unbind", "pool"} /\ (next = "cert-unbind" => Obsolete \ {CertGone} # {})
    BY DEF AfterCertificates
  <2>2. next = "cert-unbind" => \E e \in certs : e.name \notin w.tls
    BY <2>1 DEF Obsolete
  <2>3. Continue(next, [w EXCEPT !.certs = w.certs, !.a.certs = certs])
    BY <1>1, <1>10 DEF DeleteCertificate, Work
  <2>4. CMPTypeOK'
    <3>1. \A l \in LbIds : \A S \in SUBSET lbs[l].certs : [lbs[l] EXCEPT !.certs = S] \in LBRecord
      BY <1>1 DEF CMPTypeOK, LBRecord
    <3>2. \A v \in VsIds : \A x : [vss[v] EXCEPT !.bound = @ \ {x}] \in VSRecord
      BY <1>1 DEF CMPTypeOK, VSRecord
    <3>3. lbs' \in [LbIds -> LBRecord]
      BY <1>1, <1>10, <3>1 DEF DeleteCertificate, CMPTypeOK
    <3>4. vss' \in [VsIds -> VSRecord]
      BY <1>1, <1>10, <3>2 DEF DeleteCertificate, CMPTypeOK
    <3> QED
      BY <1>1, <1>10, <3>3, <3>4 DEF DeleteCertificate, CMPTypeOK
  <2>5. certs \in SUBSET [name : Ingresses, id : CertIds]
    BY <1>4
  <2> HIDE DEF next, certs
  <2>6. next \in {"cert", "cert-unbind", "cert-delete", "pool"} /\ next # "cert"
    BY <2>1
  <2>7. next \in {"cert-unbind", "cert-delete"} => \E e \in certs : e.name \notin w.tls
    BY <2>1, <2>2
  <2>8. w.certs \in SUBSET w.certs
    OBVIOUS
  <2> QED
    BY <1>3, <2>3, <2>4, <2>5, <2>6, <2>7, <2>8
<1> QED
  BY <1>7, <1>8, <1>9, <1>10

(* Pools and rules: what is in hand, and that a pool or route is chosen.     *)
LEMMA ChildParts ==
    ASSUME TypeInv, pc \in {"pool", "rule", "drop-rules"}
    PROVE  /\ w \in Work /\ w.a \in Annotations /\ w.on \in Ingresses /\ w.certs \subseteq w.tls
           /\ w.members # {} /\ w.owner \in Identities /\ TypeOK /\ CMPTypeOK
           /\ w.todo \subseteq NeededBy(w.tls) /\ w.todo # {} /\ w.a.lb \in LbIds
           /\ w.a.vip \in VipIds /\ w.vs \in VsIds /\ vss[w.vs] \in VSRecord /\ Name \in Names
           /\ pc = "pool" => PoolNow \in w.pools /\ w.pools \subseteq Needed
           /\ pc = "rule" => /\ RouteNow \in w.routes /\ RouteNow[1] \in Ingresses
                             /\ PoolOf(RouteNow[2]) \in ChildIds
                             /\ PoolOf(RouteNow[2]) \in OurPools(RouteNow[2])
<1>1. /\ w \in Work /\ w.a \in Annotations /\ w.on \in Ingresses /\ w.certs \subseteq w.tls
      /\ w.members # {} /\ w.owner \in Identities /\ TypeOK /\ CMPTypeOK
      /\ w.todo \subseteq NeededBy(w.tls) /\ w.todo # {} /\ w.a.lb \in LbIds
      /\ w.a.vip \in VipIds /\ w.vs \in VsIds /\ w.members \subseteq Ingresses
  BY WorkParts DEF TypeInv, InHand, Converging, AfterLB, ListenerCalls
<1>2. vss[w.vs] \in VSRecord /\ Name \in Names
  BY <1>1, NameType DEF CMPTypeOK
<1>3. ASSUME pc = "pool" PROVE PoolNow \in w.pools /\ w.pools \subseteq Needed
  BY <1>3 DEF TypeInv, PoolsFirst, PoolNow
<1>4. ASSUME pc = "rule"
      PROVE  /\ RouteNow \in w.routes /\ RouteNow[1] \in Ingresses
             /\ PoolOf(RouteNow[2]) \in ChildIds /\ PoolOf(RouteNow[2]) \in OurPools(RouteNow[2])
  <2>1. w.routes # {} /\ w.routes \subseteq Routes(w.members) /\ \A b \in Needed : OurPools(b) # {}
    BY <1>4 DEF TypeInv, PoolsFirst
  <2>2. RouteNow \in w.routes
    BY <2>1 DEF RouteNow
  <2>3. RouteNow[1] \in w.members /\ RouteNow[2] \in Needed
    BY <2>1, <2>2, NeededTypes
  <2>4. PoolOf(RouteNow[2]) \in OurPools(RouteNow[2])
    BY <2>1, <2>3 DEF PoolOf
  <2>5. \A b : OurPools(b) \subseteq ChildIds
    BY <1>1 DEF OurPools, Annotations
  <2> QED
    BY <1>1, <2>2, <2>3, <2>4, <2>5
<1> QED
  BY <1>1, <1>2, <1>3, <1>4

(* The listener in hand keeps its type when pools and rules come and go.     *)
LEMMA ChildCMPType ==
    ASSUME CMPTypeOK, NEW v \in VsIds, NEW x, UNCHANGED <<lbs, vips>>,
           vss' = [vss EXCEPT ![v] = x], x \in VSRecord
    PROVE  CMPTypeOK'
BY DEF CMPTypeOK

(* PoolManager.EnsureOwned.                                                  *)
LEMMA PoolType ==
    ASSUME TypeInv, UNCHANGED cacheVars, KeepPool \/ CreatePool
    PROVE  TypeInv'
<1>1. /\ w \in Work /\ w.a \in Annotations /\ w.on \in Ingresses /\ w.certs \subseteq w.tls
      /\ w.members # {} /\ w.owner \in Identities /\ TypeOK /\ CMPTypeOK
      /\ w.todo \subseteq NeededBy(w.tls) /\ w.todo # {} /\ w.a.lb \in LbIds /\ pc = "pool"
      /\ w.a.vip \in VipIds /\ w.vs \in VsIds /\ vss[w.vs] \in VSRecord /\ Name \in Names
      /\ PoolNow \in w.pools /\ w.pools \subseteq Needed
  BY ChildParts DEF KeepPool, CreatePool
<1>2. Needed \subseteq UNION {Backends[i] : i \in Ingresses} /\ Routes(w.members) # {}
  BY <1>1, NeededTypes
<1>3. ASSUME NEW pools \in SUBSET [vs : Names, pool : Nat, id : ChildIds],
             NextPool([w.a EXCEPT !.pools = pools]), CMPTypeOK',
             \A b \in Needed \ (w.pools \ {PoolNow}) : \E e \in pools : e.vs = Name /\ e.pool = b
      PROVE  TypeInv'
  <2> DEFINE a == [w.a EXCEPT !.pools = pools]
             rest == w.pools \ {PoolNow}
             next == IF w.pools = {PoolNow} THEN "rule" ELSE "pool"
             work == [w EXCEPT !.pools = rest, !.a = a]
  <2>1. a \in Annotations /\ a.lb = w.a.lb /\ a.vip = w.a.vip /\ a.pools = pools
    BY <1>1, <1>3 DEF Annotations
  <2>2. Continue(next, work)
    BY <1>3 DEF NextPool
  <2>3. next \in {"pool", "rule"} /\ (next = "pool" => rest # {})
    BY <1>1
  <2>4. rest \in SUBSET UNION {Backends[i] : i \in Ingresses} /\ rest \subseteq Needed
    BY <1>1, <1>2
  <2> HIDE DEF a, next
  <2>5. /\ work \in Work /\ work.on = w.on /\ work.vs = w.vs /\ work.certs = w.certs
        /\ work.tls = w.tls /\ work.todo = w.todo /\ work.members = w.members
        /\ work.owner = w.owner /\ work.routes = w.routes /\ work.pools = rest /\ work.a = a
    <3> HIDE DEF rest
    <3> QED
      BY <1>1, <2>1, <2>4 DEF Work
  <2> HIDE DEF work
  <2>6. TypeOK'
    BY <1>1, <1>3, <2>2, <2>3, <2>5, ContinueType DEF PCs
  <2>7. pc' = next /\ w' = work
    BY <2>2 DEF Continue
  <2>8. Needed' = Needed /\ Name' = Name
    BY <2>5, <2>7 DEF Needed, Name, Proto
  <2>9. InHand'
    BY <1>1, <2>1, <2>3, <2>5, <2>7 DEF InHand, Converging, AfterLB, ListenerCalls
  <2>10. \A b \in Needed \ rest : OurPools(b)' # {}
    <3>1. \A b : OurPools(b)' = {e.id : e \in {e \in pools : e.vs = Name /\ e.pool = b}}
      BY <2>1, <2>5, <2>7, <2>8 DEF OurPools
    <3> QED
      BY <1>3, <3>1
  <2>11. w.routes = Routes(w.members)
    BY <1>1 DEF TypeInv, PoolsFirst
  <2>12. PoolsFirst'
    <3>1. next = "rule" => rest = {}
      BY DEF next
    <3> QED
      BY <1>2, <2>3, <2>4, <2>5, <2>7, <2>8, <2>10, <2>11, <3>1 DEF PoolsFirst
  <2> QED
    BY <2>6, <2>9, <2>12 DEF TypeInv
<1>4. \A b \in Needed \ w.pools : \E e \in w.a.pools : e.vs = Name /\ e.pool = b
  <2>1. \A b \in Needed \ w.pools : OurPools(b) # {}
    BY <1>1 DEF TypeInv, PoolsFirst
  <2> QED
    BY <2>1 DEF OurPools
<1>5. w.a.pools \in SUBSET [vs : Names, pool : Nat, id : ChildIds]
  BY <1>1 DEF Annotations
<1>6. CASE KeepPool
  <2>1. \E e \in w.a.pools : e.vs = Name /\ e.pool = PoolNow
    BY <1>6 DEF KeepPool, HasPool, OurPools
  <2>2. w.a = [w.a EXCEPT !.pools = w.a.pools]
    BY <1>1 DEF Annotations
  <2>3. NextPool([w.a EXCEPT !.pools = w.a.pools])
    BY <1>6, <2>2 DEF KeepPool
  <2>4. CMPTypeOK'
    BY <1>1, <1>6, CMPUnchanged DEF KeepPool
  <2> QED
    BY <1>3, <1>4, <1>5, <2>1, <2>3, <2>4
<1>7. CASE CreatePool
  <2>1. PICK c \in ChildIds :
           /\ vss' = [vss EXCEPT ![w.vs].pools = @ \cup {[name |-> PoolNow, id |-> c]}]
           /\ NextPool([w.a EXCEPT !.pools = {e \in @ : e.vs # Name \/ e.pool # PoolNow}
                                               \cup {[vs |-> Name, pool |-> PoolNow, id |-> c]}])
           /\ UNCHANGED <<lbs, vips>>
    BY <1>7 DEF CreatePool
  <2>2. PoolNow \in Nat
    BY <1>1, <1>2, IngressAssumption
  <2> DEFINE pools == {e \in w.a.pools : e.vs # Name \/ e.pool # PoolNow}
                         \cup {[vs |-> Name, pool |-> PoolNow, id |-> c]}
  <2>3. pools \in SUBSET [vs : Names, pool : Nat, id : ChildIds]
    BY <1>1, <1>5, <2>2
  <2>4. [vss[w.vs] EXCEPT !.pools = @ \cup {[name |-> PoolNow, id |-> c]}] \in VSRecord
    <3>1. [name |-> PoolNow, id |-> c] \in Pool
      BY <2>2 DEF Pool
    <3> QED
      BY <1>1, <3>1 DEF VSRecord
  <2>5. CMPTypeOK'
    BY <1>1, <2>1, <2>4 DEF CMPTypeOK
  <2>6. \A b \in Needed \ (w.pools \ {PoolNow}) : \E e \in pools : e.vs = Name /\ e.pool = b
    <3> SUFFICES ASSUME NEW b \in Needed \ (w.pools \ {PoolNow})
                 PROVE  \E e \in pools : e.vs = Name /\ e.pool = b
      OBVIOUS
    <3>1. CASE b = PoolNow
      <4> DEFINE e == [vs |-> Name, pool |-> PoolNow, id |-> c]
      <4>1. e \in pools /\ e.vs = Name /\ e.pool = PoolNow
        OBVIOUS
      <4> QED
        BY <3>1, <4>1
    <3>2. CASE b # PoolNow
      <4>1. PICK e \in w.a.pools : e.vs = Name /\ e.pool = b
        BY <1>4, <3>2
      <4> QED
        BY <3>2, <4>1
    <3> QED
      BY <3>1, <3>2
  <2>7. NextPool([w.a EXCEPT !.pools = pools])
    BY <2>1
  <2> HIDE DEF pools
  <2> QED
    BY <1>3, <2>3, <2>5, <2>6, <2>7
<1> QED
  BY <1>6, <1>7

(* RoutingRuleManager.EnsureOwned.                                           *)
LEMMA RuleType ==
    ASSUME TypeInv, UNCHANGED cacheVars, KeepRule \/ CreateRule
    PROVE  TypeInv'
<1>1. /\ w \in Work /\ w.a \in Annotations /\ w.on \in Ingresses /\ w.certs \subseteq w.tls
      /\ w.members # {} /\ w.owner \in Identities /\ TypeOK /\ CMPTypeOK
      /\ w.todo \subseteq NeededBy(w.tls) /\ w.todo # {} /\ w.a.lb \in LbIds /\ pc = "rule"
      /\ w.a.vip \in VipIds /\ w.vs \in VsIds /\ vss[w.vs] \in VSRecord /\ Name \in Names
      /\ RouteNow \in w.routes /\ RouteNow[1] \in Ingresses /\ PoolOf(RouteNow[2]) \in ChildIds
  BY ChildParts DEF KeepRule, CreateRule
<1>2. w.routes \subseteq Routes(w.members) /\ \A b \in Needed : OurPools(b) # {}
  BY <1>1 DEF TypeInv, PoolsFirst
<1>3. ASSUME NEW rules \in SUBSET [vs : Names, id : ChildIds],
             NextRule([w.a EXCEPT !.rules = rules]), CMPTypeOK'
      PROVE  TypeInv'
  <2> DEFINE a == [w.a EXCEPT !.rules = rules]
             rest == w.routes \ {RouteNow}
             next == IF w.routes = {RouteNow} THEN "drop-rules" ELSE "rule"
             work == [w EXCEPT !.routes = rest, !.a = a]
  <2>1. a \in Annotations /\ a.lb = w.a.lb /\ a.vip = w.a.vip /\ a.pools = w.a.pools
    BY <1>1, <1>3 DEF Annotations
  <2>2. Continue(next, work)
    BY <1>3 DEF NextRule
  <2>3. next \in {"drop-rules", "rule"} /\ (next = "rule" => rest # {})
    BY <1>1
  <2>4. rest \in SUBSET Routes(Ingresses) /\ rest \subseteq Routes(w.members)
    BY <1>1, <1>2, NeededTypes
  <2> HIDE DEF a, next
  <2>5. /\ work \in Work /\ work.on = w.on /\ work.vs = w.vs /\ work.certs = w.certs
        /\ work.tls = w.tls /\ work.todo = w.todo /\ work.members = w.members
        /\ work.owner = w.owner /\ work.routes = rest /\ work.pools = w.pools /\ work.a = a
    <3> HIDE DEF rest
    <3> QED
      BY <1>1, <2>1, <2>4 DEF Work
  <2> HIDE DEF work
  <2>6. TypeOK'
    BY <1>1, <1>3, <2>2, <2>3, <2>5, ContinueType DEF PCs
  <2>7. pc' = next /\ w' = work
    BY <2>2 DEF Continue
  <2>8. Needed' = Needed /\ Name' = Name
    BY <2>5, <2>7 DEF Needed, Name, Proto
  <2>9. InHand'
    BY <1>1, <2>1, <2>3, <2>5, <2>7 DEF InHand, Converging, AfterLB, ListenerCalls
  <2>10. \A b : OurPools(b)' = OurPools(b)
    BY <2>1, <2>5, <2>7, <2>8 DEF OurPools
  <2>11. PoolsFirst'
    BY <1>2, <2>3, <2>4, <2>5, <2>7, <2>8, <2>10 DEF PoolsFirst
  <2> QED
    BY <2>6, <2>9, <2>11 DEF TypeInv
<1>4. w.a.rules \in SUBSET [vs : Names, id : ChildIds]
  BY <1>1 DEF Annotations
<1>5. CASE KeepRule
  <2>1. w.a = [w.a EXCEPT !.rules = w.a.rules]
    BY <1>1 DEF Annotations
  <2>2. NextRule([w.a EXCEPT !.rules = w.a.rules]) /\ CMPTypeOK'
    BY <1>1, <1>5, <2>1, CMPUnchanged DEF KeepRule
  <2> QED
    BY <1>3, <1>4, <2>2
<1>6. CASE CreateRule
  <2>1. PICK c \in ChildIds :
           /\ vss' = [vss EXCEPT ![w.vs].rules =
                         @ \cup {[host |-> RouteNow[1], pool |-> PoolOf(RouteNow[2]), id |-> c]}]
           /\ NextRule([w.a EXCEPT !.rules = @ \cup {[vs |-> Name, id |-> c]}])
           /\ UNCHANGED <<lbs, vips>>
    BY <1>6 DEF CreateRule
  <2> DEFINE rules == w.a.rules \cup {[vs |-> Name, id |-> c]}
  <2>2. rules \in SUBSET [vs : Names, id : ChildIds]
    BY <1>1, <1>4
  <2>3. CMPTypeOK'
    <3>1. [host |-> RouteNow[1], pool |-> PoolOf(RouteNow[2]), id |-> c] \in Rule
      BY <1>1 DEF Rule
    <3>2. \A r \in Rule : [vss[w.vs] EXCEPT !.rules = @ \cup {r}] \in VSRecord
      BY <1>1 DEF VSRecord
    <3> QED
      BY <1>1, <2>1, <3>1, <3>2 DEF CMPTypeOK
  <2>4. NextRule([w.a EXCEPT !.rules = rules])
    BY <2>1
  <2> HIDE DEF rules
  <2> QED
    BY <1>3, <2>2, <2>3, <2>4
<1> QED
  BY <1>5, <1>6

(* What is recorded and no longer wanted.                                    *)
LEMMA ObsoleteType ==
    ASSUME TypeInv, UNCHANGED cacheVars, DropRules \/ DeleteObsoletePools \/ DeleteObsoleteListeners
    PROVE  TypeInv'
<1>1. /\ w \in Work /\ w.a \in Annotations /\ w.on \in Ingresses /\ w.certs \subseteq w.tls
      /\ w.members # {} /\ w.owner \in Identities /\ TypeOK /\ CMPTypeOK
      /\ w.todo \subseteq NeededBy(w.tls) /\ w.a.lb \in LbIds /\ w.a.vip \in VipIds
      /\ w.members \subseteq Ingresses
  BY WorkParts DEF TypeInv, InHand, DropRules, DeleteObsoletePools, DeleteObsoleteListeners,
                   Converging, AfterLB, ListenerCalls
<1>2. ASSUME NEW a \in Annotations, NEW todo \in SUBSET w.todo, NEW left \in SUBSET Ingresses,
             NEW next \in {"listener", "obsolete-pools", "obsolete-listeners", "persist"},
             a.lb = w.a.lb, a.vip = w.a.vip, CMPTypeOK',
             next = "listener" => todo # {},
             Continue(next, [w EXCEPT !.todo = todo, !.left = left, !.a = a])
      PROVE  TypeInv'
  <2> DEFINE work == [w EXCEPT !.todo = todo, !.left = left, !.a = a]
  <2>1. /\ work \in Work /\ work.on = w.on /\ work.vs = w.vs /\ work.certs = w.certs
        /\ work.tls = w.tls /\ work.todo = todo /\ work.members = w.members
        /\ work.owner = w.owner /\ work.a = a
    <3>1. todo \in SUBSET Protocols
      BY WorkParts
    <3> QED
      BY <1>1, <1>2, <3>1 DEF Work
  <2>2. Continue(next, work)
    BY <1>2
  <2> HIDE DEF work
  <2>3. TypeOK'
    BY <1>1, <1>2, <2>1, <2>2, ContinueType DEF PCs
  <2>4. InHand'
    BY <1>1, <1>2, <2>1, <2>2 DEF Continue, InHand, Converging, AfterLB, ListenerCalls
  <2>5. PoolsFirst'
    BY <1>2, <2>2 DEF Continue, PoolsFirst
  <2> QED
    BY <2>3, <2>4, <2>5 DEF TypeInv
<1>3. w.left \in SUBSET Ingresses /\ w.a.rules \in SUBSET [vs : Names, id : ChildIds]
  BY <1>1 DEF Work, Annotations
<1>4. CASE DropRules
  <2> DEFINE next == IF w.todo = {Proto} THEN "obsolete-pools" ELSE "listener"
             kept == {r.id : r \in {r \in vss[w.vs].rules : r.id \in OurRules /\ Wanted(r)}}
             rules == {e \in w.a.rules : e.vs # Name \/ e.id \in kept}
             a == [w.a EXCEPT !.rules = rules]
             todo == w.todo \ {Proto}
  <2>1. a \in Annotations /\ a.lb = w.a.lb /\ a.vip = w.a.vip
    <3>1. rules \in SUBSET [vs : Names, id : ChildIds]
      BY <1>3
    <3> HIDE DEF rules
    <3> QED
      BY <1>1, <3>1 DEF Annotations
  <2>2. CMPTypeOK'
    <3>1. w.vs \in VsIds
      BY <1>4 DEF DropRules, TypeInv, InHand, ListenerCalls
    <3>2. vss[w.vs] \in VSRecord
      BY <1>1, <3>1 DEF CMPTypeOK
    <3> DEFINE R == {r \in vss[w.vs].rules : r.id \in OurRules => Wanted(r)}
    <3>3. R \in SUBSET vss[w.vs].rules
      OBVIOUS
    <3>4. vss' = [vss EXCEPT ![w.vs].rules = R] /\ UNCHANGED <<lbs, vips>>
      BY <1>4 DEF DropRules
    <3> HIDE DEF R
    <3>5. [vss[w.vs] EXCEPT !.rules = R] \in VSRecord
      BY <3>2, <3>3 DEF VSRecord
    <3> QED
      BY <1>1, <3>4, <3>5 DEF CMPTypeOK
  <2>3. w.todo # {}
    BY <1>4 DEF DropRules, TypeInv, InHand, ListenerCalls
  <2>4. next \in {"listener", "obsolete-pools"} /\ (next = "listener" => todo # {})
        /\ todo \in SUBSET w.todo
    BY <2>3
  <2>5. Continue(next, [w EXCEPT !.todo = todo, !.a.rules = rules])
    BY <1>4 DEF DropRules
  <2>6. [w EXCEPT !.todo = todo, !.a.rules = rules] = [w EXCEPT !.todo = todo, !.left = w.left, !.a = a]
    <3> HIDE DEF todo, rules
    <3> QED
      BY <1>1 DEF Work
  <2>7. Continue(next, [w EXCEPT !.todo = todo, !.left = w.left, !.a = a])
    BY <2>5, <2>6
  <2>8. /\ next \in {"listener", "obsolete-pools", "obsolete-listeners", "persist"}
        /\ next = "listener" => todo # {}
        /\ todo \in SUBSET w.todo
    BY <2>4
  <2> HIDE DEF a, next, todo
  <2> QED
    BY <1>2, <1>3, <2>1, <2>2, <2>7, <2>8
<1>5. CASE DeleteObsoletePools
  <2> DEFINE gone == {e \in w.a.pools : ~InStack(e)}
             L == WithoutLegacy(w.a)
             P == w.a.pools \ gone
             a == [w.a EXCEPT !.lbs = L, !.pools = P]
  <2>1. L \in SUBSET w.a.lbs /\ P \in SUBSET w.a.pools
    BY DEF WithoutLegacy
  <2>2. Continue("obsolete-listeners", [w EXCEPT !.a = a])
    BY <1>5 DEF DeleteObsoletePools
  <2>3. CMPTypeOK'
    <3>1. \A v \in VsIds :
             [vss[v] EXCEPT !.pools = {p \in @ : \A e \in gone : e.vs \in NameOf(v) => e.id # p.id}]
                \in VSRecord
      <4> HIDE DEF gone
      <4> QED
        BY <1>1 DEF CMPTypeOK, VSRecord
    <3> QED
      BY <1>1, <1>5, <3>1, Zenon DEF DeleteObsoletePools, CMPTypeOK
  <2>4. a \in Annotations /\ a.lb = w.a.lb /\ a.vip = w.a.vip
    <3> HIDE DEF L, P
    <3> QED
      BY <1>1, <2>1 DEF Annotations
  <2> HIDE DEF a
  <2>5. [w EXCEPT !.a = a] = [w EXCEPT !.todo = w.todo, !.left = w.left, !.a = a]
    BY <1>1 DEF Work
  <2> QED
    BY <1>2, <1>3, <2>2, <2>3, <2>4, <2>5
<1>6. CASE DeleteObsoleteListeners
  <2> DEFINE V == {e \in w.a.vs : e.name \in StackNames}
             R == {e \in w.a.rules : e.vs \in StackNames}
             a == [w.a EXCEPT !.vs = V, !.rules = R]
  <2>1. Continue("persist", [w EXCEPT !.left = w.members, !.a = a])
    BY <1>6 DEF DeleteObsoleteListeners
  <2>2. V \in SUBSET w.a.vs /\ R \in SUBSET w.a.rules
    OBVIOUS
  <2>3. a \in Annotations /\ a.lb = w.a.lb /\ a.vip = w.a.vip
    <3> HIDE DEF V, R
    <3> QED
      BY <1>1, <2>2 DEF Annotations
  <2>4. CMPTypeOK'
    <3>1. \A v \in VsIds :
             [vss[v] EXCEPT !.st = "deleting",
                !.rules = {r \in @ : \A n \in NameOf(v) : [vs |-> n, id |-> r.id] \notin w.a.rules}]
                \in VSRecord
      BY <1>1 DEF CMPTypeOK, VSRecord, LBStatus
    <3> QED
      BY <1>1, <1>6, <3>1 DEF DeleteObsoleteListeners, CMPTypeOK
  <2> HIDE DEF a
  <2>5. [w EXCEPT !.left = w.members, !.a = a]
           = [w EXCEPT !.todo = w.todo, !.left = w.members, !.a = a]
    BY <1>1 DEF Work
  <2> QED
    BY <1>1, <1>2, <2>1, <2>3, <2>4, <2>5
<1> QED
  BY <1>4, <1>5, <1>6

(* What is patched is what was sent, if it was read as it is.                *)
LEMMA PatchedType ==
    ASSUME NEW new \in Annotations, NEW read \in Annotations, NEW old \in Annotations
    PROVE  /\ Patched(new, read, old) \in Annotations
           /\ read = old => Patched(new, read, old) = new
<1> DEFINE graph == IF [new EXCEPT !.lb = read.lb, !.vip = read.vip] = read THEN old ELSE new
<1>1. graph \in Annotations
  OBVIOUS
<1>2. Patched(new, read, old) =
         [graph EXCEPT !.lb = IF new.lb = read.lb THEN old.lb ELSE new.lb,
                       !.vip = IF new.vip = read.vip THEN old.vip ELSE new.vip]
  BY DEF Patched
<1>3. ASSUME read = old
      PROVE  /\ graph.lbs = new.lbs /\ graph.vs = new.vs /\ graph.pools = new.pools
             /\ graph.rules = new.rules /\ graph.certs = new.certs
  BY <1>3 DEF Annotations
<1> HIDE DEF graph
<1>4. Patched(new, read, old) \in Annotations
  BY <1>1, <1>2 DEF Annotations
<1>5. ASSUME read = old PROVE Patched(new, read, old) = new
  <2>1. Patched(new, read, old) = [graph EXCEPT !.lb = new.lb, !.vip = new.vip]
    BY <1>2, <1>5
  <2> QED
    BY <1>1, <1>3, <1>5, <2>1 DEF Annotations
<1> QED
  BY <1>4, <1>5

(* persistGroupObserved, and what follows it.                                *)
LEMMA PersistType ==
    ASSUME TypeInv, UNCHANGED cacheVars,
           PersistMember \/ PublishMember \/ StripObserved \/ RemoveFinalizer
    PROVE  TypeInv'
<1>1. /\ w \in Work /\ w.a \in Annotations /\ w.on \in Ingresses /\ w.certs \subseteq w.tls
      /\ TypeOK /\ CMPTypeOK
  BY WorkParts DEF PersistMember, PublishMember, StripObserved, RemoveFinalizer
<1>2. CASE PersistMember
  <2>1. PICK m \in w.left :
           /\ ann' = [ann EXCEPT ![m] = Patched(w.a, w.base[m], ann[m])]
           /\ queue' = IF ann' # ann THEN queue \cup {m} ELSE queue
           /\ w' = [w EXCEPT !.left = @ \ {m}, !.at = m, !.base[m] = NoAnnotations]
    BY <1>2 DEF PersistMember
  <2>2. m \in Ingresses /\ w.left \in SUBSET Ingresses /\ w.base \in [Ingresses -> Annotations]
    BY <1>1 DEF Work
  <2>8. ann' \in [Ingresses -> Annotations]
    BY <1>1, <2>1, <2>2, PatchedType DEF TypeOK, StateTypeOK
  <2>9. [w.base EXCEPT ![m] = NoAnnotations] \in [Ingresses -> Annotations]
    BY <2>2, NullTypes
  <2>3. /\ w' \in Work /\ w'.on = w.on /\ w'.at = m /\ w'.a = w.a /\ w'.certs = w.certs
        /\ w'.tls = w.tls /\ w'.todo = w.todo /\ w'.members = w.members /\ w'.owner = w.owner
    BY <1>1, <2>1, <2>2, <2>9 DEF Work
  <2>4. CMPTypeOK'
    BY <1>1, <1>2, CMPUnchanged DEF PersistMember, cmpVars
  <2>5. TypeOK'
    BY <1>1, <1>2, <2>1, <2>2, <2>3, <2>4, <2>8, TypeFromParts DEF PersistMember, TypeOK, StateTypeOK, PCs
  <2>6. InHand'
    BY <1>2, <2>2, <2>3
    DEF PersistMember, TypeInv, InHand, Converging, AfterLB, ListenerCalls
  <2>7. PoolsFirst'
    BY <1>2 DEF PersistMember, PoolsFirst
  <2> QED
    BY <2>5, <2>6, <2>7 DEF TypeInv
<1>3. CASE PublishMember
  <2>1. w.at \in Ingresses /\ w.a.vip \in VipIds \cup {NoId} /\ w.why \in Whys
    BY <1>1, <1>3 DEF PublishMember, TypeInv, InHand, Annotations, Work
  <2>2. /\ status' \in [Ingresses -> VipIds \cup {NoId}]
        /\ pc' \in {"persist", "idle", "strip", "unfinalize"}
        /\ w' = (IF pc' = "idle" THEN IdleWork ELSE w)
        /\ UNCHANGED <<ing, ann, queue, events, fault, lbs, vips, vss>>
    BY <1>1, <1>3, <2>1 DEF PublishMember, TypeOK, StateTypeOK, AfterPersist, Whys
  <2>3. CMPTypeOK'
    BY <1>1, <2>2, CMPUnchanged DEF cmpVars
  <2>4. TypeOK'
    BY <1>1, <2>2, <2>3, TypeFromParts, NullTypes DEF TypeOK, StateTypeOK, PCs
  <2>5. CASE pc' = "idle"
    BY <2>2, <2>4, <2>5, IdleInv DEF TypeInv
  <2>6. CASE pc' # "idle"
    <3>1. w' = w /\ pc' \in {"persist", "strip", "unfinalize"}
      BY <2>2, <2>6
    <3>2. InHand'
      BY <1>3, <3>1
      DEF PublishMember, TypeInv, InHand, Converging, AfterLB, ListenerCalls
    <3>3. PoolsFirst'
      BY <3>1 DEF PoolsFirst
    <3> QED
      BY <2>4, <3>2, <3>3 DEF TypeInv
  <2> QED
    BY <2>5, <2>6
<1>4. CASE StripObserved
  <2>1. TypeOK'
    BY <1>1, <1>4, NullTypes
    DEF StripObserved, EndPass, TypeOK, StateTypeOK, CacheTypeOK, cacheVars, PCs
  <2> QED
    BY <1>4, <2>1, IdleInv DEF StripObserved, EndPass, TypeInv
<1>5. CASE RemoveFinalizer
  <2>1. ing[w.on] \in Object /\ [ing[w.on] EXCEPT !.fin = FALSE] \in Object
    BY <1>1 DEF TypeOK, StateTypeOK, Object
  <2>2. /\ ing' \in [Ingresses -> Object] /\ ann' \in [Ingresses -> Annotations]
        /\ status' \in [Ingresses -> VipIds \cup {NoId}]
    BY <1>1, <1>5, <2>1, NullTypes DEF RemoveFinalizer, TypeOK, StateTypeOK
  <2>3. TypeOK'
    BY <1>1, <1>5, <2>2, NullTypes
    DEF RemoveFinalizer, EndPass, TypeOK, StateTypeOK, CacheTypeOK, cacheVars, PCs
  <2> QED
    BY <1>5, <2>3, IdleInv DEF RemoveFinalizer, EndPass, TypeInv
<1> QED
  BY <1>2, <1>3, <1>4, <1>5

(* CleanupStack, and the passes that fail.                                   *)
LEMMA CleanupType ==
    ASSUME TypeInv, UNCHANGED cacheVars, CleanChildren \/ CleanListener \/ CleanParents \/ PassFails
    PROVE  TypeInv'
<1>1. /\ w \in Work /\ w.a \in Annotations /\ w.on \in Ingresses /\ w.certs \subseteq w.tls
      /\ TypeOK /\ CMPTypeOK /\ w.todo \subseteq NeededBy(w.tls) /\ pc # "idle"
  BY WorkParts DEF CleanChildren, CleanListener, CleanParents, PassFails, TypeInv, InHand
<1>2. ASSUME pc \in {"children", "clean"}
      PROVE  CleanupLBs(w.a) # {} /\ CleanupLB \in LbIds /\ CleanupLB \in CleanupLBs(w.a)
  <2>1. CleanupLBs(w.a) # {}
    BY <1>2 DEF TypeInv, InHand
  <2>2. CleanupLBs(w.a) \subseteq LbIds
    BY <1>1 DEF CleanupLBs, Annotations
  <2>3. CleanupLB \in CleanupLBs(w.a)
    BY <2>1 DEF CleanupLB
  <2> QED
    BY <2>1, <2>2, <2>3
<1>3. CASE CleanChildren
  <2>1. CMPTypeOK'
    <3>1. \A v \in VsIds :
             [vss[v] EXCEPT
                !.rules = {r \in @ : \A n \in NameOf(v) : [vs |-> n, id |-> r.id] \notin w.a.rules},
                !.pools = {p \in @ : \A e \in w.a.pools : e.vs \in NameOf(v) => e.id # p.id}]
                \in VSRecord
      BY <1>1 DEF CMPTypeOK, VSRecord
    <3> QED
      BY <1>1, <1>3, <3>1 DEF CleanChildren, CMPTypeOK
  <2>2. TypeOK'
    BY <1>1, <1>3, <2>1, ContinueType DEF CleanChildren, PCs
  <2>3. CleanupLBs(w'.a) # {} /\ w' = w /\ pc' = "clean"
    BY <1>2, <1>3 DEF CleanChildren, Continue
  <2> QED
    BY <1>1, <2>2, <2>3 DEF TypeInv, InHand, PoolsFirst, Converging, AfterLB, ListenerCalls
<1>4. CASE CleanListener
  <2>1. \A v \in VsIds : [vss[v] EXCEPT !.st = "deleting"] \in VSRecord
    BY <1>1 DEF CMPTypeOK, VSRecord, LBStatus
  <2>2. CMPTypeOK'
    <3>1. PICK v \in Shown : vss' = [vss EXCEPT ![v].st = "deleting"]
      BY <1>4 DEF CleanListener
    <3>2. v \in VsIds
      BY <1>1 DEF Shown, Annotations
    <3> QED
      BY <1>1, <1>4, <2>1, <3>1, <3>2 DEF CleanListener, CMPTypeOK
  <2> QED
    <3>1. pc # "idle" /\ Return /\ NoEvent
      BY <1>4 DEF CleanListener, NoEvent
    <3> QED
      BY <1>1, <2>2, <3>1, ReturnInv, EventTypes
<1>5. CASE CleanParents
  <2>1. CASE Continue("unfinalize", w) /\ UNCHANGED <<lbs, vips, vss>>
    <3>1. TypeOK'
      BY <1>1, <2>1, CMPUnchanged, ContinueType DEF PCs, cmpVars
    <3> QED
      BY <1>1, <2>1, <3>1
      DEF Continue, TypeInv, InHand, PoolsFirst, Converging, AfterLB, ListenerCalls
  <2>2. CASE /\ lbs' = [lbs EXCEPT ![CleanupLB].st = "deleting"]
             /\ vips' = [v \in VipIds |-> IF v = w.a.vip THEN NoId ELSE vips[v]]
             /\ Return /\ NoEvent /\ UNCHANGED vss
    <3>1. CleanupLB \in LbIds
      BY <1>2, <1>5 DEF CleanParents
    <3>2. [lbs[CleanupLB] EXCEPT !.st = "deleting"] \in LBRecord
      BY <1>1, <3>1 DEF CMPTypeOK, LBRecord, LBStatus
    <3>3. CMPTypeOK'
      BY <1>1, <2>2, <3>1, <3>2 DEF CMPTypeOK
    <3> QED
      BY <1>1, <2>2, <3>3, ReturnInv, EventTypes
  <2> QED
    BY <1>5, <2>1, <2>2 DEF CleanParents
<1>6. CASE PassFails
  <2>1. CMPTypeOK' /\ Return
    BY <1>1, <1>6, CMPUnchanged DEF PassFails
  <2>2. NoEvent \/ Spend("failed-call")
    BY <1>6 DEF PassFails
  <2> QED
    BY <1>1, <2>1, <2>2, ReturnInv, EventTypes DEF FaultKinds
<1> QED
  BY <1>3, <1>4, <1>5, <1>6

-----------------------------------------------------------------------------
(* CMP and the users.                                                        *)
LEMMA OthersType ==
    ASSUME TypeInv, \/ Provider \/ ProviderVS \/ User \/ \E v \in VsIds : ListenerLost(v)
                    \/ \E i \in Ingresses : Deliver(i)
    PROVE  TypeInv'
<1>1. TypeOK /\ CMPTypeOK
  BY WorkParts
<1>2. \A v \in VsIds, s \in LBStatus : [vss[v] EXCEPT !.st = s] \in VSRecord
  BY <1>1 DEF CMPTypeOK, VSRecord
<1>3. \A l \in LbIds, s \in LBStatus : [lbs[l] EXCEPT !.st = s] \in LBRecord
  BY <1>1 DEF CMPTypeOK, LBRecord
<1>4. UNCHANGED <<pc, w>> /\ TypeOK' => TypeInv'
  BY PassUntouched DEF TypeInv
<1>5. ASSUME UNCHANGED <<ing, ann, status, queue, pc, w, events, fault, ingCache, annCache>>,
             CMPTypeOK'
      PROVE  TypeInv'
  <2>1. TypeOK'
    BY <1>1, <1>5, TypeFromParts DEF TypeOK, StateTypeOK, cacheVars
  <2> QED
    BY <1>4, <1>5, <2>1
<1>6. CASE Provider
  <2>1. PICK l \in LbIds : LBReady(l) \/ LBGone(l)
    BY <1>6 DEF Provider
  <2>2. CMPTypeOK'
    <3>1. CASE LBReady(l)
      BY <1>1, <1>3, <3>1 DEF LBReady, CMPTypeOK, LBStatus
    <3>2. CASE LBGone(l)
      BY <1>1, <3>2, NullTypes DEF LBGone, CMPTypeOK
    <3> QED
      BY <2>1, <3>1, <3>2
  <2> QED
    BY <1>5, <1>6, <2>2 DEF Provider
<1>7. CASE ProviderVS
  <2>1. PICK v \in VsIds : VSReady(v) \/ VSGone(v)
    BY <1>7 DEF ProviderVS
  <2>2. CMPTypeOK'
    BY <1>1, <1>2, <2>1, NullTypes DEF VSReady, VSGone, CMPTypeOK, LBStatus
  <2> QED
    BY <1>5, <1>7, <2>2 DEF ProviderVS
<1>8. CASE \E v \in VsIds : ListenerLost(v)
  <2>1. PICK v \in VsIds : ListenerLost(v)
    BY <1>8
  <2>2. CMPTypeOK'
    BY <1>1, <1>2, <2>1 DEF ListenerLost, CMPTypeOK, LBStatus
  <2>3. events' \in 0 .. MaxEvents /\ fault' \in FaultKinds \cup {"none"}
    BY <1>1, <2>1, EventTypes DEF ListenerLost, FaultKinds
  <2>4. TypeOK'
    BY <1>1, <2>1, <2>2, <2>3, TypeFromParts DEF ListenerLost, TypeOK, StateTypeOK, cacheVars
  <2> QED
    BY <1>4, <2>1, <2>4 DEF ListenerLost
<1>9. ASSUME NEW i \in Ingresses, Change(i), ing' \in [Ingresses -> Object]
      PROVE  TypeInv'
  <2>1. events' \in 0 .. MaxEvents
    BY <1>1, <1>9, EventTypes DEF Change
  <2>2. CMPTypeOK'
    BY <1>1, <1>9, CMPUnchanged DEF Change, cmpVars
  <2>3. TypeOK'
    BY <1>1, <1>9, <2>1, <2>2, TypeFromParts DEF Change, TypeOK, StateTypeOK, cacheVars
  <2> QED
    BY <1>4, <1>9, <2>3 DEF Change
<1>10. CASE User
  <2>1. PICK i \in Ingresses :
           \/ DeleteIngress(i) \/ EditTLS(i) \/ RotateSecret(i)
           \/ \E g \in Groups : CreateIngress(i, g) \/ MoveIngress(i, g)
    BY <1>10 DEF User
  <2>2. ing \in [Ingresses -> Object] /\ ing[i] \in Object
    BY <1>1 DEF TypeOK, StateTypeOK
  <2>3. CASE DeleteIngress(i)
    <3>1. [ing[i] EXCEPT !.del = TRUE] \in Object
      BY <2>2 DEF Object
    <3> QED
      BY <1>9, <2>2, <2>3, <3>1 DEF DeleteIngress
  <2>4. CASE EditTLS(i)
    <3>1. \A b \in BOOLEAN : [ing[i] EXCEPT !.tls = b] \in Object
      BY <2>2 DEF Object
    <3>2. PICK b \in BOOLEAN : ing' = [ing EXCEPT ![i].tls = b]
      BY <2>2, <2>4, Zenon DEF EditTLS
    <3>3. ing' \in [Ingresses -> Object]
      BY <2>2, <3>1, <3>2
    <3> QED
      BY <1>9, <2>4, <3>3 DEF EditTLS
  <2>5. CASE RotateSecret(i)
    <3>1. \A v \in Versions : [ing[i] EXCEPT !.secret = v] \in Object
      BY <2>2 DEF Object
    <3> QED
      BY <1>9, <2>2, <2>5, <3>1 DEF RotateSecret
  <2>6. ASSUME NEW g \in Groups, CreateIngress(i, g) PROVE TypeInv'
    BY <1>9, <2>2, <2>6, NullTypes DEF CreateIngress
  <2>7. ASSUME NEW g \in Groups, MoveIngress(i, g) PROVE TypeInv'
    <3>1. [ing[i] EXCEPT !.group = g] \in Object
      BY <2>2 DEF Object
    <3> QED
      BY <1>9, <2>2, <2>7, <3>1 DEF MoveIngress
  <2> QED
    BY <2>1, <2>3, <2>4, <2>5, <2>6, <2>7
<1>11. CASE \E i \in Ingresses : Deliver(i)
  <2>1. TypeOK'
    BY <1>1, <1>11 DEF Deliver, TypeOK, StateTypeOK, CacheTypeOK
  <2> QED
    BY <1>4, <1>11, <2>1 DEF Deliver
<1> QED
  BY <1>6, <1>7, <1>8, <1>10, <1>11

(* Every step keeps the types.                                               *)
LEMMA NextType == TypeInv /\ [Next]_vars => TypeInv'
<1> SUFFICES ASSUME TypeInv, [Next]_vars PROVE TypeInv'
  OBVIOUS
<1>1. CASE UNCHANGED vars
  <2>1. TypeOK'
    BY <1>1 DEF vars, TypeInv, TypeOK, StateTypeOK, CacheTypeOK
  <2> QED
    BY <1>1, <2>1, PassUntouched DEF vars, TypeInv
<1>2. CASE Next
  BY <1>2, TakeType, ParentType, ListenerType, CertificateType, PoolType, RuleType,
     ObsoleteType, PersistType, CleanupType, OthersType
  DEF Next, Worker, EnsureGroup
<1> QED
  BY <1>1, <1>2

(* The variables keep their types, whatever Ingresses join, leave and change *)
(* and whatever fails; in particular an id in hand is one of CMP's when a    *)
(* call uses it, and a rule is created for a pool the pass has.              *)
THEOREM TypeCorrect == Spec => []TypeOK
<1>1. Spec => []TypeInv
  BY InitType, NextType, PTL DEF Spec
<1> QED
  BY <1>1, PTL DEF TypeInv

-----------------------------------------------------------------------------
(* Who writes what.                                                          *)

(* The LBServices of CMP.                                                    *)
LEMMA LBWriters ==
    ASSUME [Next]_vars
    PROVE  \/ UNCHANGED lbs
           \/ CreateLB \/ UploadCertificate \/ DeleteCertificate \/ CleanParents
           \/ \E l \in LbIds : LBReady(l) \/ LBGone(l)
<1>1. CASE UNCHANGED vars
  BY <1>1 DEF vars
<1>2. CASE \E i \in Ingresses : Take(i)
  BY <1>2 DEF Take, Ignore, BeginEnsure, BeginLeave, BeginDepart, BeginCleanup, Start
<1>3. CASE EnsureGroup
  BY <1>3 DEF EnsureGroup, GetLB, KeepVIP, CreateVIP, KeepListener, RefuseListener, CreateListener,
     BindCertificate, UnbindCertificate, KeepPool, CreatePool, KeepRule, CreateRule, DropRules,
     DeleteObsoletePools, DeleteObsoleteListeners, cmpVars
<1>4. CASE \/ EnsureFinalizer \/ PersistMember \/ PublishMember \/ StripObserved
           \/ RemoveFinalizer \/ CleanChildren \/ CleanListener \/ PassFails
  BY <1>4 DEF EnsureFinalizer, PersistMember, PublishMember, StripObserved, RemoveFinalizer,
     CleanChildren, CleanListener, PassFails, cmpVars
<1>5. CASE Provider \/ ProviderVS \/ \E i \in Ingresses : Deliver(i)
  BY <1>5 DEF Provider, ProviderVS, VSReady, VSGone, Deliver
<1>6. CASE User \/ \E v \in VsIds : ListenerLost(v)
  BY <1>6 DEF User, ListenerLost, DeleteIngress, EditTLS, RotateSecret, CreateIngress, MoveIngress,
     Change
<1> QED
  BY <1>1, <1>2, <1>3, <1>4, <1>5, <1>6 DEF Next, Worker

(* What is recorded on the Ingresses.                                        *)
LEMMA AnnWriters ==
    ASSUME [Next]_vars
    PROVE  UNCHANGED ann \/ PersistMember \/ StripObserved \/ RemoveFinalizer
<1>1. CASE UNCHANGED vars
  BY <1>1 DEF vars
<1>2. CASE \E i \in Ingresses : Take(i)
  BY <1>2 DEF Take, Ignore, BeginEnsure, BeginLeave, BeginDepart, BeginCleanup, Start
<1>3. CASE EnsureGroup
  BY <1>3 DEF EnsureGroup, GetLB, CreateLB, KeepVIP, CreateVIP, UseVIP, KeepListener,
     RefuseListener, CreateListener, UploadCertificate, DeleteCertificate, BindCertificate,
     UnbindCertificate, KeepPool, CreatePool, KeepRule, CreateRule, NextPool, NextRule, DropRules,
     DeleteObsoletePools, DeleteObsoleteListeners, Continue, Return
<1>4. CASE \/ EnsureFinalizer \/ PublishMember \/ CleanChildren \/ CleanListener \/ CleanParents
           \/ PassFails
  BY <1>4 DEF EnsureFinalizer, PublishMember, CleanChildren, CleanListener, CleanParents,
     PassFails, Continue, Return
<1>5. CASE Provider \/ ProviderVS \/ \E i \in Ingresses : Deliver(i)
  BY <1>5 DEF Provider, ProviderVS, Deliver
<1>6. CASE User \/ \E v \in VsIds : ListenerLost(v)
  BY <1>6 DEF User, ListenerLost, DeleteIngress, EditTLS, RotateSecret, CreateIngress, MoveIngress,
     Change
<1> QED
  BY <1>1, <1>2, <1>3, <1>4, <1>5, <1>6 DEF Next, Worker

(* The Ingresses.                                                            *)
LEMMA IngWriters ==
    ASSUME [Next]_vars
    PROVE  UNCHANGED ing \/ EnsureFinalizer \/ RemoveFinalizer \/ User
<1>1. CASE UNCHANGED vars
  BY <1>1 DEF vars
<1>2. CASE \E i \in Ingresses : Take(i)
  BY <1>2 DEF Take, Ignore, BeginEnsure, BeginLeave, BeginDepart, BeginCleanup, Start
<1>3. CASE EnsureGroup
  BY <1>3 DEF EnsureGroup, GetLB, CreateLB, KeepVIP, CreateVIP, UseVIP, KeepListener,
     RefuseListener, CreateListener, UploadCertificate, DeleteCertificate, BindCertificate,
     UnbindCertificate, KeepPool, CreatePool, KeepRule, CreateRule, NextPool, NextRule, DropRules,
     DeleteObsoletePools, DeleteObsoleteListeners, Continue, Return
<1>4. CASE \/ PersistMember \/ PublishMember \/ StripObserved \/ CleanChildren \/ CleanListener
           \/ CleanParents \/ PassFails
  BY <1>4 DEF PersistMember, PublishMember, StripObserved, CleanChildren, CleanListener,
     CleanParents, PassFails, Continue, Return
<1>5. CASE Provider \/ ProviderVS \/ \E i \in Ingresses : Deliver(i)
  BY <1>5 DEF Provider, ProviderVS, Deliver
<1>6. CASE \E v \in VsIds : ListenerLost(v)
  BY <1>6 DEF ListenerLost
<1> QED
  BY <1>1, <1>2, <1>3, <1>4, <1>5, <1>6 DEF Next, Worker

(* The pass.                                                                 *)
LEMMA PassWriters ==
    ASSUME [Next]_vars
    PROVE  UNCHANGED <<pc, w>> \/ (\E i \in Ingresses : Take(i)) \/ Worker
BY DEF Next, vars, Provider, ProviderVS, Deliver, User, ListenerLost, DeleteIngress, EditTLS, RotateSecret,
   CreateIngress, MoveIngress, Change

-----------------------------------------------------------------------------
(* An upload only happens when CMP has no certificate of the Secret's name.  *)
LEMMA CertificateStep == TypeInv /\ OneCertificate /\ [Next]_vars => OneCertificate'
<1> SUFFICES ASSUME TypeInv, OneCertificate, [Next]_vars,
                    NEW l \in LbIds, NEW c \in lbs'[l].certs, NEW d \in lbs'[l].certs,
                    c.name = d.name
             PROVE  c = d
  BY DEF OneCertificate
<1>1. /\ \A k \in LbIds : lbs[k] \in LBRecord
      /\ \A e \in lbs[l].certs, f \in lbs[l].certs : e.name = f.name => e = f
      /\ lbs \in [LbIds -> LBRecord]
  BY DEF OneCertificate, TypeInv, TypeOK, StateTypeOK
<1>2. CASE lbs'[l].certs \subseteq lbs[l].certs
  BY <1>1, <1>2
<1>3. CASE UploadCertificate
  <2>1. PICK x \in CertIds :
           lbs' = [lbs EXCEPT ![w.a.lb].certs = @ \cup
                     {[name |-> CertNow, version |-> w.material[CertNow], id |-> x]}]
    BY <1>3 DEF UploadCertificate
  <2> DEFINE new == [name |-> CertNow, version |-> w.material[CertNow], id |-> x]
  <2>2. new.name = CertNow
    OBVIOUS
  <2> HIDE DEF new
  <2>3. lbs' = [lbs EXCEPT ![w.a.lb].certs = @ \cup {new}]
    BY <2>1 DEF new
  <2>4. CASE l = w.a.lb
    <3>1. \A e \in lbs[l].certs : e.name # CertNow
      BY <1>3, <2>4 DEF UploadCertificate, Reusable
    <3>2. lbs'[l].certs = lbs[l].certs \cup {new}
      BY <1>1, <2>3, <2>4 DEF LBRecord
    <3> QED
      BY <1>1, <2>2, <3>1, <3>2
  <2>5. CASE l # w.a.lb
    BY <1>1, <2>3, <2>5
  <2> QED
    BY <2>4, <2>5
<1>4. CASE UNCHANGED lbs
  BY <1>2, <1>4
<1>5. CASE CreateLB
  <2>1. PICK k \in LbIds, st \in {"ready", "pending"} :
           lbs' = [lbs EXCEPT ![k] = [NoLB EXCEPT !.st = st, !.name = w.owner]]
    BY <1>5 DEF CreateLB
  <2>2. [NoLB EXCEPT !.st = st, !.name = w.owner].certs = {}
    BY DEF NoLB
  <2> QED
    BY <1>1, <1>2, <2>1, <2>2
<1>6. CASE DeleteCertificate
  <2>1. lbs'[l].certs \subseteq lbs[l].certs
    BY <1>1, <1>6 DEF DeleteCertificate, LBRecord
  <2> QED
    BY <1>2, <2>1
<1>7. CASE CleanParents
  <2>1. lbs'[l].certs \subseteq lbs[l].certs
    BY <1>1, <1>7 DEF CleanParents, LBRecord
  <2> QED
    BY <1>2, <2>1
<1>8. CASE \E k \in LbIds : LBReady(k) \/ LBGone(k)
  <2>1. lbs'[l].certs \subseteq lbs[l].certs
    BY <1>1, <1>8 DEF LBReady, LBGone, LBRecord, NoLB
  <2> QED
    BY <1>2, <2>1
<1> QED
  BY <1>3, <1>4, <1>5, <1>6, <1>7, <1>8, LBWriters

(* However many listeners, passes and failures there are, an LBService never *)
(* has two certificates of one Secret.                                       *)
THEOREM NoSecondCertificate == Spec => []OneCertificate
<1>1. Init => OneCertificate
  BY DEF Init, OneCertificate, NoLB
<1>2. TypeInv /\ OneCertificate /\ [Next]_vars => TypeInv' /\ OneCertificate'
  BY NextType, CertificateStep
<1> QED
  BY <1>1, <1>2, InitType, PTL DEF Spec

-----------------------------------------------------------------------------
(* Behind the LBService a pass keeps its group, its members and the          *)
(* LBService; all it does to the LBServices recorded is to drop the alias.   *)
LEMMA PassFrame ==
    ASSUME TypeInv, pc \in AfterLB, Worker, pc' \in Converging
    PROVE  /\ pc' \in AfterLB
           /\ w'.on = w.on /\ w'.why = w.why /\ w'.owner = w.owner /\ w'.members = w.members
           /\ w'.tls = w.tls /\ (w'.base = w.base \/ PersistMember)
           /\ w'.a.lb = w.a.lb /\ (w'.a.lbs = w.a.lbs \/ w'.a.lbs = WithoutLegacy(w.a))
           /\ w'.left = w.left \/ w'.left = w.members \/ \E m : w'.left = w.left \ {m}
           /\ w'.a.vs = w.a.vs \/ KeepListener \/ CreateListener \/ DeleteObsoleteListeners
           /\ w'.a.pools = w.a.pools \/ CreatePool \/ DeleteObsoletePools
           /\ pc' \in ListenerCalls =>
                 \/ KeepListener \/ CreateListener
                 \/ pc \in ListenerCalls /\ w'.vs = w.vs /\ w'.todo = w.todo
<1>1. w \in Work /\ w.a \in Annotations
  BY WorkParts
<1>2. pc' # "idle" /\ pc' # "strip" /\ pc' # "unfinalize" /\ pc' # "clean" /\ pc' # "children"
  BY DEF Converging, AfterLB, ListenerCalls
<1>3. pc' \notin {"finalizer", "lb"} => pc' \in AfterLB
  BY DEF Converging
<1>4. ~EnsureFinalizer /\ ~GetLB /\ ~CreateLB
  BY DEF EnsureFinalizer, GetLB, CreateLB, AfterLB, ListenerCalls
<1>5. ~Return
  BY <1>2 DEF Return, EndPass
<1>6. CASE KeepVIP \/ CreateVIP
  <2>1. PICK v : w' = [w EXCEPT !.a.vip = v, !.todo = NeededBy(w.tls)] /\ pc' = "listener"
    BY <1>6 DEF KeepVIP, CreateVIP, UseVIP, Continue
  <2> QED
    BY <1>1, <1>3, <2>1 DEF ListenerCalls, Work, Annotations
<1>7. CASE KeepListener \/ CreateListener
  <2>1. PICK v \in VsIds : Continue(AfterListener, WithVS(v))
    <3>1. CASE KeepListener
      <4>1. Found \subseteq VsIds
        BY <1>1 DEF Found, Current, RecordedAs, Annotations
      <4> QED
        BY <3>1, <4>1 DEF KeepListener
    <3>2. CASE CreateListener
      BY <1>5, <3>2 DEF CreateListener
    <3> QED
      BY <1>7, <3>1, <3>2
  <2>2. w' = WithVS(v) /\ pc' \in {"cert", "pool"}
    BY <2>1 DEF Continue, AfterListener
  <2>3. /\ WithVS(v).on = w.on /\ WithVS(v).why = w.why /\ WithVS(v).owner = w.owner
        /\ WithVS(v).members = w.members /\ WithVS(v).tls = w.tls /\ WithVS(v).left = w.left
        /\ WithVS(v).base = w.base
        /\ WithVS(v).a.lb = w.a.lb /\ WithVS(v).a.lbs = w.a.lbs /\ WithVS(v).a.pools = w.a.pools
    BY <1>1 DEF WithVS, Work, Annotations
  <2> QED
    BY <1>3, <1>7, <2>2, <2>3
<1>8. CASE UploadCertificate \/ BindCertificate \/ UnbindCertificate \/ DeleteCertificate
  <2>1. PICK rest, S :
           /\ w' = [w EXCEPT !.certs = rest, !.a.certs = S]
           /\ pc' \in {"cert", "cert-unbind", "cert-delete", "pool"}
    <3>1. w = [w EXCEPT !.certs = w.certs, !.a.certs = w.a.certs]
      BY <1>1 DEF Work, Annotations
    <3>2. CASE UploadCertificate
      <4>1. PICK c \in CertIds : Continue("cert", [w EXCEPT !.a.certs = Entered(c)])
        BY <3>2 DEF UploadCertificate
      <4>2. [w EXCEPT !.a.certs = Entered(c)] = [w EXCEPT !.certs = w.certs, !.a.certs = Entered(c)]
        BY <1>1 DEF Work
      <4> QED
        BY <4>1, <4>2 DEF Continue
    <3>3. CASE BindCertificate
      <4>1. PICK c : Continue(IF w.certs # {CertNow} THEN "cert" ELSE AfterCertificates(Obsolete),
                              [w EXCEPT !.certs = @ \ {CertNow}, !.a.certs = Entered(c.id)])
        BY <3>3 DEF BindCertificate
      <4> QED
        BY <4>1 DEF Continue, AfterCertificates
    <3>4. CASE UnbindCertificate
      BY <3>1, <3>4 DEF UnbindCertificate, Continue
    <3>5. CASE DeleteCertificate
      <4>1. [w EXCEPT !.a.certs = @ \ {CertGone}]
               = [w EXCEPT !.certs = w.certs, !.a.certs = w.a.certs \ {CertGone}]
        BY <1>1 DEF Work
      <4> QED
        BY <3>5, <4>1 DEF DeleteCertificate, Continue, AfterCertificates
    <3> QED
      BY <1>8, <3>2, <3>3, <3>4, <3>5
  <2>2. pc \in ListenerCalls
    BY <1>8 DEF UploadCertificate, BindCertificate, UnbindCertificate, DeleteCertificate, ListenerCalls
  <2> QED
    BY <1>1, <1>3, <2>1, <2>2 DEF Work, Annotations
<1>9. CASE KeepPool \/ CreatePool \/ KeepRule \/ CreateRule
  <2> DEFINE Same == /\ w'.on = w.on /\ w'.why = w.why /\ w'.owner = w.owner
                     /\ w'.members = w.members /\ w'.tls = w.tls /\ w'.left = w.left
                     /\ w'.a.lb = w.a.lb /\ w'.a.lbs = w.a.lbs /\ w'.a.vs = w.a.vs
                     /\ w'.vs = w.vs /\ w'.todo = w.todo /\ w'.base = w.base
                     /\ w'.a.pools = w.a.pools \/ CreatePool
                     /\ pc' \in {"pool", "rule", "drop-rules"}
  <2>1. ASSUME NEW a, NextPool(a) \/ NextRule(a), a.lb = w.a.lb, a.lbs = w.a.lbs, a.vs = w.a.vs,
             a.pools = w.a.pools \/ CreatePool
        PROVE  Same
    <3>1. \/ w' = [w EXCEPT !.pools = @ \ {PoolNow}, !.a = a]
          \/ w' = [w EXCEPT !.routes = @ \ {RouteNow}, !.a = a]
      BY <2>1 DEF NextPool, NextRule, Continue
    <3>2. pc' \in {"pool", "rule", "drop-rules"}
      BY <2>1 DEF NextPool, NextRule, Continue
    <3> QED
      BY <1>1, <2>1, <3>1, <3>2 DEF Work
  <2>2. ASSUME NEW S, CreatePool, NextPool([w.a EXCEPT !.pools = S]) PROVE Same
    <3> DEFINE a == [w.a EXCEPT !.pools = S]
    <3>1. a.lb = w.a.lb /\ a.lbs = w.a.lbs /\ a.vs = w.a.vs
      BY <1>1 DEF Annotations
    <3>2. NextPool(a)
      BY <2>2
    <3> HIDE DEF a
    <3> QED
      BY <2>1, <2>2, <3>1, <3>2
  <2>3. ASSUME NEW S, NextRule([w.a EXCEPT !.rules = S]) PROVE Same
    <3> DEFINE a == [w.a EXCEPT !.rules = S]
    <3>1. a.lb = w.a.lb /\ a.lbs = w.a.lbs /\ a.vs = w.a.vs /\ a.pools = w.a.pools
      BY <1>1 DEF Annotations
    <3>2. NextRule(a)
      BY <2>3
    <3> HIDE DEF a
    <3> QED
      BY <2>1, <3>1, <3>2
  <2>4. ASSUME KeepPool \/ KeepRule PROVE Same
    <3>1. NextPool(w.a) \/ NextRule(w.a)
      BY <2>4 DEF KeepPool, KeepRule
    <3> QED
      BY <2>1, <3>1
  <2>5. ASSUME CreatePool PROVE Same
    <3>1. \E S : NextPool([w.a EXCEPT !.pools = S])
      BY <2>5 DEF CreatePool
    <3> QED
      BY <2>2, <2>5, <3>1
  <2>6. ASSUME CreateRule PROVE Same
    <3>1. \E S : NextRule([w.a EXCEPT !.rules = S])
      BY <2>6 DEF CreateRule
    <3> QED
      BY <2>3, <3>1
  <2>7. Same
    BY <1>9, <2>4, <2>5, <2>6
  <2>8. pc \in ListenerCalls
    BY <1>9 DEF KeepPool, CreatePool, KeepRule, CreateRule, ListenerCalls
  <2> QED
    BY <1>3, <2>7, <2>8 DEF Same
<1>10. CASE DropRules
  <2>1. PICK S, todo : w' = [w EXCEPT !.todo = todo, !.a.rules = S] /\ pc' \in {"obsolete-pools", "listener"}
    BY <1>10 DEF DropRules, Continue
  <2> QED
    BY <1>1, <1>3, <2>1 DEF ListenerCalls, Work, Annotations
<1>11. CASE DeleteObsoletePools
  <2>1. PICK S : w' = [w EXCEPT !.a = [w.a EXCEPT !.lbs = WithoutLegacy(w.a), !.pools = S]]
                 /\ pc' = "obsolete-listeners"
    BY <1>11 DEF DeleteObsoletePools, Continue
  <2> QED
    BY <1>1, <1>3, <1>11, <2>1 DEF ListenerCalls, Work, Annotations
<1>12. CASE DeleteObsoleteListeners
  <2>1. PICK S, R : w' = [w EXCEPT !.left = w.members, !.a = [w.a EXCEPT !.vs = S, !.rules = R]]
                    /\ pc' = "persist"
    BY <1>12 DEF DeleteObsoleteListeners, Continue
  <2> QED
    BY <1>1, <1>3, <1>12, <2>1 DEF ListenerCalls, Work, Annotations
<1>13. CASE PersistMember
  <2>1. PICK m : /\ w' = [w EXCEPT !.left = @ \ {m}, !.at = m, !.base[m] = NoAnnotations]
                 /\ pc' = "publish"
    BY <1>13 DEF PersistMember
  <2> QED
    BY <1>1, <1>3, <1>13, <2>1 DEF ListenerCalls, Work
<1>14. CASE PublishMember
  <2>1. w' = w
    BY <1>2, <1>14 DEF PublishMember
  <2>2. pc' \notin {"finalizer", "lb"} \cup ListenerCalls
    BY <1>1, <1>14 DEF PublishMember, AfterPersist, Work, Whys, ListenerCalls
  <2> QED
    BY <1>3, <2>1, <2>2
<1>15. CASE RefuseListener \/ StripObserved \/ RemoveFinalizer \/ CleanChildren \/ CleanListener
            \/ CleanParents \/ PassFails
  BY <1>2, <1>5, <1>15 DEF RefuseListener, StripObserved, RemoveFinalizer, EndPass, CleanChildren,
     CleanListener, CleanParents, PassFails, Continue
<1> QED
  BY <1>4, <1>6, <1>7, <1>8, <1>9, <1>10, <1>11, <1>12, <1>13, <1>14, <1>15 DEF Worker, EnsureGroup
=============================================================================

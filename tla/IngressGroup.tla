---------------------------- MODULE IngressGroup ----------------------------
(* svc-lb-bridge: the reconciler of Ingresses of class f5                    *)
(* (cmd/svc-lb-bridge/ingress_controller.go, pkg/ingress) with the           *)
(* non-aggregate path of the stack deployer: listeners, pools and routing    *)
(* rules of a group of Ingresses (one vip-group annotation) on one shared    *)
(* LBService.  Every pass builds the stack of a whole group, starts from the *)
(* ids recorded on the one Ingress the event was about, and at its end       *)
(* records the result on every member in turn.                               *)
(*                                                                           *)
(* One worker; `pc` is the call it makes next.  Nothing is recorded before   *)
(* the end of a pass, so a call that fails after CMP carried it out is a     *)
(* pass that fails at the next call.                                         *)
(*                                                                           *)
(* Abstractions.  Each Ingress has one host, with one path to each of its    *)
(* backends.  All members carry the same frontend annotations, so the        *)
(* digest recorded with a listener differs only under another name.  Pools   *)
(* have no members: group_builder.go drops the compute id of every node, and *)
(* with one ready node each pass fails at poolMemberSpecs.  An Ingress with  *)
(* a TLS section has a Secret of its own, which is there and valid; of its   *)
(* content the model has the version.  Monitors, failed LBServices and VIPs  *)
(* (ServiceBridge has them) and the 409 of a taken name are left out.        *)
(*                                                                           *)
(* A pass reads Ingresses and Secrets from the informer's cache, the         *)
(* manager's client (main.go): with StaleReads it may lag behind the API     *)
(* server, object by object.  Without, a pass begins only once the cache has *)
(* caught up, and what it reads after that is as the API server has it; the  *)
(* code does not promise that.  Writes are merge patches against what was    *)
(* read.                                                                     *)
EXTENDS Naturals, FiniteSets

CONSTANTS Ingresses,    \* names, as numbers in their order
          Groups,       \* vip-group values; "" is none
          FirstGroup,   \* that of the Ingresses there at the start
          Backends,     \* [Ingresses -> SUBSET Nat], the backend Services of each
          TLS,          \* the Ingresses born with a TLS section
          Editors,      \* those whose user adds and removes the TLS section
          Versions,     \* of a TLS Secret's content, from 1 on
          Moves,        \* <<from, to>>: the changes of vip-group the user makes
          Faults,       \* what may go wrong, at most once in all
          StaleReads,   \* whether the informer's cache may lag behind
          MaxEvents,    \* bound on the user's changes and the faults together
          LbIds, VipIds, VsIds, ChildIds, CertIds   \* provider ids; ChildIds for pools and rules

VARIABLES ing,      \* Ingress objects on the API server
          ann,      \* the ids and the observed graph annotated on each
          status,   \* the VIP in status.loadBalancer.ingress
          queue, pc, w, events, fault,
          lbs, vips, vss,
          ingCache, annCache   \* the informer's copies of ing and ann
vars == <<ing, ann, status, queue, pc, w, events, fault, lbs, vips, vss, ingCache, annCache>>
cacheVars == <<ingCache, annCache>>
cmpVars == <<lbs, vips, vss>>

NoId == 0
Protocols == {"http", "https"}
FaultKinds == {"failed-call", "late-lb", "late-listener", "listener-lost"}

ASSUME IngressAssumption ==
    /\ Ingresses \subseteq Nat \ {0} /\ Groups \subseteq STRING /\ FirstGroup \in Groups
    /\ Backends \in [Ingresses -> (SUBSET Nat) \ {{}}]   \* validateIngressShape
    /\ TLS \subseteq Ingresses /\ Editors \subseteq Ingresses
    /\ Versions \subseteq Nat \ {0} /\ 1 \in Versions
    /\ Moves \subseteq Groups \X Groups
    /\ Faults \subseteq FaultKinds /\ MaxEvents \in Nat /\ StaleReads \in BOOLEAN
    /\ \A S \in {LbIds, VipIds, VsIds, ChildIds, CertIds} : S \subseteq Nat \ {NoId}

(* groupIdentity: a group's name, or an ungrouped Ingress's own.             *)
Identity(g, i) == <<g, IF g = "" THEN i ELSE 0>>
Identities == {Identity(g, i) : g \in Groups, i \in Ingresses}
Legacy == <<"", 0>>      \* nobody's: Ingresses are numbered from 1
Names == Identities \X Protocols

(* With an Ingress goes the version of the Secret its TLS section names.     *)
Object == [there : BOOLEAN, del : BOOLEAN, fin : BOOLEAN, group : Groups,
           tls : BOOLEAN, secret : Versions]
Absent == [there |-> FALSE, del |-> FALSE, fin |-> FALSE, group |-> FirstGroup,
           tls |-> FALSE, secret |-> 1]

(* The scalar ids and the graph.  The scalar virtual-server id is that of    *)
(* the http listener; a legacy/vip or legacy/virtual-server entry that       *)
(* outlives its alias names what CMP no longer has.                          *)
Annotations ==
    [lb : LbIds \cup {NoId}, vip : VipIds \cup {NoId},
     lbs   : SUBSET [key : Identities \cup {Legacy}, id : LbIds],
     vs    : SUBSET [name : Names, id : VsIds],
     pools : SUBSET [vs : Names, pool : Nat, id : ChildIds],
     rules : SUBSET [vs : Names, id : ChildIds],
     certs : SUBSET [name : Ingresses, id : CertIds]]
NoAnnotations ==
    [lb |-> NoId, vip |-> NoId, lbs |-> {}, vs |-> {}, pools |-> {}, rules |-> {},
     certs |-> {}]

LBStatus == {"absent", "pending", "ready", "deleting"}
NoLB == [st |-> "absent", name |-> Legacy, certs |-> {}]
NoVS == [st |-> "absent", lb |-> NoId, vip |-> NoId, name |-> <<Legacy, "http">>,
         pools |-> {}, rules |-> {}, bound |-> {}]
Routes(S) == UNION {{i} \X Backends[i] : i \in S}
Pool == [name : Nat, id : ChildIds]
Rule == [host : Ingresses, pool : ChildIds, id : ChildIds]
(* A certificate is named for the Secret; version 0 is none at all.          *)
NoMaterial == 0
Certificate == [name : Ingresses, version : Versions \cup {NoMaterial}, id : CertIds]

LBRecord == [st : LBStatus, name : Identities \cup {Legacy}, certs : SUBSET Certificate]
VSRecord ==
    [st : LBStatus, lb : LbIds \cup {NoId}, vip : VipIds \cup {NoId},
     name : Names \cup {<<Legacy, "http">>},
     pools : SUBSET Pool, rules : SUBSET Rule, bound : SUBSET CertIds]

Whys == {"ensure", "leave", "delete"}
Work ==
    [on : Ingresses \cup {0}, why : Whys, owner : Identities \cup {Legacy},
     members : SUBSET Ingresses, a : Annotations,
     base : [Ingresses -> Annotations],   \* of each member still to be patched, as read
     tls : SUBSET Ingresses, material : [Ingresses -> Versions \cup {NoMaterial}],
     todo : SUBSET Protocols, vs : VsIds \cup {NoId}, certs : SUBSET Ingresses,
     pools : SUBSET UNION {Backends[i] : i \in Ingresses}, routes : SUBSET Routes(Ingresses),
     left : SUBSET Ingresses, at : Ingresses \cup {0}, shared : BOOLEAN]
IdleWork ==
    [on |-> 0, why |-> "ensure", owner |-> Legacy, members |-> {}, a |-> NoAnnotations,
     base |-> [i \in Ingresses |-> NoAnnotations],
     tls |-> {}, material |-> [i \in Ingresses |-> NoMaterial],
     todo |-> {}, vs |-> NoId, certs |-> {}, pools |-> {}, routes |-> {},
     left |-> {}, at |-> 0, shared |-> FALSE]
PCs == {"idle", "finalizer", "lb", "vip", "listener", "cert", "cert-unbind", "cert-delete",
        "pool", "rule", "drop-rules", "obsolete-pools", "obsolete-listeners", "persist", "publish", "strip", "children", "clean", "unfinalize"}

CacheTypeOK == ingCache \in [Ingresses -> Object] /\ annCache \in [Ingresses -> Annotations]
StateTypeOK ==
    /\ ing \in [Ingresses -> Object]
    /\ ann \in [Ingresses -> Annotations]
    /\ status \in [Ingresses -> VipIds \cup {NoId}]
    /\ queue \subseteq Ingresses
    /\ pc \in PCs
    /\ w \in Work /\ w.certs \subseteq w.tls
    /\ pc # "idle" => w.on \in Ingresses
    /\ events \in 0 .. MaxEvents /\ fault \in FaultKinds \cup {"none"}
    /\ lbs \in [LbIds -> LBRecord]
    /\ vips \in [VipIds -> LbIds \cup {NoId}]
    /\ vss \in [VsIds -> VSRecord]
TypeOK == StateTypeOK /\ CacheTypeOK

NewObject(i, g) == [Absent EXCEPT !.there = TRUE, !.group = g, !.tls = i \in TLS]
Init ==
    /\ \E born \in SUBSET Ingresses :
          ing = [i \in Ingresses |-> IF i \in born THEN NewObject(i, FirstGroup) ELSE Absent]
    /\ ann = [i \in Ingresses |-> NoAnnotations]
    /\ status = [i \in Ingresses |-> NoId]
    /\ queue = {i \in Ingresses : ing[i].there}
    /\ pc = "idle" /\ w = IdleWork /\ events = 0 /\ fault = "none"
    /\ lbs = [l \in LbIds |-> NoLB]
    /\ vips = [v \in VipIds |-> NoId]
    /\ vss = [v \in VsIds |-> NoVS]
    /\ ingCache = ing /\ annCache = ann

(* What a pass reads.                                                        *)
IngRead == IF StaleReads THEN ingCache ELSE ing
AnnRead == IF StaleReads THEN annCache ELSE ann

-----------------------------------------------------------------------------
(* Ids: the lowest one nobody names, so that a new resource is not taken for *)
(* one that is recorded somewhere.                                           *)
Recorded == {ann[i] : i \in Ingresses} \cup {AnnRead[i] : i \in Ingresses}
              \cup {w.base[m] : m \in w.left} \cup {w.a}
IsNext(S, x) == x \in S /\ \A y \in S : x <= y
FreeLBs == {l \in LbIds : /\ lbs[l].st = "absent"
                          /\ \A a \in Recorded : a.lb # l /\ \A e \in a.lbs : e.id # l}
FreeVIPs == {v \in VipIds : vips[v] = NoId /\ (\A a \in Recorded : a.vip # v)
                              /\ \A i \in Ingresses : status[i] # v}
FreeVSs == {v \in VsIds : vss[v].st = "absent" /\ \A a \in Recorded : \A e \in a.vs : e.id # v}
-----------------------------------------------------------------------------
(* Start of a pass, which I, the Ingresses it reads, decides.                *)
Live(i) == ing[i].there /\ ~ing[i].del
LiveIn(I, g) == {i \in Ingresses : I[i].there /\ ~I[i].del /\ I[i].group = g}
(* ResolveGroup: an ungrouped Ingress is a group of one.                     *)
GroupMembers(I, i) == IF I[i].group = "" THEN {i} ELSE LiveIn(I, I[i].group)
(* remainingGroupMembers, of a departing Ingress.                            *)
(* Mutant of Remaining: the departing member's own graph is deleted. *)
NoneRemaining(i) == {}
Remaining(i) ==
    IF IngRead[i].group = "" THEN {} ELSE LiveIn(IngRead, IngRead[i].group) \ {i}
(* observedIngressGroup: the group of any entry of the LBServices bucket.    *)
ObservedGroups(i) ==
    LET own == {e \in AnnRead[i].lbs : e.key # Legacy} IN
    IF own = {} THEN {""} ELSE {e.key[1] : e \in own}
(* Mutant of Left: the group an Ingress was in is not compared. *)
NeverLeft(i, g) == FALSE
Left(i, g) == g # "" /\ g # IngRead[i].group

(* One thing may go wrong in a behaviour.                                    *)
Event == events < MaxEvents /\ events' = events + 1
Spend(f) == f \in Faults /\ fault = "none" /\ fault' = f /\ Event
NoEvent == UNCHANGED <<events, fault>>

Continue(next, work) ==
    pc' = next /\ w' = work /\ UNCHANGED <<ing, ann, status, queue, events, fault>>
(* The Ingress is queued again: by an event of its own or because the pass   *)
(* ended early, in an error or pending.                                      *)
(* Mutant of EndPass: the worker forgets a pass that ended early. *)
ForgetPass == pc' = "idle" /\ w' = IdleWork /\ UNCHANGED queue
EndPass == pc' = "idle" /\ w' = IdleWork /\ queue' = queue \cup {w.on}
Return == EndPass /\ UNCHANGED <<ing, ann, status>>

(* A managed Ingress is due at any time: listManagedIngressRequests on a     *)
(* node event, and the periodic resync.                                      *)
Due(i) == i \in queue \/ (IngRead[i].there /\ AnnRead[i].lb # NoId)
Dequeue(i) == /\ pc = "idle" /\ Due(i) /\ queue' = queue \ {i}
              /\ ~StaleReads => <<ingCache, annCache>> = <<ing, ann>>
(* The TLS Secrets are read (populateTLSCertificates) in the pass that       *)
(* converges the Ingress's own group and in no other.                        *)
Start(i, why, next, owner, members) ==
    /\ Dequeue(i)
    /\ pc' = next
    /\ w' = [IdleWork EXCEPT !.on = i, !.why = why, !.owner = owner, !.members = members,
                             !.tls = {j \in members : IngRead[j].tls},
                             !.material =
                                 [j \in Ingresses |-> IF why = "ensure" /\ j \in members
                                                      THEN IngRead[j].secret ELSE NoMaterial],
                             !.base =
                                 [j \in Ingresses |-> IF j \in members THEN AnnRead[j]
                                                      ELSE NoAnnotations],
                             !.a = AnnRead[i], !.left = members]
    /\ UNCHANGED <<ing, ann, status, events, fault, lbs, vips, vss>>

Ignore(i) ==
    /\ Dequeue(i) /\ ~IngRead[i].there
    /\ UNCHANGED <<ing, ann, status, pc, w, events, fault, lbs, vips, vss>>

BeginEnsure(i) ==
    /\ IngRead[i].there /\ ~IngRead[i].del
    /\ \E g \in ObservedGroups(i) : ~Left(i, g)
    /\ Start(i, "ensure", IF IngRead[i].fin THEN "lb" ELSE "finalizer",
             Identity(IngRead[i].group, i), GroupMembers(IngRead, i))

(* The vip-group has changed: first the group that was left converges.       *)
BeginLeave(i) ==
    /\ IngRead[i].there /\ ~IngRead[i].del
    /\ \E g \in ObservedGroups(i) :
          /\ Left(i, g)
          /\ Start(i, "leave", IF LiveIn(IngRead, g) \ {i} = {} THEN "strip" ELSE "lb",
                   Identity(g, i), LiveIn(IngRead, g) \ {i})

BeginDepart(i) ==
    /\ IngRead[i].there /\ IngRead[i].del /\ Remaining(i) # {}
    /\ Start(i, "delete", "lb", Identity(IngRead[i].group, i), Remaining(i))

(* isLBServiceShared, which lists the Ingresses from the cache as well.      *)
SharesLB(j, i, l) ==
    /\ j # i /\ IngRead[j].there /\ IngRead[j].fin
    /\ \E e \in AnnRead[j].lbs : e.id = l /\ e.key # Legacy /\ e.key[1] = IngRead[i].group
CleanupLBs(a) == ({a.lb} \cup {e.id : e \in a.lbs}) \ {NoId}
BeginCleanup(i) ==
    /\ Dequeue(i)
    /\ IngRead[i].there /\ IngRead[i].del /\ Remaining(i) = {}
    /\ pc' = IF CleanupLBs(AnnRead[i]) = {} THEN "unfinalize" ELSE "children"
    /\ w' = [IdleWork EXCEPT !.on = i, !.why = "delete", !.a = AnnRead[i],
                             !.shared = \E j \in Ingresses : SharesLB(j, i, AnnRead[i].lb)]
    /\ UNCHANGED <<ing, ann, status, events, fault, lbs, vips, vss>>

(* The pass goes on with the object the API server answers with.             *)
EnsureFinalizer ==
    /\ pc = "finalizer" /\ ing[w.on].there
    /\ ing' = [ing EXCEPT ![w.on].fin = TRUE]
    /\ queue' = queue \cup {w.on}
    /\ pc' = "lb" /\ w' = [w EXCEPT !.a = ann[w.on]]
    /\ UNCHANGED <<ann, status, events, fault, lbs, vips, vss>>

-----------------------------------------------------------------------------
(* EnsureStack: LBService, VIP and listeners.                                *)
LBVisible(l) == l # NoId /\ lbs[l].st # "absent"
UsableLBs ==
    IF LBVisible(w.a.lb) THEN {w.a.lb}
    ELSE {l \in LbIds : lbs[l].st # "absent" /\ lbs[l].name = w.owner}

(* EnsureGraph mirrors the recorded id under a legacy key, then the id in    *)
(* hand is entered under the stack's own key.                                *)
WithLegacy(a) ==
    IF a.lb = NoId \/ \E e \in a.lbs : e.key = Legacy THEN a.lbs
    ELSE a.lbs \cup {[key |-> Legacy, id |-> a.lb]}
(* Mutant of WithLB: the entry is made before the scalar is set. *)
EntryBeforeScalar(a, l) ==
    [a EXCEPT !.lb = l, !.lbs = {e \in WithLegacy(a) : e.key # w.owner}
                                  \cup {[key |-> w.owner, id |-> a.lb]}]
WithLB(a, l) ==
    [a EXCEPT !.lb = l, !.lbs = {e \in WithLegacy(a) : e.key # w.owner}
                                  \cup {[key |-> w.owner, id |-> l]}]
GetLB ==
    /\ pc = "lb"
    /\ \E l \in UsableLBs :
          IF lbs[l].st = "ready" THEN Continue("vip", [w EXCEPT !.a = WithLB(@, l)])
          ELSE Return /\ NoEvent
    /\ UNCHANGED cmpVars

CreateLB ==
    /\ pc = "lb" /\ UsableLBs = {}
    /\ \E l \in LbIds, st \in {"ready", "pending"} :
          /\ IsNext(FreeLBs, l)
          /\ lbs' = [lbs EXCEPT ![l] = [NoLB EXCEPT !.st = st, !.name = w.owner]]
          /\ IF st = "ready" THEN Continue("vip", [w EXCEPT !.a = WithLB(@, l)])
             ELSE Return /\ Spend("late-lb")
    /\ UNCHANGED <<vips, vss>>

NeededBy(tls) == {"http"} \cup (IF tls # {} THEN {"https"} ELSE {})
UseVIP(v) == Continue("listener", [w EXCEPT !.a.vip = v, !.todo = NeededBy(w.tls)])
HasVIP == w.a.vip # NoId /\ vips[w.a.vip] = w.a.lb
KeepVIP == pc = "vip" /\ HasVIP /\ UseVIP(w.a.vip) /\ UNCHANGED cmpVars
CreateVIP ==
    /\ pc = "vip" /\ ~HasVIP
    /\ \E v \in VipIds : /\ IsNext(FreeVIPs, v)
                         /\ vips' = [vips EXCEPT ![v] = w.a.lb]
                         /\ UseVIP(v)
    /\ UNCHANGED <<lbs, vss>>

(* VirtualServerManager.Ensure: a listener is looked for under its logical   *)
(* name, and if the stack has one listener only, under the scalar id.        *)
Proto == IF "http" \in w.todo THEN "http" ELSE "https"
Name == <<w.owner, Proto>>
Listed(v) == vss[v].st # "absent" /\ vss[v].lb = w.a.lb
RecordedAs(n) == {e.id : e \in {e \in w.a.vs : e.name = n}}
Current ==
    IF RecordedAs(Name) # {} THEN RecordedAs(Name)
    ELSE IF NeededBy(w.tls) = {"http"} THEN {e.id : e \in {e \in w.a.vs : e.name[2] = "http"}}
    ELSE {}
Found == {v \in Current : Listed(v)}
FrontendTaken ==
    \E v \in VsIds \ Current : /\ Listed(v) /\ vss[v].name # Name
                               /\ vss[v].name[2] = Proto /\ vss[v].vip = w.a.vip
Sound(v) == vss[v].st = "ready" /\ vss[v].vip = w.a.vip
WithVS(v) == [w EXCEPT !.vs = v, !.certs = w.tls, !.routes = Routes(w.members),
                       !.pools = UNION {Backends[i] : i \in w.members},
                       !.a.vs = {e \in @ : e.name # Name} \cup {[name |-> Name, id |-> v]}]

AfterListener == IF Proto = "https" THEN "cert" ELSE "pool"
KeepListener ==
    /\ pc = "listener" /\ ~FrontendTaken
    /\ \E v \in Found \cap RecordedAs(Name) : Sound(v) /\ Continue(AfterListener, WithVS(v))
    /\ UNCHANGED cmpVars

(* A listener that cannot be used ends the pass: it is not ready, another    *)
(* one has the frontend, or it was recorded under another name, and then it  *)
(* is deleted.                                                               *)
RefuseListener ==
    /\ pc = "listener"
    /\ FrontendTaken \/ \E v \in Found : ~Sound(v) \/ v \notin RecordedAs(Name)
    /\ vss' = [v \in VsIds |-> IF v \in Found /\ Sound(v) /\ ~FrontendTaken
                               THEN [vss[v] EXCEPT !.st = "deleting"] ELSE vss[v]]
    /\ Return
    /\ UNCHANGED <<events, fault, lbs, vips>>

(* A listener CMP is late with is not recorded.                              *)
CreateListener ==
    /\ pc = "listener" /\ ~FrontendTaken /\ Found = {}
    /\ \E v \in VsIds, st \in {"ready", "pending"} :
          /\ IsNext(FreeVSs, v)
          /\ vss' = [vss EXCEPT ![v] = [NoVS EXCEPT !.st = st, !.lb = w.a.lb, !.vip = w.a.vip,
                                                    !.name = Name]]
          /\ IF st = "ready" THEN Continue(AfterListener, WithVS(v))
             ELSE Return /\ Spend("late-listener")
    /\ UNCHANGED <<lbs, vips>>

-----------------------------------------------------------------------------
(* CertificateManager.Ensure, for the https listener.  One of the LBService's*)
(* certificates that has the Secret's name is taken (that it might first be  *)
(* found by its fingerprint comes to the same, since there is one per name), *)
(* whatever it holds, else one is uploaded.  A 404 to a bind is no error.    *)
CertNow == CHOOSE i \in w.certs : TRUE
(* Mutant of Reusable: only a recorded certificate is taken. *)
ReusableRecorded(i) == {c \in lbs[w.a.lb].certs : [name |-> i, id |-> c.id] \in w.a.certs}
Reusable(i) == {c \in lbs[w.a.lb].certs : c.name = i}
Obsolete == {e \in w.a.certs : e.name \notin w.tls}
AfterCertificates(obsolete) == IF obsolete = {} THEN "pool" ELSE "cert-unbind"
FreeCerts ==
    {c \in CertIds : /\ \A e \in lbs[w.a.lb].certs : e.id # c
                     /\ \A a \in Recorded : \A e \in a.certs : e.id # c}
Entered(c) == {e \in w.a.certs : e.name # CertNow} \cup {[name |-> CertNow, id |-> c]}
Bind(c) ==
    vss' = IF Listed(w.vs) /\ \E e \in lbs[w.a.lb].certs : e.id = c
           THEN [vss EXCEPT ![w.vs].bound = @ \cup {c}] ELSE vss

UploadCertificate ==
    /\ pc = "cert" /\ Reusable(CertNow) = {}
    /\ \E c \in CertIds :
          /\ IsNext(FreeCerts, c)
          /\ lbs' = [lbs EXCEPT ![w.a.lb].certs = @ \cup
                       {[name |-> CertNow, version |-> w.material[CertNow], id |-> c]}]
          /\ Continue("cert", [w EXCEPT !.a.certs = Entered(c)])
    /\ UNCHANGED <<vips, vss>>
BindCertificate ==
    /\ pc = "cert"
    /\ \E c \in Reusable(CertNow) :
          /\ Bind(c.id)
          /\ Continue(IF w.certs # {CertNow} THEN "cert" ELSE AfterCertificates(Obsolete),
                      [w EXCEPT !.certs = @ \ {CertNow}, !.a.certs = Entered(c.id)])
    /\ UNCHANGED <<lbs, vips>>

(* A certificate recorded and no longer wanted is deleted; the request that  *)
(* shall unbind it first names it, and is then the one that binds.           *)
CertGone == CHOOSE e \in Obsolete : TRUE
UnbindCertificate ==
    /\ pc = "cert-unbind"
    /\ Bind(CertGone.id)
    /\ Continue("cert-delete", w)
    /\ UNCHANGED <<lbs, vips>>
DeleteCertificate ==
    /\ pc = "cert-delete"
    /\ lbs' = [lbs EXCEPT ![w.a.lb].certs = {c \in @ : c.id # CertGone.id}]
    /\ vss' = [v \in VsIds |-> IF vss[v].lb # w.a.lb THEN vss[v]
                               ELSE [vss[v] EXCEPT !.bound = @ \ {CertGone.id}]]
    /\ Continue(AfterCertificates(Obsolete \ {CertGone}), [w EXCEPT !.a.certs = @ \ {CertGone}])
    /\ UNCHANGED vips

-----------------------------------------------------------------------------
(* PoolManager.EnsureOwned, in an order on which nothing depends: a pool is  *)
(* ours only if its id is recorded, never because of its name.               *)
OurPools(b) == {e.id : e \in {e \in w.a.pools : e.vs = Name /\ e.pool = b}}
(* An id of a pool or rule only says something under its listener.           *)
FreeChildren ==
    {c \in ChildIds : /\ \A e \in vss[w.vs].pools \cup vss[w.vs].rules : e.id # c
                      /\ \A r \in vss[w.vs].rules : r.pool # c
                      /\ \A a \in Recorded : \A e \in a.pools \cup a.rules : e.vs = Name => e.id # c}
PoolNow == CHOOSE b \in w.pools : TRUE
HasPool == OurPools(PoolNow) \cap {e.id : e \in vss[w.vs].pools} # {}
PoolTaken == ~HasPool /\ \E e \in vss[w.vs].pools : e.name = PoolNow
NextPool(a) ==
    Continue(IF w.pools = {PoolNow} THEN "rule" ELSE "pool",
             [w EXCEPT !.pools = @ \ {PoolNow}, !.a = a])

KeepPool ==
    /\ pc = "pool" /\ Listed(w.vs) /\ HasPool
    /\ NextPool(w.a)
    /\ UNCHANGED cmpVars
CreatePool ==
    /\ pc = "pool" /\ Listed(w.vs) /\ ~HasPool /\ ~PoolTaken
    /\ \E c \in ChildIds :
          /\ IsNext(FreeChildren, c)
          /\ vss' = [vss EXCEPT ![w.vs].pools = @ \cup {[name |-> PoolNow, id |-> c]}]
          /\ NextPool([w.a EXCEPT !.pools = {e \in @ : e.vs # Name \/ e.pool # PoolNow}
                                              \cup {[vs |-> Name, pool |-> PoolNow, id |-> c]}])
    /\ UNCHANGED <<lbs, vips>>

(* RoutingRuleManager.EnsureOwned.                                           *)
RouteNow == CHOOSE r \in w.routes : TRUE
PoolOf(b) == CHOOSE c \in OurPools(b) : TRUE
OurRules == {e.id : e \in {e \in w.a.rules : e.vs = Name}}
RulesNow == {r \in vss[w.vs].rules : r.host = RouteNow[1] /\ r.pool = PoolOf(RouteNow[2])}
RuleTaken == \E r \in RulesNow : r.id \notin OurRules
NextRule(a) ==
    Continue(IF w.routes = {RouteNow} THEN "drop-rules" ELSE "rule",
             [w EXCEPT !.routes = @ \ {RouteNow}, !.a = a])
KeepRule ==
    /\ pc = "rule" /\ Listed(w.vs) /\ RulesNow # {} /\ ~RuleTaken
    /\ NextRule(w.a)
    /\ UNCHANGED cmpVars
CreateRule ==
    /\ pc = "rule" /\ Listed(w.vs) /\ RulesNow = {}
    /\ \E c \in ChildIds :
          /\ IsNext(FreeChildren, c)
          /\ vss' = [vss EXCEPT ![w.vs].rules =
                        @ \cup {[host |-> RouteNow[1], pool |-> PoolOf(RouteNow[2]), id |-> c]}]
          /\ NextRule([w.a EXCEPT !.rules = @ \cup {[vs |-> Name, id |-> c]}])
    /\ UNCHANGED <<lbs, vips>>

(* Our rules nobody wants are deleted and the exact set is recorded.         *)
Wanted(r) == \E t \in Routes(w.members) : r.host = t[1] /\ r.pool = PoolOf(t[2])
DropRules ==
    /\ pc = "drop-rules" /\ Listed(w.vs)
    /\ vss' = [vss EXCEPT ![w.vs].rules = {r \in @ : r.id \in OurRules => Wanted(r)}]
    /\ LET kept == {r.id : r \in {r \in vss[w.vs].rules : r.id \in OurRules /\ Wanted(r)}} IN
       Continue(IF w.todo = {Proto} THEN "obsolete-pools" ELSE "listener",
                [w EXCEPT !.todo = @ \ {Proto},
                          !.a.rules = {e \in @ : e.vs # Name \/ e.id \in kept}])
    /\ UNCHANGED <<lbs, vips>>

(* What is recorded and no longer in the stack: the alias of the LBService,  *)
(* then the pools of every listener, and last the listeners with their rules.*)
StackNames == {<<w.owner, p>> : p \in NeededBy(w.tls)}
(* Mutant of InStack: only the backends of the Ingress at hand are needed. *)
InOwnStack(e) == e.vs \in StackNames /\ \E t \in Routes({w.on}) : t[2] = e.pool
InStack(e) == e.vs \in StackNames /\ \E t \in Routes(w.members) : t[2] = e.pool
NameOf(v) == {e.name : e \in {e \in w.a.vs : e.id = v}}
WithoutLegacy(a) ==
    {e \in a.lbs : e.key = Legacy => \A f \in a.lbs : f.key = Legacy \/ f.id # e.id}
DeleteObsoletePools ==
    /\ pc = "obsolete-pools"
    /\ LET gone == {e \in w.a.pools : ~InStack(e)} IN
       /\ vss' = [v \in VsIds |-> [vss[v] EXCEPT !.pools =
                     {p \in @ : \A e \in gone : e.vs \in NameOf(v) => e.id # p.id}]]
       /\ Continue("obsolete-listeners",
                   [w EXCEPT !.a = [w.a EXCEPT !.lbs = WithoutLegacy(w.a), !.pools = @ \ gone]])
    /\ UNCHANGED <<lbs, vips>>
DeleteObsoleteListeners ==
    /\ pc = "obsolete-listeners"
    /\ vss' = [v \in VsIds |->
                  IF Listed(v) /\ \E n \in NameOf(v) : n \notin StackNames
                  THEN [vss[v] EXCEPT !.st = "deleting",
                          !.rules = {r \in @ : \A n \in NameOf(v) : [vs |-> n, id |-> r.id] \notin w.a.rules}]
                  ELSE vss[v]]
    /\ Continue("persist",
         [w EXCEPT !.left = w.members,
                   !.a = [w.a EXCEPT !.vs = {e \in @ : e.name \in StackNames},
                                   !.rules = {e \in @ : e.vs \in StackNames}]])
    /\ UNCHANGED <<lbs, vips>>

-----------------------------------------------------------------------------
(* persistGroupObserved: annotations, then status, one member after another. *)
(* Of the annotations those are sent that differ from what was read; the     *)
(* graph is one of them.                                                     *)
Patched(new, read, old) ==
    LET graph == IF [new EXCEPT !.lb = read.lb, !.vip = read.vip] = read THEN old ELSE new IN
    [graph EXCEPT !.lb = IF new.lb = read.lb THEN old.lb ELSE new.lb,
                  !.vip = IF new.vip = read.vip THEN old.vip ELSE new.vip]
PersistMember ==
    /\ pc = "persist"
    /\ \E m \in w.left :
          /\ ing[m].there
          /\ ann' = [ann EXCEPT ![m] = Patched(w.a, w.base[m], @)]
          /\ queue' = IF ann' # ann THEN queue \cup {m} ELSE queue
          /\ w' = [w EXCEPT !.left = @ \ {m}, !.at = m, !.base[m] = NoAnnotations]
    /\ pc' = "publish"
    /\ UNCHANGED <<ing, status, events, fault, lbs, vips, vss>>

AfterPersist == CASE w.why = "ensure" -> "idle" [] w.why = "leave" -> "strip"
                  [] w.why = "delete" -> "unfinalize"
PublishMember ==
    /\ pc = "publish" /\ ing[w.at].there
    /\ status' = [status EXCEPT ![w.at] = w.a.vip]
    /\ pc' = IF w.left # {} THEN "persist" ELSE AfterPersist
    /\ w' = IF pc' = "idle" THEN IdleWork ELSE w
    /\ UNCHANGED <<ing, ann, queue, events, fault, lbs, vips, vss>>

(* The new group must not adopt the ids of the old one.                      *)
StripObserved ==
    /\ pc = "strip" /\ ing[w.on].there
    /\ ann' = [ann EXCEPT ![w.on] = NoAnnotations]
    /\ EndPass
    /\ UNCHANGED <<ing, status, events, fault, lbs, vips, vss>>

(* An Ingress born again under the name only loses its finalizer.            *)
RemoveFinalizer ==
    /\ pc = "unfinalize" /\ ing[w.on].there
    /\ IF ing[w.on].del
       THEN /\ ing' = [ing EXCEPT ![w.on] = Absent]
            /\ ann' = [ann EXCEPT ![w.on] = NoAnnotations]
            /\ status' = [status EXCEPT ![w.on] = NoId]
       ELSE ing' = [ing EXCEPT ![w.on].fin = FALSE] /\ UNCHANGED <<ann, status>>
    /\ EndPass
    /\ UNCHANGED <<events, fault, lbs, vips, vss>>

(* CleanupStack, for the last member: rules and pools, then the listeners    *)
(* one by one, each until CMP no longer shows it, then VIP and LBService.    *)
Ambiguous == Cardinality(CleanupLBs(w.a)) > 1
CleanupLB == CHOOSE l \in CleanupLBs(w.a) : TRUE
CleanChildren ==
    /\ pc = "children" /\ ~Ambiguous
    /\ vss' = [v \in VsIds |->
         [vss[v] EXCEPT
            !.rules = {r \in @ : \A n \in NameOf(v) : [vs |-> n, id |-> r.id] \notin w.a.rules},
            !.pools = {p \in @ : \A e \in w.a.pools : e.vs \in NameOf(v) => e.id # p.id}]]
    /\ Continue("clean", w)
    /\ UNCHANGED <<lbs, vips>>
Shown == {e.id : e \in {e \in w.a.vs : vss[e.id].st # "absent" /\ vss[e.id].lb = CleanupLB}}
CleanListener ==
    /\ pc = "clean"
    /\ \E v \in Shown : vss' = [vss EXCEPT ![v].st = "deleting"]
    /\ Return
    /\ UNCHANGED <<events, fault, lbs, vips>>
(* Mutant of CleanParents: a deletion CMP has accepted counts as done. *)
AssumeParentsGone ==
    /\ pc = "clean" /\ Shown = {}
    /\ Continue("unfinalize", w)
    /\ IF w.shared \/ lbs[CleanupLB].st = "absent"
       THEN UNCHANGED <<lbs, vips>>
       ELSE /\ lbs' = [lbs EXCEPT ![CleanupLB].st = "deleting"]
            /\ vips' = [v \in VipIds |-> IF v = w.a.vip THEN NoId ELSE vips[v]]
    /\ UNCHANGED vss
CleanParents ==
    /\ pc = "clean" /\ Shown = {}
    /\ IF w.shared \/ lbs[CleanupLB].st = "absent"
       THEN Continue("unfinalize", w) /\ UNCHANGED <<lbs, vips>>
       ELSE /\ lbs' = [lbs EXCEPT ![CleanupLB].st = "deleting"]
            /\ vips' = [v \in VipIds |-> IF v = w.a.vip THEN NoId ELSE vips[v]]
            /\ Return /\ NoEvent
    /\ UNCHANGED vss

(* An error return: what the state forces, or one failed call, as the one    *)
(* that CMP's refusal of an upload without a certificate would be.           *)
Refused ==
    \/ pc \in {"finalizer", "strip", "unfinalize"} /\ ~ing[w.on].there
    \/ pc \in {"pool", "rule", "drop-rules"} /\ ~Listed(w.vs)
    \/ pc = "pool" /\ PoolTaken
    \/ pc = "rule" /\ RuleTaken
    \/ pc = "persist" /\ \E m \in w.left : ~ing[m].there
    \/ pc = "publish" /\ ~ing[w.at].there
    \/ pc = "children" /\ Ambiguous
PassFails ==
    /\ pc # "idle" /\ Return
    /\ IF Refused THEN NoEvent ELSE Spend("failed-call")
    /\ UNCHANGED cmpVars

-----------------------------------------------------------------------------
(* CMP on its own.                                                           *)
LBReady(l) == /\ lbs[l].st = "pending" /\ lbs' = [lbs EXCEPT ![l].st = "ready"]
              /\ UNCHANGED <<vips, vss>>
LBGone(l) == /\ lbs[l].st = "deleting" /\ lbs' = [lbs EXCEPT ![l] = NoLB]
             /\ vips' = [v \in VipIds |-> IF vips[v] = l THEN NoId ELSE vips[v]]
             /\ vss' = [v \in VsIds |-> IF vss[v].lb = l THEN NoVS ELSE vss[v]]
VSReady(v) == /\ vss[v].st = "pending" /\ vss' = [vss EXCEPT ![v].st = "ready"]
              /\ UNCHANGED <<lbs, vips>>
VSGone(v) == /\ vss[v].st = "deleting" /\ vss' = [vss EXCEPT ![v] = NoVS]
             /\ UNCHANGED <<lbs, vips>>
Provider ==
    /\ \E l \in LbIds : LBReady(l) \/ LBGone(l)
    /\ UNCHANGED <<ing, ann, status, queue, pc, w, events, fault, ingCache, annCache>>
ProviderVS ==
    /\ \E v \in VsIds : VSReady(v) \/ VSGone(v)
    /\ UNCHANGED <<ing, ann, status, queue, pc, w, events, fault, ingCache, annCache>>

ListenerLost(v) ==
    /\ Spend("listener-lost") /\ vss[v].st = "ready"
    /\ vss' = [vss EXCEPT ![v].st = "deleting"]
    /\ UNCHANGED <<ing, ann, status, queue, pc, w, lbs, vips, ingCache, annCache>>

(* The informer catches up with an Ingress, which is an event for it.  When  *)
(* reads are as the API server has it, no pass tells when it did so before   *)
(* the next begins: it then does so between two passes.                      *)
Deliver(i) ==
    /\ (StaleReads \/ pc = "idle") /\ <<ingCache[i], annCache[i]>> # <<ing[i], ann[i]>>
    /\ ingCache' = [ingCache EXCEPT ![i] = ing[i]]
    /\ annCache' = [annCache EXCEPT ![i] = ann[i]]
    /\ queue' = queue \cup {i}
    /\ UNCHANGED <<ing, ann, status, pc, w, events, fault, lbs, vips, vss>>

(* Users.  A patient user touches an Ingress only once its last change is    *)
(* reconciled, and lets none join a group while a member is being deleted.   *)
Settled(i) == Live(i) /\ ing[i].fin /\ \E e \in ann[i].lbs : e.key = Identity(ing[i].group, i)
Quiet(g) == \A j \in Ingresses : ing[j].there /\ ing[j].group = g => ~ing[j].del
Change(i) ==
    /\ Event
    /\ queue' = queue \cup {i}
    /\ UNCHANGED <<ann, status, pc, w, fault, lbs, vips, vss, ingCache, annCache>>
CreateIngress(i, g) ==
    /\ ~ing[i].there /\ Quiet(g)
    /\ ing' = [ing EXCEPT ![i] = NewObject(i, g)]
    /\ Change(i)
MoveIngress(i, g) ==
    /\ Live(i) /\ <<ing[i].group, g>> \in Moves /\ Settled(i) /\ Quiet(g)
    /\ ing' = [ing EXCEPT ![i].group = g]
    /\ Change(i)
EditTLS(i) ==
    /\ i \in Editors /\ Live(i) /\ Settled(i) /\ Quiet(ing[i].group) /\ pc = "idle"
    /\ ing' = [ing EXCEPT ![i].tls = ~@]
    /\ Change(i)
(* listManagedIngressRequestsForSecret.                                      *)
RotateSecret(i) ==
    /\ Live(i) /\ ing[i].tls /\ Settled(i)
    /\ \E v \in Versions \ {ing[i].secret} : ing' = [ing EXCEPT ![i].secret = v]
    /\ Change(i)
DeleteIngress(i) ==
    /\ Live(i) /\ ing[i].fin /\ Settled(i)
    /\ ing' = [ing EXCEPT ![i].del = TRUE]
    /\ Change(i)

Take(i) ==
    /\ Ignore(i) \/ BeginEnsure(i) \/ BeginLeave(i) \/ BeginDepart(i) \/ BeginCleanup(i)
    /\ UNCHANGED cacheVars
EnsureGroup ==
    \/ GetLB \/ CreateLB \/ KeepVIP \/ CreateVIP
    \/ KeepListener \/ RefuseListener \/ CreateListener
    \/ UploadCertificate \/ BindCertificate \/ UnbindCertificate \/ DeleteCertificate
    \/ KeepPool \/ CreatePool \/ KeepRule \/ CreateRule \/ DropRules
    \/ DeleteObsoletePools \/ DeleteObsoleteListeners
Worker ==
    /\ \/ EnsureFinalizer \/ EnsureGroup \/ PersistMember \/ PublishMember \/ StripObserved
       \/ RemoveFinalizer \/ CleanChildren \/ CleanListener \/ CleanParents \/ PassFails
    /\ UNCHANGED cacheVars
User == \E i \in Ingresses : \/ DeleteIngress(i) \/ EditTLS(i) \/ RotateSecret(i)
                             \/ \E g \in Groups : CreateIngress(i, g) \/ MoveIngress(i, g)
Next ==
    \/ \E i \in Ingresses : Take(i) \/ Deliver(i)
    \/ Worker \/ Provider \/ ProviderVS
    \/ \E v \in VsIds : ListenerLost(v)
    \/ User

Spec == Init /\ [][Next]_vars
FairSpec ==
    /\ Spec
    /\ WF_vars(Worker) /\ WF_vars(Provider) /\ WF_vars(ProviderVS)
    /\ \A i \in Ingresses : SF_vars(Take(i)) /\ WF_vars(Deliver(i))

(* ------------------------------- Properties ------------------------------ *)

OwnKeys(i) == {e.key : e \in ann[i].lbs} \ {Legacy}

(* Two Ingresses that record one LBService are of the same group: one that   *)
(* has left does not take the parents of the old group with it ("Do not let  *)
(* the new group adopt the old group's observed parent IDs").                *)
GroupsApart ==
    \A i, j \in Ingresses : ann[i].lb # NoId /\ ann[i].lb = ann[j].lb => OwnKeys(i) = OwnKeys(j)

HaveTLS == {i \in Ingresses : ing[i].tls}
(* An LBService holds one certificate per Secret: what an upload that was not*)
(* recorded has left is found again, and none is uploaded for each listener. *)
OneCertificate ==
    \A l \in LbIds : \A c, d \in lbs[l].certs : c.name = d.name => c = d

Home(h) == {<<Identity(ing[h].group, h), p>> : p \in NeededBy({h} \cap HaveTLS)}

(* No pool goes that a rule selects which the pass itself wants, the rule of *)
(* a member in a listener of the stack: whatever was recorded, by whom, and  *)
(* whatever passes that failed have left behind ("a pool is never removed    *)
(* while a desired rule can still select it").                               *)
PoolsOutlastRules ==
    [][\A v \in VsIds : vss[v].st # "absent" /\ vss'[v].st # "absent" =>
          \A p \in vss[v].pools \ vss'[v].pools : \A r \in vss'[v].rules :
             r.pool = p.id => r.host \notin w.members \/ vss[v].name \notin StackNames]_vars

Serves(v, h) ==
    /\ vss[v].st = "ready" /\ lbs[vss[v].lb].st = "ready" /\ vips[vss[v].vip] = vss[v].lb
    /\ \A b \in Backends[h] :
          \E r \in vss[v].rules : r.host = h /\ [name |-> b, id |-> r.pool] \in vss[v].pools
    /\ vss[v].name[2] = "https" =>
          \E c \in lbs[vss[v].lb].certs : c.name = h /\ c.id \in vss[v].bound

(* What the passes over other members do, and how these join, leave or are   *)
(* deleted, an Ingress nobody touches keeps being routed by the listeners    *)
(* recorded on it ("would remove routes and pools still needed by the        *)
(* group").  A fault may cost it its route.                                  *)
RouteKept ==
    [][\A h \in Ingresses :
          Live(h) /\ ing'[h] = ing[h] /\ fault' = fault =>
             \A e \in ann[h].vs : e.name \in Home(h) /\ Serves(e.id, h) => Serves(e.id, h)']_vars

(* The finalizer goes only when what the Ingress has recorded is gone, or    *)
(* recorded on another: the last member cleans up, and only the last one     *)
(* (remainingGroupMembers, isLBServiceShared, CleanupStack).  Needs          *)
(* ~StaleReads: a copy may show the last member one that is gone already.    *)
LastCleansUp ==
    [][\A i \in Ingresses : ing[i].fin /\ ~ing'[i].there =>
          /\ \A l \in CleanupLBs(ann[i]) :
                lbs[l].st = "absent" \/ \E j \in Ingresses \ {i} : l \in CleanupLBs(ann[j])
          /\ \A e \in ann[i].vs :
                \/ vss[e.id].st \in {"absent", "deleting"}
                \/ \E j \in Ingresses \ {i} : e \in ann[j].vs]_vars

GroupTLS(h) == GroupMembers(ing, h) \cap HaveTLS
Agreed(h) ==
    /\ \A n \in Home(h) : \E e \in ann[h].vs : e.name = n /\ Serves(e.id, h)
    /\ Identity(ing[h].group, h) \in OwnKeys(h) /\ status[h] = ann[h].vip
    /\ \A j \in GroupMembers(ing, h) : ann[j] = ann[h]
    /\ \A e \in ann[h].vs : \A r \in vss[e.id].rules : r.host \in GroupMembers(ing, h)
    /\ GroupTLS(h) # {} => \A c \in lbs[ann[h].lb].certs : c.name \in GroupTLS(h)
Unrecorded(i) ==
    \E e \in ann[i].vs :
       \/ \E p \in vss[e.id].pools : \A x \in ann[i].pools : <<x.vs, x.id>> # <<e.name, p.id>>
       \/ \E r \in vss[e.id].rules : [vs |-> e.name, id |-> r.id] \notin ann[i].rules

(* In the end every deleted Ingress is gone, and every other is routed by    *)
(* its listeners and by none that has left, shows the VIP recorded, and      *)
(* agrees with the rest of its group ("users see one consistent group        *)
(* frontend").  Unless a call failed after a pool or rule was created and    *)
(* before it was recorded: it then counts as another stack's.                *)
GroupConverges ==
    <>[]\/ \A h \in Ingresses : ing[h].there => ~ing[h].del /\ Agreed(h)
        \/ fault = "failed-call" /\ \E i \in Ingresses : Unrecorded(i)

-----------------------------------------------------------------------------
(* What the repository says and the code does not do.                        *)

(* The fingerprint is there "to detect rotations even when the logical       *)
(* certificate name is unchanged" (pkg/model/model.go): in the end CMP has   *)
(* the content of the Secret as it is now.                                   *)
CertificatesCurrent ==
    <>[](\A h \in Ingresses, l \in LbIds :
            Live(h) /\ ing[h].tls =>
               \A c \in lbs[l].certs : c.name = h => c.version = ing[h].secret)
=============================================================================

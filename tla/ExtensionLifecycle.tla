-------------------------- MODULE ExtensionLifecycle --------------------------
(* gardener-extension-f5: the controller of the Extension resources in the   *)
(* Seed (pkg/controller/lifecycle).  One worker takes Shoots from the work   *)
(* queue; a reconciliation is a run of remote calls, one step each, on the   *)
(* Extension it READ AT THE START (`seen`) and on its own copy of the        *)
(* F5LoadBalancerConfig (`mem`).  Around it: gardenlet, which creates,       *)
(* changes, asks for and deletes Extensions; the informer, which delivers    *)
(* what the API server holds some time later (`cache`) and whose predicate   *)
(* decides what is queued; Kubernetes' garbage collector; CMP.               *)
(*                                                                           *)
(* Abstractions: time is `clock`, the number of things gardenlet has asked   *)
(* for; every Extension has a providerConfig, which sets a field or leaves   *)
(* it empty; the several failing calls of one step are one failure.  One     *)
(* LastOperation description stands for all the error messages of its kind.  *)
(* Extensions and F5LoadBalancerConfigs are both read from the informer: the *)
(* two constants Stale... say whether it may be behind.                      *)
EXTENDS ControlPlaneLB

CONSTANTS Specs,         \* the providerConfigs gardenlet may set
          StaleReads,    \* the informer's Extension may be behind when a reconciliation starts
          StaleConfigs,  \* ... and its F5LoadBalancerConfig, whenever it is read
          PromptGC,      \* an Extension is created again only after garbage collection
          Faults,        \* what may go wrong ...
          MaxFaults,     \* ... and how often in all
          MaxRequests    \* bound on what gardenlet asks for

(* F5LoadBalancerConfigSpec: enablePerShootControlPlaneVIP, controlPlaneReady, *)
(* enableApplicationLB and which fields are set; json: it can be decoded.    *)
(* "cis": what the bridge needs beyond the three (image, VPC, flavour, ...). *)
Fields == {"vip", "endpoint", "tenant", "credentials", "cis"}
ProviderConfigs == [json : BOOLEAN, perShoot : BOOLEAN, ready : {"unset", "yes", "no"},
                    set : SUBSET Fields, app : BOOLEAN]
(* Where there is none: no Extension has this one. *)
NoSpec == [json |-> FALSE, perShoot |-> FALSE, ready |-> "unset", set |-> {}, app |-> FALSE]

(* The control-plane case of a providerConfig. *)
CPCase(sp) ==
    IF ~sp.json THEN "malformed"
    ELSE IF ~sp.perShoot THEN "shared"               \* the Seed's ingress serves it
    ELSE IF sp.ready = "unset" /\ "endpoint" \in sp.set
         THEN IF {"vip", "tenant", "credentials"} \subseteq sp.set
              THEN "cmp"                             \* a VIP of its own, made through CMP
              ELSE "incomplete"
    ELSE IF "vip" \in sp.set /\ sp.ready # "no" THEN "manual"   \* made by somebody else
    ELSE "waiting"
(* The application-plane case: broken lacks a field the bridge needs. *)
AppCase(sp) == IF ~sp.app THEN "off"
               ELSE IF Fields \ {"vip"} \subseteq sp.set THEN "on" ELSE "broken"

(* Mutant of ReachesCMP: what was made through CMP only is cleaned up. *)
ReachesCMPIfMade(sp) == CPCase(sp) = "cmp"
(* cleanupControlPlaneViaCMP gives up at once without all of these. *)
ReachesCMP(sp) == sp.perShoot /\ {"endpoint", "tenant", "credentials"} \subseteq sp.set

FaultKinds == {"api",      \* a call to the Seed's API server
               "patch",    \* the patch of Extension.status
               "cmp",      \* CMP answers no more, or an answer is lost
               "auth",     \* CMP rejects the credentials
               "shoot",    \* the Shoot's API server
               "crash"}    \* the controller restarts

ASSUME ExtAssumption ==
    /\ Specs \subseteq ProviderConfigs \ {NoSpec}
    /\ StaleReads \in BOOLEAN /\ StaleConfigs \in BOOLEAN /\ PromptGC \in BOOLEAN
    /\ Faults \subseteq FaultKinds
    /\ MaxFaults \in Nat /\ MaxRequests \in Nat

VARIABLES ext,      \* Extensions, as the API server has them
          cfg,      \* F5LoadBalancerConfigs
          bridge,   \* the spec svc-lb-bridge is deployed with in each Shoot, or NoSpec
          cache,    \* Extensions, as the informer has them
          copy,     \* F5LoadBalancerConfigs, as the informer has them
          queue,
          pc, cur,  \* the worker: its next step, its Shoot
          seen, mem, got, why,   \* its locals: Extension, config, CMP ids, outcome
          clock, faults
extVars == <<ext, cfg, bridge, cache, copy, queue, pc, cur, seen, mem, got, why, clock, faults>>
vars == <<cpVars, extVars>>
locals == <<cur, seen, mem, got, why>>

Whys == {"none", "reconciled", "disabled", "blocked", "config", "failed"}
State(y) == CASE y \in {"reconciled", "disabled"} -> "Succeeded"
              [] y = "blocked" -> "Processing"
              [] y = "config"  -> "Failed"
              [] y = "failed"  -> "Error"
              [] OTHER         -> "none"
States == {State(y) : y \in Whys}
Conditions == {"unset", "true", "false"}
Steps == {"idle", "config", "lb", "vip", "vs", "deploy", "undeploy", "save", "output", "clear",
          "find", "del_vs", "del_vip", "del_lb", "del_bridge", "del_clear", "del_finalizer"}

Times == 0 .. MaxRequests
IdsRecord == [lb : Ids \cup {NoId}, vip : Ids \cup {NoId}, vs : Ids \cup {NoId}]
(* Extension.status; at: LastOperation.LastUpdateTime. *)
StatusRecord == [gen : Nat, at : Times, state : States, why : Whys, vip : BOOLEAN]
(* uid 0: there is no such Extension. *)
ExtRecord == [uid : Times, spec : ProviderConfigs, gen : Nat, op : BOOLEAN, ts : Times,
              deleting : BOOLEAN, fin : BOOLEAN, st : StatusRecord]
(* late: the copy a pass works on was behind when it was read. *)
CfgRecord == [there : BOOLEAN, owner : Times, spec : ProviderConfigs,
              cp : Conditions, app : Conditions, ids : IdsRecord, vip : BOOLEAN,
              late : BOOLEAN]

NoIds    == [lb |-> NoId, vip |-> NoId, vs |-> NoId]
NoStatus == [gen |-> 0, at |-> 0, state |-> "none", why |-> "none", vip |-> FALSE]
NoExt    == [uid |-> 0, spec |-> NoSpec, gen |-> 0, op |-> FALSE, ts |-> 0,
             deleting |-> FALSE, fin |-> FALSE, st |-> NoStatus]
NoCfg    == [there |-> FALSE, owner |-> 0, spec |-> NoSpec,
             cp |-> "unset", app |-> "unset", ids |-> NoIds, vip |-> FALSE, late |-> FALSE]

ExtTypeOK ==
    /\ CPTypeOK
    /\ ext \in [Shoots -> ExtRecord] /\ cache \in [Shoots -> ExtRecord]
    /\ cfg \in [Shoots -> CfgRecord] /\ copy \in [Shoots -> CfgRecord]
    /\ bridge \in [Shoots -> ProviderConfigs]
    /\ queue \subseteq Shoots
    /\ pc \in Steps /\ (pc = "idle" <=> cur = NoShoot) /\ cur \in Shoots \cup {NoShoot}
    /\ seen \in ExtRecord /\ mem \in CfgRecord /\ got \in IdsRecord /\ why \in Whys
    /\ clock \in Times /\ faults \in 0 .. MaxFaults

Init ==
    /\ CPInit
    /\ ext = [s \in Shoots |-> NoExt] /\ cache = ext
    /\ cfg = [s \in Shoots |-> NoCfg] /\ copy = cfg
    /\ bridge = [s \in Shoots |-> NoSpec]
    /\ queue = {}
    /\ pc = "idle" /\ cur = NoShoot
    /\ seen = NoExt /\ mem = NoCfg /\ got = NoIds /\ why = "none"
    /\ clock = 0 /\ faults = 0

(* One more failure of this kind happens, and is counted. *)
Fault(kind) == kind \in Faults /\ faults < MaxFaults /\ faults' = faults + 1
NoFault == UNCHANGED faults

Enqueue(S) == queue' = queue \cup S
(* Mutant of Idle: the worker keeps its Shoot. *)
IdleWithShoot == pc' = "idle" /\ UNCHANGED cur /\ seen' = NoExt /\ mem' = NoCfg
                 /\ got' = NoIds /\ why' = "none"
(* The worker is done with cur: on an error its Shoot is queued again. *)
Idle == /\ pc' = "idle" /\ cur' = NoShoot
        /\ seen' = NoExt /\ mem' = NoCfg /\ got' = NoIds /\ why' = "none"
Return == Idle /\ UNCHANGED queue
ReturnError == Idle /\ Enqueue({cur})
GoTo(step) == pc' = step /\ UNCHANGED <<cur, queue>>

(* ------------------------------ gardenlet ------------------------------- *)

(* Every request of gardenlet carries a new timestamp; it also sets the      *)
(* operation annotation, except perhaps when it deletes.                     *)
Asks == clock < MaxRequests /\ clock' = clock + 1

CreateExtension(s) ==
    /\ Asks /\ ext[s].uid = 0 /\ (PromptGC => ~cfg[s].there)
    /\ \E sp \in Specs :
        ext' = [ext EXCEPT ![s] = [NoExt EXCEPT !.uid = clock', !.spec = sp, !.gen = 1,
                                                !.op = TRUE, !.ts = clock']]
    /\ UNCHANGED <<cpVars, cfg, bridge, cache, copy, queue, pc, locals, faults>>

RequestReconcile(s) ==
    /\ Asks /\ ext[s].uid # 0 /\ ~ext[s].deleting
    /\ \E sp \in Specs :
        ext' = [ext EXCEPT ![s] = [ext[s] EXCEPT
                    !.spec = sp, !.op = TRUE, !.ts = clock',
                    !.gen = IF sp = ext[s].spec THEN @ ELSE @ + 1]]
    /\ UNCHANGED <<cpVars, cfg, bridge, cache, copy, queue, pc, locals, faults>>

(* Nothing holds an Extension that has no finalizer yet. *)
DeleteExtension(s) ==
    /\ Asks /\ ext[s].uid # 0 /\ ~ext[s].deleting
    /\ \E op \in BOOLEAN :
        ext' = [ext EXCEPT ![s] = IF ext[s].fin
                                  THEN [ext[s] EXCEPT !.deleting = TRUE, !.ts = clock',
                                                      !.op = ext[s].op \/ op]
                                  ELSE NoExt]
    /\ UNCHANGED <<cpVars, cfg, bridge, cache, copy, queue, pc, locals, faults>>

(* ------------------------------- informer ------------------------------- *)

(* extensionReconcilePredicate for an update from old to new, both there. *)
(* Mutant of Reconcilable: the finalizer is nobody's change but our own. *)
ReconcilableButFinalizer(old, new) ==
    \/ old.gen # new.gen \/ old.deleting # new.deleting
    \/ (new.op /\ ~old.op) \/ old.ts # new.ts
Reconcilable(old, new) ==
    \/ old.gen # new.gen
    \/ old.fin # new.fin
    \/ old.deleting # new.deleting
    \/ new.op /\ ~old.op
    \/ old.ts # new.ts

(* The informer catches up: creations and deletions always queue the Shoot. *)
Deliver(s) ==
    /\ cache[s] # ext[s]
    /\ cache' = [cache EXCEPT ![s] = ext[s]]
    /\ IF cache[s].uid # ext[s].uid \/ Reconcilable(cache[s], ext[s])
       THEN Enqueue({s}) ELSE UNCHANGED queue
    /\ UNCHANGED <<cpVars, ext, cfg, bridge, copy, pc, locals, clock, faults>>

(* The informer of the configs catches up: nothing is queued for them. *)
DeliverConfig(s) ==
    /\ StaleConfigs /\ copy[s] # cfg[s]
    /\ copy' = [copy EXCEPT ![s] = cfg[s]]
    /\ UNCHANGED <<cpVars, ext, cfg, bridge, cache, queue, pc, locals, clock, faults>>

(* The config as a read through the manager's client shows it. *)
Copy(s) == IF StaleConfigs THEN copy[s] ELSE cfg[s]

(* mapSecretToExtensions: the referenced credentials changed. *)
SecretChanged(s) ==
    /\ Copy(s).there /\ "credentials" \in Copy(s).spec.set /\ s \notin queue
    /\ Enqueue({s})
    /\ UNCHANGED <<cpVars, ext, cfg, bridge, cache, copy, pc, locals, clock, faults>>

(* The owner of the config is gone, or is another Extension of that name. *)
GarbageCollect(s) ==
    /\ cfg[s].there /\ cfg[s].owner # ext[s].uid
    /\ cfg' = [cfg EXCEPT ![s] = NoCfg]
    /\ UNCHANGED <<cpVars, ext, bridge, cache, copy, queue, pc, locals, clock, faults>>

CMPOnItsOwn == CMPStep /\ UNCHANGED extVars
CMPOutage   == cmpUp /\ cmpUp' = FALSE /\ Fault("cmp")
               /\ UNCHANGED <<lbs, vips, vss, ext, cfg, bridge, cache, copy, queue, pc, locals, clock>>

(* A restart: every Extension there is comes as a new one. *)
Restart ==
    /\ pc # "idle" /\ Fault("crash") /\ Idle
    /\ cache' = ext /\ queue' = {s \in Shoots : ext[s].uid # 0}
    /\ copy' = IF StaleConfigs THEN cfg ELSE copy
    /\ UNCHANGED <<cpVars, ext, cfg, bridge, clock>>

(* ---------------------- ExtensionReconciler.Reconcile -------------------- *)

Take(s) == pc = "idle" /\ s \in queue /\ (~StaleReads => cache[s] = ext[s])

(* Gone, or deleted and let go already: nothing to do. *)
TakeNothing(s) ==
    /\ Take(s) /\ (cache[s].uid = 0 \/ (cache[s].deleting /\ ~cache[s].fin))
    /\ queue' = queue \ {s}
    /\ UNCHANGED <<cpVars, ext, cfg, bridge, cache, copy, pc, locals, clock, faults>>

(* The first pass only adds the finalizer, by an Update of the version read: *)
(* a conflict is an error and queues the Shoot again.                        *)
AddFinalizer(s) ==
    /\ Take(s) /\ cache[s].uid # 0 /\ ~cache[s].deleting /\ ~cache[s].fin
    /\ \/ /\ cache[s] = ext[s] /\ NoFault
          /\ ext' = [ext EXCEPT ![s].fin = TRUE]
          /\ queue' = queue \ {s}
       \/ /\ IF cache[s] = ext[s] THEN Fault("api") ELSE NoFault
          /\ UNCHANGED <<ext, queue>>
    /\ UNCHANGED <<cpVars, cfg, bridge, cache, copy, pc, locals, clock>>

Begin(s) ==
    /\ Take(s) /\ cache[s].uid # 0 /\ cache[s].fin
    /\ pc' = (IF cache[s].deleting THEN "find" ELSE "config")
    /\ cur' = s /\ seen' = cache[s] /\ queue' = queue \ {s}
    /\ UNCHANGED <<cpVars, ext, cfg, bridge, cache, copy, mem, got, why, clock, faults>>

(* --------------------------- actuator.Reconcile -------------------------- *)

AppEnabled(m) == m.spec.app
(* Whatever stops a reconciliation before the bridge leaves it Blocked. *)
Block(m) == IF AppEnabled(m) THEN [m EXCEPT !.app = "false"] ELSE m

(* The application plane waits for the control plane. *)
(* Mutant of AppPlane: the condition saved last time opens the gate, too. *)
AppPlaneBySavedCondition(m) ==
    IF ~AppEnabled(m) THEN GoTo("undeploy") /\ mem' = m /\ UNCHANGED why
    ELSE IF "true" \in {m.cp, cfg[cur].cp} THEN GoTo("deploy") /\ mem' = m /\ UNCHANGED why
    ELSE GoTo("save") /\ mem' = Block(m) /\ why' = "blocked"
AppPlane(m) ==
    IF ~AppEnabled(m) THEN GoTo("undeploy") /\ mem' = m /\ UNCHANGED why
    ELSE IF m.cp = "true" THEN GoTo("deploy") /\ mem' = m /\ UNCHANGED why
    ELSE GoTo("save") /\ mem' = Block(m) /\ why' = "blocked"
CPFails(y) == GoTo("save") /\ mem' = Block([mem EXCEPT !.cp = "false"]) /\ why' = y

(* A field of a merge patch: sent only when it changes what was READ. *)
Sent(new, base, old) == IF new # base THEN new ELSE old
(* What the API server makes of old on the patch from base to new. *)
MergedSpec(new, base, old) ==
    [json |-> TRUE, perShoot |-> Sent(new.perShoot, base.perShoot, old.perShoot),
     ready |-> Sent(new.ready, base.ready, old.ready),
     app |-> Sent(new.app, base.app, old.app),
     set |-> {f \in Fields : Sent(f \in new.set, f \in base.set, f \in old.set)}]

(* ensureF5LoadBalancerConfig on the copy c it reads: the config the pass    *)
(* works on.  Its owner is set when it is created or its spec changes; the   *)
(* patch is answered with what the server has then, its status included.     *)
SyncedConfig(c) ==
    IF ~c.there
    THEN [NoCfg EXCEPT !.there = TRUE, !.owner = seen.uid, !.spec = seen.spec]
    ELSE IF c.spec = seen.spec THEN [c EXCEPT !.late = (c # cfg[cur])]
    ELSE [cfg[cur] EXCEPT !.owner = Sent(seen.uid, c.owner, @),
                          !.spec = MergedSpec(seen.spec, c.spec, @)]
(* The config to be created is there already, or that to be patched is gone. *)
Refused(c) == c.there # cfg[cur].there /\ ~(c.there /\ c.spec = seen.spec)

(* A providerConfig that cannot be decoded, or the API server refuses. *)
ConfigFails ==
    /\ pc = "config" /\ ReturnError
    /\ IF ~seen.spec.json \/ Refused(Copy(cur)) THEN NoFault ELSE Fault("api")
    /\ UNCHANGED <<cpVars, ext, cfg, bridge, cache, copy, clock>>

(* reconcileControlPlaneStatus, ...SharedSeedIngress and the entry of        *)
(* provisionControlPlaneViaCMP, which rejects an incomplete spec for good.   *)
EnsureConfig ==
    /\ pc = "config" /\ seen.spec.json /\ ~Refused(Copy(cur))
    /\ LET m == SyncedConfig(Copy(cur))
           case == CPCase(m.spec)
       IN
       /\ cfg' = IF m.late THEN cfg ELSE [cfg EXCEPT ![cur] = m]
       /\ CASE case = "shared"  -> AppPlane([m EXCEPT !.cp = "true"])
            [] case = "manual"  -> AppPlane([m EXCEPT !.cp = "true", !.vip = TRUE])
            [] case = "waiting" -> AppPlane([m EXCEPT !.cp = "false"])
            [] case = "cmp"     -> GoTo("lb") /\ mem' = m /\ UNCHANGED why
            [] OTHER -> /\ GoTo("save") /\ why' = "config"
                        /\ mem' = Block([m EXCEPT !.cp = "false"])
    /\ UNCHANGED <<cpVars, ext, bridge, cache, copy, seen, got, clock, faults>>

(* Ids no config remembers: CMP gives out no others. *)
Fresh(f) == {i \in Ids : /\ i # got[f] /\ i # mem.ids[f]
                        /\ \A s \in Shoots : i \notin {cfg[s].ids[f], copy[s].ids[f]}}

EnsureLB ==
    /\ pc = "lb" /\ cmpUp
    /\ \E i \in Ids : EnsureLBService(cur, Fresh("lb"), i) /\ got' = [got EXCEPT !.lb = i]
    /\ GoTo("vip")
    /\ UNCHANGED <<ext, cfg, bridge, cache, copy, seen, mem, why, clock, faults>>

EnsureVIPPort ==
    /\ pc = "vip" /\ cmpUp
    /\ \E i \in Ids : EnsureVIP(got.lb, Fresh("vip"), i) /\ got' = [got EXCEPT !.vip = i]
    /\ GoTo("vs")
    /\ UNCHANGED <<ext, cfg, bridge, cache, copy, seen, mem, why, clock, faults>>

(* The ids are recorded, in memory, only here: after the last call. *)
EnsureVS ==
    /\ pc = "vs" /\ cmpUp
    /\ \E i \in Ids :
        /\ EnsureVirtualServer(cur, got.lb, Fresh("vs"), i)
        /\ AppPlane([mem EXCEPT !.cp = "true", !.vip = TRUE, !.ids = [got EXCEPT !.vs = i]])
    /\ UNCHANGED <<ext, cfg, bridge, cache, copy, seen, got, clock, faults>>

(* A call to CMP that fails: an outage, an answer lost after the work was    *)
(* done, an LB service on its way out; or the credentials' Secret or the     *)
(* apiserver's endpoints cannot be read.                                     *)
ProvisionFails ==
    /\ pc \in {"lb", "vip", "vs"}
    /\ \/ NoFault /\ UNCHANGED cpVars
          /\ (~cmpUp \/ (pc # "lb" /\ lbs[got.lb].st # "live"))
       \/ pc = "lb" /\ Fault("api") /\ UNCHANGED cpVars
       \/ /\ cmpUp /\ Fault("cmp")
          /\ \E i \in Ids : CASE pc = "lb"  -> EnsureLBService(cur, Fresh("lb"), i)
                              [] pc = "vip" -> EnsureVIP(got.lb, Fresh("vip"), i)
                              [] OTHER      -> EnsureVirtualServer(cur, got.lb, Fresh("vs"), i)
    /\ CPFails("failed")
    /\ UNCHANGED <<ext, cfg, bridge, cache, copy, seen, got, clock>>

(* Probe: 401 and 403 are the operator's to repair. *)
CredentialsRejected ==
    /\ pc = "lb" /\ cmpUp /\ Fault("auth") /\ CPFails("config")
    /\ UNCHANGED <<cpVars, ext, cfg, bridge, cache, copy, seen, got, clock>>

(* reconcileCISInShoot: namespace, account and RBAC first, so a failure on   *)
(* the way leaves the Deployment as it was.                                  *)
DeployBridge ==
    /\ pc = "deploy" /\ GoTo("save")
    /\ \/ /\ AppCase(mem.spec) = "broken" /\ NoFault
          /\ mem' = [mem EXCEPT !.app = "false"] /\ why' = "config"
          /\ UNCHANGED bridge
       \/ /\ AppCase(mem.spec) = "on" /\ NoFault
          /\ mem' = [mem EXCEPT !.app = "true"] /\ why' = "reconciled"
          /\ bridge' = [bridge EXCEPT ![cur] = mem.spec]
       \/ /\ AppCase(mem.spec) = "on" /\ Fault("shoot")
          /\ mem' = [mem EXCEPT !.app = "false"] /\ why' = "failed"
          /\ UNCHANGED bridge
    /\ UNCHANGED <<cpVars, ext, cfg, cache, copy, seen, got, clock>>

(* cleanupCISInShoot: a Shoot that does not answer is skipped, and the       *)
(* application plane is Disabled all the same.                               *)
RemoveBridge ==
    \/ bridge' = [bridge EXCEPT ![cur] = NoSpec] /\ NoFault
    \/ UNCHANGED bridge /\ Fault("shoot")
UndeployBridge ==
    /\ pc = "undeploy" /\ GoTo("save") /\ RemoveBridge
    /\ mem' = [mem EXCEPT !.app = "false"] /\ why' = "disabled"
    /\ UNCHANGED <<cpVars, ext, cfg, cache, copy, seen, got, clock>>

Done(y) == y \in {"reconciled", "disabled"}   \* the two successful ends

(* Status().Update of the config: a conflict when the copy read was behind.  *)
(* Its error counts only on success.                                         *)
SaveConfig ==
    /\ pc = "save" /\ cfg[cur].there /\ ~mem.late
    /\ cfg' = [cfg EXCEPT ![cur] = [mem EXCEPT !.owner = cfg[cur].owner]]
    /\ GoTo("output")
    /\ UNCHANGED <<cpVars, ext, bridge, cache, copy, seen, mem, got, why, clock, faults>>
(* Mutant of SaveConfigFails: its error never counts. *)
SaveConfigIgnored ==
    /\ pc = "save"
    /\ IF cfg[cur].there /\ ~mem.late THEN Fault("api") ELSE NoFault
    /\ GoTo("output") /\ UNCHANGED <<seen, mem, got, why>>
    /\ UNCHANGED <<cpVars, ext, cfg, bridge, cache, copy, clock>>
SaveConfigFails ==
    /\ pc = "save"
    /\ IF cfg[cur].there /\ ~mem.late THEN Fault("api") ELSE NoFault
    /\ IF Done(why) THEN ReturnError
                    ELSE GoTo("output") /\ UNCHANGED <<seen, mem, got, why>>
    /\ UNCHANGED <<cpVars, ext, cfg, bridge, cache, copy, clock>>

(* updateExtensionOutput.  The merge patch is the difference between the     *)
(* Extension as read and as wanted: a field that is right in the copy READ   *)
(* is not sent.                                                              *)
(* Mutant of Output: the generation of now, not the one worked on. *)
OutputOfLatest == [gen |-> ext[cur].gen, at |-> clock, state |-> State(why), why |-> why,
                   vip |-> mem.vip \/ "vip" \in mem.spec.set]
Output == [gen |-> seen.gen, at |-> clock, state |-> State(why), why |-> why,
           vip |-> mem.vip \/ "vip" \in mem.spec.set]
(* Mutant of OutputIsCurrent: the same result needs no new acknowledgement. *)
OutputIsSame == [Output EXCEPT !.at = seen.st.at] = seen.st
OutputIsCurrent == seen.st.at >= seen.ts /\ [Output EXCEPT !.at = seen.st.at] = seen.st
Patched(old, new, base) == [f \in DOMAIN old |-> Sent(new[f], base[f], old[f])]

(* After it: a handled request goes on to clear its annotation, an error     *)
(* queues the Shoot again.                                                   *)
AfterOutput == IF why = "failed" THEN ReturnError
               ELSE GoTo("clear") /\ UNCHANGED <<seen, mem, got, why>>
UpdateExtensionOutput ==
    /\ pc = "output"
    /\ \/ OutputIsCurrent /\ NoFault /\ UNCHANGED ext
       \/ /\ ~OutputIsCurrent /\ NoFault
          /\ ext' = [ext EXCEPT ![cur].st = Patched(@, Output, seen.st)]
       \/ ~OutputIsCurrent /\ Fault("patch") /\ UNCHANGED ext
    /\ AfterOutput
    /\ UNCHANGED <<cpVars, cfg, bridge, cache, copy, clock>>

(* The annotation is looked for in the informer's latest. *)
ClearOperation ==
    /\ pc = "clear"
    /\ \/ /\ NoFault /\ Return
          /\ ext' = IF cache[cur].op THEN [ext EXCEPT ![cur].op = FALSE] ELSE ext
       \/ cache[cur].op /\ Fault("api") /\ ReturnError /\ UNCHANGED ext
    /\ UNCHANGED <<cpVars, cfg, bridge, cache, copy, clock>>

(* ----------------------------- actuator.Delete --------------------------- *)

(* Any error of the read counts as "nothing to delete".  CMP is left alone   *)
(* when the spec read does not reach it, or its credentials are out of reach. *)
FindConfig ==
    /\ pc = "find"
    /\ LET c == Copy(cur) IN
       \/ /\ c.there /\ NoFault /\ mem' = c
          /\ GoTo(IF ReachesCMP(c.spec) THEN "del_vs" ELSE "del_bridge")
       \/ /\ c.there /\ Fault("api") /\ mem' = c
          /\ GoTo("del_bridge")
       \/ /\ IF c.there THEN Fault("api") ELSE NoFault
          /\ UNCHANGED mem /\ GoTo("del_clear")
    /\ UNCHANGED <<cpVars, ext, cfg, bridge, cache, copy, seen, got, why, clock>>

(* Three calls; each failure is logged and passed over. *)
(* Mutant of DeleteCall: a failed call ends the pass with an error. *)
DeleteCallOrError(from, to, Call) ==
    /\ pc = from
    /\ \/ cmpUp /\ NoFault /\ Call /\ GoTo(to) /\ UNCHANGED <<seen, mem, got, why>>
       \/ (IF cmpUp THEN Fault("cmp") ELSE NoFault) /\ UNCHANGED cpVars /\ ReturnError
    /\ UNCHANGED <<ext, cfg, bridge, cache, copy, clock>>
DeleteCall(from, to, Call) ==
    /\ pc = from /\ GoTo(to)
    /\ \/ cmpUp /\ NoFault /\ Call
       \/ (IF cmpUp THEN Fault("cmp") ELSE NoFault) /\ UNCHANGED cpVars
    /\ UNCHANGED <<ext, cfg, bridge, cache, copy, seen, mem, got, why, clock>>
DeleteVirtualServer == DeleteCall("del_vs", "del_vip", DeleteVS(mem.ids))
DeleteVIPPort       == DeleteCall("del_vip", "del_lb", DeleteVIP(mem.ids))
DeleteLBService     == DeleteCall("del_lb", "del_bridge", DeleteLB(mem.ids))

DeleteBridge ==
    /\ pc = "del_bridge" /\ GoTo("del_clear") /\ RemoveBridge
    /\ UNCHANGED <<cpVars, ext, cfg, cache, copy, seen, mem, got, why, clock>>

DeleteClearOperation ==
    /\ pc = "del_clear" /\ GoTo("del_finalizer")
    /\ \/ /\ NoFault
          /\ ext' = IF cache[cur].op THEN [ext EXCEPT ![cur].op = FALSE] ELSE ext
       \/ cache[cur].op /\ Fault("api") /\ UNCHANGED ext
    /\ UNCHANGED <<cpVars, cfg, bridge, cache, copy, seen, mem, got, why, clock>>

(* An Update of the Extension as it was read: whatever changed since, the    *)
(* annotation just cleared included, makes it a conflict.                    *)
RemoveFinalizer ==
    /\ pc = "del_finalizer"
    /\ \/ /\ ext[cur] = seen /\ NoFault
          /\ ext' = [ext EXCEPT ![cur] = NoExt]
          /\ Return
       \/ /\ IF ext[cur] = seen THEN Fault("api") ELSE NoFault
          /\ UNCHANGED ext /\ ReturnError
    /\ UNCHANGED <<cpVars, cfg, bridge, cache, copy, clock>>

(* ------------------------------------------------------------------------- *)

Gardenlet(s) == CreateExtension(s) \/ RequestReconcile(s) \/ DeleteExtension(s)
TakeNext(s)  == TakeNothing(s) \/ AddFinalizer(s) \/ Begin(s)
ReconcileStep ==
    \/ ConfigFails \/ EnsureConfig \/ EnsureLB \/ EnsureVIPPort \/ EnsureVS
    \/ ProvisionFails \/ CredentialsRejected \/ DeployBridge \/ UndeployBridge
    \/ SaveConfig \/ SaveConfigFails \/ UpdateExtensionOutput \/ ClearOperation
DeleteStep ==
    \/ FindConfig \/ DeleteVirtualServer \/ DeleteVIPPort \/ DeleteLBService
    \/ DeleteBridge \/ DeleteClearOperation \/ RemoveFinalizer
Worker == (\E s \in Shoots : TakeNext(s)) \/ ReconcileStep \/ DeleteStep

Next ==
    \/ \E s \in Shoots : \/ Gardenlet(s) \/ Deliver(s) \/ DeliverConfig(s)
                        \/ SecretChanged(s) \/ GarbageCollect(s)
    \/ CMPOnItsOwn \/ CMPOutage \/ Restart \/ Worker

Spec == Init /\ [][Next]_vars

(* The worker and the informer never stop.  gardenlet, the credentials, the  *)
(* garbage collector and CMP owe nothing.                                    *)
FairSpec == Spec /\ WF_vars(Worker)
            /\ \A s \in Shoots : WF_vars(Deliver(s)) /\ WF_vars(DeliverConfig(s))

(* ------------------------------ Properties ------------------------------- *)

There(s) == ext[s].uid # 0 /\ ~ext[s].deleting
(* Nothing of s is under way and nothing is on its way to the worker. *)
Settled(s) == cache[s] = ext[s] /\ s \notin queue /\ cur # s
(* The spec asks for a bridge and leaves the control plane no reason to wait. *)
Deployable(sp) == AppCase(sp) = "on" /\ CPCase(sp) \in {"shared", "manual", "cmp"}

(* What a reconciliation of this providerConfig can end in. *)
Outcomes(sp) ==
    LET case == CPCase(sp)
        app == CASE AppCase(sp) = "off"    -> {"disabled"}
                 [] AppCase(sp) = "broken" -> {"config"}
                 [] OTHER                  -> {"reconciled", "failed"}
    IN CASE case = "malformed"            -> {}
         [] case = "incomplete"           -> {"config"}
         [] case \in {"shared", "manual"} -> app
         [] case = "waiting"              -> IF sp.app THEN {"blocked"} ELSE {"disabled"}
         [] OTHER                         -> app \cup {"failed", "config"}

(* No request is slept through: whatever gardenlet changed, at whatever      *)
(* moment of a reconciliation and however late the informer, once everything *)
(* has settled the Extension has its finalizer and the Shoot runs the bridge *)
(* with the spec the Extension has now (extensionReconcilePredicate, the     *)
(* finalizer pass that returns early, errors that queue again).  Only with   *)
(* StaleConfigs is there one exception, which the code has: a merge patch    *)
(* against an old copy leaves a config with fields of two providerConfigs;   *)
(* even then a pass took note of the present generation, and the bridge is   *)
(* that of the config.                                                       *)
SettledAgrees ==
    \A s \in Shoots : There(s) /\ Settled(s) =>
        /\ ext[s].fin
        /\ Deployable(ext[s].spec) =>
              \/ bridge[s] = ext[s].spec
              \/ /\ StaleConfigs /\ cfg[s].there /\ cfg[s].spec # ext[s].spec
                 /\ Deployable(cfg[s].spec) => bridge[s] = cfg[s].spec
                 /\ faults = 0 => ext[s].st.gen = ext[s].gen

(* However often a call fails, its answer is lost or the controller          *)
(* restarts, and while old deletions are still under way, a project gets one *)
(* control-plane LB service and that one virtual server (ensureOrFind...).   *)
OneControlPlaneLB ==
    /\ \A p \in Projects : Cardinality({l \in LBsIn(p) : lbs[l].name = "cp"}) <= 1
    /\ \A l \in Ids : Cardinality({v \in VSsOf(l) : vss[v].name = "cp"}) <= 1

(* If nothing fails, nothing is left at CMP of an Extension that is gone:    *)
(* its ids were recorded before it could be deleted, and all three deletions *)
(* were asked for before its finalizer went (actuator.Delete).  True only    *)
(* of providerConfigs that all reach CMP, whichever the Extension ends with  *)
(* (SpecsReachCMP), and of a config that is read as it is (~StaleConfigs).   *)
SpecsReachCMP == \A sp \in Specs : sp.json => ReachesCMP(sp)
CleanRelease ==
    \A s \in Shoots : faults = 0 /\ ext[s].uid = 0 =>
        /\ \A l \in LBsIn(Project[s]) : lbs[l].name = "cp" => lbs[l].st = "deleting"
        /\ \A v \in Ids : vss[v].by = s => vss[v].st = "deleting"

(* The application plane follows the control plane: a bridge is deployed     *)
(* only with a control plane that this very reconciliation found or made     *)
(* complete, never on the word of a condition left from an earlier spec.     *)
AppAfterControlPlane ==
    [][\A s \in Shoots : bridge'[s] # bridge[s] /\ bridge'[s] # NoSpec =>
          /\ CPCase(mem.spec) \in {"shared", "manual", "cmp"}
          /\ CPCase(mem.spec) = "cmp" => NoId \notin {mem.ids.lb, mem.ids.vip, mem.ids.vs}]_vars

(* A success is reported only when it is recorded: a pass whose copy of the  *)
(* config was behind ends in a conflict and is repeated, so that what was    *)
(* made for the providerConfig recorded can be found again and deleted.      *)
SuccessIsRecorded ==
    /\ pc = "output" /\ Done(why)
    /\ cfg[cur].there /\ CPCase(cfg[cur].spec) = "cmp"
    => NoId \notin {cfg[cur].ids.lb, cfg[cur].ids.vip, cfg[cur].ids.vs}

(* The status tells of the generation it names: when ObservedGeneration is   *)
(* the Extension's generation, the outcome beside it is one the present      *)
(* providerConfig can have, though gardenlet may change it at any step.      *)
(* Needs ~StaleReads and ~StaleConfigs.                                      *)
StatusOfGeneration ==
    \A s \in Shoots : ext[s].uid # 0 /\ ext[s].st.gen = ext[s].gen =>
        ext[s].st.why \in Outcomes(ext[s].spec)

(* gardenlet waits for: annotation gone, generation observed, status not     *)
(* older than the request.                                                   *)
Acknowledged(s) == ~ext[s].op /\ ext[s].st.gen = ext[s].gen /\ ext[s].st.at >= ext[s].ts

(* Once CMP is there for good and has finished its deletions, every request  *)
(* of gardenlet is acknowledged, superseded by the next or overtaken by a    *)
(* deletion.                                                                 *)
CMPQuiet == cmpUp /\ \A i \in Ids : "deleting" \notin {lbs[i].st, vss[i].st}
RequestHandled ==
    <>[]CMPQuiet =>
        \A s \in Shoots : \A k \in Times :
            (There(s) /\ ext[s].ts = k) ~> (~There(s) \/ ext[s].ts # k \/ Acknowledged(s))

(* Best effort is meant: an Extension that is deleted goes away, though CMP  *)
(* may be down for good and calls to the Shoot and the Seed fail.            *)
DeletionEnds == \A s \in Shoots : ext[s].deleting ~> ext[s].uid = 0

(* Each Shoot gets its own virtual server: the one recorded for it forwards  *)
(* to its own kube-apiserver (ensureOrFindLBService, ...VirtualServer).      *)
OwnVirtualServer ==
    \A s \in Shoots : LET v == cfg[s].ids.vs IN
        v # NoId /\ vss[v].st # "absent" => vss[v].by = s
=============================================================================

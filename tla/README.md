# Formal model of the F5 / CMP LBaaS Gardener extension

This directory holds TLA+ modules that model the load-balancer controllers of
this repository, TLC configurations that check them on small instances, and
TLAPS proofs of theorems that hold for every instance. Nothing in it is used by
the build; it is meant to be read beside the Go code. Paths below are relative
to the repository.

    tlc -config BridgeOnce.cfg ServiceBridge        # one of the runs below
    tlc -config ExtensionSafety.cfg MCExtension
    tlc -config IngressGroup.cfg MCIngress
    tlc -config SeedService.cfg SeedService
    tlapm ServiceBridgeProofs.tla                   # proofs: a few minutes each
    tlapm ServiceBridgeServeProofs.tla
    tlapm ServiceBridgeCleanupProofs.tla
    tlapm ExtensionLifecycleProofs.tla
    tlapm CMPRequestsProofs.tla
    tlapm IngressGroupProofs.tla
    tlapm IngressGroupSharingProofs.tla
    tlapm SeedServiceProofs.tla

## 1. The system

The repository turns Kubernetes objects into resources of CMP, a cloud
load-balancer API in front of F5 BIG-IP. CMP holds *LBServices*; under each, *VIP
ports*; and bound to a VIP, *virtual servers* (listeners) with their pool members.
Creation and deletion at CMP are asynchronous, names are not unique, and there
are no tags: ownership must be carried by deterministic names and by annotations
on the Kubernetes objects.

| Component | Code | State it keeps | Operations | What makes it correct |
|---|---|---|---|---|
| Service reconciler (shoot) | `cmd/svc-lb-bridge/main.go` | annotations (ids, modes, repair count, observed graph), finalizer, `status.loadBalancer` | `Reconcile`: ensure, clean up, checkpoint, repair, publish | no second LBService or listener; only own resources deleted; VIP published only when served; deletion ends and leaves nothing |
| Observed state | `pkg/model/model.go` | the graph: buckets of logical name to id, hash, owner | `EnsureGraph` and legacy aliases | an alias never hides or duplicates an id |
| Stack deployer | `pkg/deploy/lbaas/deployer.go`, `cleanup.go` | none between calls | `EnsureStack`, `CleanupStack`, recovery by name, removal of obsolete listeners | restartable at every call |
| LBService, VIP, virtual-server managers | `pkg/deploy/lbaas/*_manager.go` | none | `Ensure`, create, validate, replace failed | look up before create, replace before reuse |
| Pool, member, monitor, rule, certificate managers | same directory | none | `EnsureOwned`, diff of members, rotation | only owned children changed |
| Ingress reconciler (shoot) | `cmd/svc-lb-bridge/ingress_controller.go`, `pkg/ingress` | annotations of every group member | group ensure with the TLS Secrets, departure, group change, clean-up | members agree on one graph; the last one cleans up; https serves with the certificate there is |
| CMP HTTP client | `pkg/f5/client.go` | Ce-Auth token, request slot, rate limiter | requests, 401 refresh and retry, 429 | one request at a time, slot always released, at most one retry |
| Extension controller and actuator (seed) | `pkg/controller/lifecycle` | Extension finalizer, operation annotation and status; `F5LoadBalancerConfig` with the CMP ids | informer predicate, reconcile, delete, provisioning of the control-plane VIP, deployment of the bridge in the Shoot | no request slept through or left unacknowledged; the bridge only behind a control plane; the status tells of its generation; deletion ends and cleans up |
| Control-plane calls of f5client | `pkg/f5/client.go` | none | find or create LB service, VIP, virtual server; delete the three | one stack per project, found again after any failure |
| Seed Service controller | `cmd/seed-service-lb-controller/main.go` | annotations, finalizer; nothing recorded before a pass has succeeded | ensure, clean up | as the shoot reconciler, with all found again by name |
| Builders, backends, annotations | `pkg/service`, `pkg/backend`, `pkg/annotations` | none | pure | deterministic names and hashes |
| Raw adapter, typed CMP client, cmpctl, main, metrics, API types | `pkg/deploy/lbaas/raw_adapter.go`, `pkg/cmp/lbaas`, `cmd/cmpctl`, ... | none | parsing, wiring, counters | not modelled |

Interaction: the API server delivers objects through informers to one work queue
per controller; a pass reads the object from the cache, calls CMP synchronously
through the client, and writes annotations, finalizers and status back by merge
patches against what it read. Passes of one controller are serial (`MaxConcurrentReconciles: 1`).
Between any two calls of a pass, users, CMP and the other controllers move. What
is hard: stale cache reads, passes cut short by an error, a rate limit or a
crash, asynchronous creation and deletion, resources shared by Services of a
`vip-group`, and ids the user supplies.

PROJECT.json lists the components with their status, and under "hazards" the
places in the code where these difficulties bite.

## 2. Modules

* **ObservedState** - what one Service remembers between passes: annotations and
  the observed graph, with the pure functions the code applies to them
  (`EnsureGraph`, `dropMigratedLegacyAliases`, `cleanupLBServiceID`, the
  provided/managed policy, the merge patch).
* **CMP** - the provider: LBServices, VIPs and virtual servers with their
  asynchronous life cycle. External: modelled from how the managers use it.
* **ServiceBridge** - the Service reconciler and the deployer it calls, on top of
  CMP. `pc` is the API call the worker makes next, `w` its local variables; an
  action is one call with the local code up to the next one.
* **MCServiceBridge** - symmetry for the run with two Services.
* **ServiceBridgeProofs** - theorems and proofs: types and ownership of listeners;
  **ServiceBridgeServeProofs** on top of it: no duplicates, and what a published VIP stands
  for; **ServiceBridgeCleanupProofs** on top of that: shared parents and the finalizer.
* **ControlPlaneLB** - CMP as the Seed sees it: LB services, VIPs and virtual servers
  listed by project, and the f5client calls that find, create and delete the
  control-plane stack.
* **ExtensionLifecycle** - the controller of the Extension resources on top of it,
  with gardenlet, the informers of Extensions and of configs, the garbage collector, outages
  and restarts around.
* **MCExtension** - providerConfigs and projects of its runs.
* **ExtensionLifecycleProofs** - theorems and proofs.
* **CMPRequests** - the client under both: how a call gets the request slot and a token of
  the limiter, is sent, refused, sent again, limited or lost, and what the worker that
  made it does next. Time is discrete; what expires is a number of ticks left.
* **CMPCalls** - what CMPRequests promises its callers, without slot, limiter, tokens,
  retries and time: one call at a time is with CMP, which carries it out at most once, and
  the result is true: "ok" was done, "limited" and "unauthorized" were not, "failed" and
  "lost" leave it open, so that the caller has to look. CMPRequests instantiates it (`Calls`)
  under the mapping `Phase`, and `ImplementsCalls` says that it implements it.
* **MCRequests** - the Retry-After headers of its run.
* **CMPRequestsProofs** - theorems and proofs.
* **IngressGroup** - the Ingress reconciler and the path of the deployer it takes, with
  pools, routing rules and certificates, on the API server or on an informer cache that lags. `pc` is the call the worker makes next, `w` what its pass
  holds: the group it is about, the members it read, the observed state so far.
* **MCIngress** - backends and group changes of its runs.
* **IngressGroupProofs** - theorems and proofs: types and certificates;
  **IngressGroupSharingProofs** on top of it: what members of a group share.
* **SeedService** - the reconciler of the Seed's own Services. It EXTENDS ServiceBridge, as
  both controllers drive one deployer: LBService, VIP, listener and clean-up actions are
  shared, and what differs is its own.
* **SeedServiceProofs** - theorems and proofs, on top of ServiceBridgeCleanupProofs.
* **RollingUpdate** - two processes of the bridge at once: ServiceBridge instantiated twice over
  the same API server and the same CMP, each with its own cache, queue and worker; the new
  one starts (`Surge`), the old one stops wherever it is (`Terminate`).

The two halves meet only in `bridge`: what ExtensionLifecycle deploys in a Shoot is
the process ServiceBridge models. They have inventories of CMP of their own, because
they use it differently: the Service reconciler works in the Shoot's LB services and looks
at their status, the extension lists by project and looks at none, and only Ingresses have
pools and rules. Services and Ingresses of the bridge share nothing at CMP but the client:
their LBServices have different names and their annotations different keys. CMPRequests stands
below: a call of ServiceBridge or ExtensionLifecycle that succeeds, fails, or fails after
CMP did what it was asked is one of its calls with the outcome "ok", "failed" or "lost".
CMPCalls is where the two levels meet: the modules above know of a call what it says and
no more.

### Code and actions of ServiceBridge

| Code | Actions |
|---|---|
| `Reconcile`, early returns | `IgnoreService` |
| `Reconcile`, stack building, finalizer | `BeginEnsure`, `EnsureFinalizer` |
| `sharedParentObservedState`, `strictProvidedResourcePolicies`, head of `EnsureStack` | `LoadObserved` |
| `LBServiceManager.Ensure`, `ensureCreatedReady` | `GetRecordedLB`, `DeleteFailedLB`, `FindLBByName`, `CreateLB`, `CheckCreatedLB` |
| `persistLBCheckpoint` (ready and pending hook) | `PersistCheckpoint` |
| `bumpManagedLBRepairState`, retry limit | `BumpRepairs` |
| `recoverVirtualServersByName` | `RecoverByName` |
| `VIPManager.Ensure` | `EnsureVIP`, `DeleteFailedVIP`, `CreateVIP` |
| `VirtualServerManager.Ensure` | `EnsureListener`, `DeleteListener`, `CreateListener`, `CheckCreatedListener` |
| `deleteObsoleteVirtualServers` | `DeleteObsoleteListener` |
| result patch, status | `PersistResult`, `PublishVIP` |
| `cleanupCMPResources`, `CleanupStack` | `BeginCleanup`, `RefuseAmbiguousCleanup`, `CleanListener`, `ConfirmListenerGone`, `CleanVIP`, `CleanLB`, `ConfirmLBGone` |
| `lbfinalizers.Remove` | `RemoveFinalizer` |
| any error return | `CallRefused` (what the state forces), `FailedCall` (what the network does) |

State: `obj`, `ann`, `status` are the Service objects on the API server, `seen`
the informer's copy, `queue` the work queue, `lbs`, `vips`, `vss` the inventory
of CMP. A listener's configuration and backends are one digest, as in
`DesiredVirtualServerHash`; a VIP's address is its id; names are the Service and
port they are computed from.

Left out of ServiceBridge: the 409 of a create whose name is taken, after which `create` looks the
LBService up and adopts it (`lb_service_manager.go:286`; the models have a CMP that accepts
equal names, as the code's own checks for several LBServices of one name expect), events and metrics, the legacy per-port and scalar
virtual-server annotations, recovery of a VIP by its address alone, the
best-effort NetworkPolicy, and placement, network and backend look-ups, which can
only turn a pass into an error return (`FailedCall` allows one at every call).

### Code and actions of SeedService

| Code | Actions |
|---|---|
| `Reconcile`: object gone, no finalizer, type, class, no nodes, no stack | `SeedIgnore` |
| `Reconcile`, finalizer | `SeedBeginEnsure`, `EnsureFinalizer` |
| `ensureCMPResources`, observed state | `SeedLoad` |
| `EnsureStack` without a checkpoint hook | `WithoutCheckpoint` |
| `VirtualServerManager.Ensure` with `CurrentID` from the graph or the virtual-server-id annotation | `SeedEnsureListener` |
| annotation patch at the end, status | `SeedPersist`, `PublishVIP` |
| `cleanupCMPResources` | `SeedBeginCleanup`, then the clean-up of ServiceBridge |

Compared with the bridge: the deletion branch comes before type and class, so that a
Service that stops being ours keeps its finalizer and its resources until it is deleted;
no id is recorded before the pass has succeeded as a whole; the first port is the only
one served; a pending LBService is an error return and not a requeue, which for the queue
is the same. The controller has leader election, hence one worker.

### Code and actions of ExtensionLifecycle and ControlPlaneLB

| Code | Actions |
|---|---|
| `extensionReconcilePredicate`, the watch of Extensions | `Deliver` |
| `client.Get` of the config through the manager's cached client, its informer | `Copy`, `DeliverConfig` |
| `mapSecretToExtensions` | `SecretChanged` |
| `ExtensionReconciler.Reconcile`, early returns, finalizer | `TakeNothing`, `AddFinalizer`, `Begin` |
| `ensureF5LoadBalancerConfig`, `reconcileControlPlaneStatus`, `...SharedSeedIngress` | `EnsureConfig` (`SyncedConfig`, `MergedSpec`), `ConfigFails` |
| `provisionControlPlaneViaCMP`, `ensureOrFindLBService`, `ensureOrFindVIP`, `ensureOrFindVirtualServer` | `EnsureLB`, `EnsureVIPPort`, `EnsureVS`, `ProvisionFails`, `CredentialsRejected` |
| gate of the application plane | `AppPlane` (in `EnsureConfig` and `EnsureVS`) |
| `reconcileCISInShoot`, `cleanupCISInShoot` | `DeployBridge`, `UndeployBridge` |
| `Status().Update` of the config | `SaveConfig`, `SaveConfigFails` |
| `updateExtensionOutput`, `extensionOutputIsCurrent` | `UpdateExtensionOutput` |
| clearing of `gardener.cloud/operation` | `ClearOperation`, `DeleteClearOperation` |
| `actuator.Delete`, `cleanupControlPlaneViaCMP` with its early returns (`ReachesCMP`), `DeleteControlPlaneVirtualServer` | `FindConfig`, `DeleteVirtualServer`, `DeleteVIPPort`, `DeleteLBService`, `DeleteBridge` |
| finalizer removal | `RemoveFinalizer` |

State: `ext` are the Extensions on the API server, `cache` the informer's copies,
`queue` the work queue; `cfg` the F5LoadBalancerConfigs, `copy` the informer's copies of
them, `bridge` what is deployed in each Shoot; `seen`, `mem`, `got`, `why` the worker's locals. Time is `clock`, the
number of requests of gardenlet. A providerConfig is
the three switches the controller reads and the set of fields that are filled in; what it
asks of the control plane and of the application plane (`CPCase`, `AppCase`), whether
deletion reaches CMP (`ReachesCMP`) and what a merge patch makes of two of them
(`MergedSpec`) are computed from these, as in the code. Objects `reconcileCISInShoot` applies
one after the other are one step, because all before the Deployment only prepare it.
An Extension without a providerConfig and the never dispatched ForceDelete, Restore and
Migrate are left out.

### Code and actions of CMPRequests

| Code | Actions |
|---|---|
| `doRequestWithBodyAndHeaders`, entry | `Call` |
| `acquireRequestSlot`, `rateLimiter.Wait` | `AcquireSlot`, `GiveUpSlot`, `GiveUpLimiter` |
| first `httpClient.Do` with `currentCeAuthToken` | `Send` |
| 401: `refreshCeAuthToken`, second `httpClient.Do` | `Retry` |
| every return, with the deferred `releaseRequestSlot` | `ReturnAnswer`, `ReturnTimeout` |
| `RateLimitedError`, `RequeueAfter` in the reconcilers | `Return`, `ComeBack` |
| CMP, the network, time, new events | `Arrive`, `Tick`, `NewWork` |

### Code and actions of IngressGroup

| Code | Actions |
|---|---|
| `Reconcile`, early returns | `Ignore` |
| `Reconcile`, group building, finalizer | `BeginEnsure`, `EnsureFinalizer` |
| `Reconcile`, change of group (`observedIngressGroup`) | `BeginLeave`, `StripObserved` |
| `Reconcile`, deletion with members remaining | `BeginDepart` |
| `cleanupCMPResources`, `isLBServiceShared`, `CleanupStack` | `BeginCleanup`, `CleanChildren`, `CleanListener`, `CleanParents` |
| `LBServiceManager.Ensure`, `VIPManager.Ensure` | `GetLB`, `CreateLB`, `KeepVIP`, `CreateVIP` |
| `VirtualServerManager.Ensure` | `KeepListener`, `RefuseListener`, `CreateListener` |
| `CertificateManager.Ensure` and the attach, detach, create and delete calls of the client | `UploadCertificate`, `BindCertificate`, `UnbindCertificate`, `DeleteCertificate` |
| `populateTLSCertificates`, watch of Secrets | `Start` (`w.material`), `RotateSecret` |
| `PoolManager.EnsureOwned` | `KeepPool`, `CreatePool` |
| `RoutingRuleManager.EnsureOwned` | `KeepRule`, `CreateRule`, `DropRules` |
| `dropMigratedLegacyAliases`, `deleteObsoletePools`, `deleteObsoleteVirtualServers` | `DeleteObsoletePools`, `DeleteObsoleteListeners` |
| `persistGroupObserved`, `EnsureIngressVIP` | `PersistMember`, `PublishMember` |
| `lbfinalizers.Remove` | `RemoveFinalizer` |
| any error return | `PassFails` |
| `mgr.GetClient()`: reads through the informer's cache (`main.go:146`) | `IngRead`, `AnnRead`, `Deliver` |

State: `ing`, `ann`, `status` are the Ingresses on the API server, `ingCache`, `annCache` the
informer's copies, `lbs`, `vips`, `vss` the
inventory of CMP, with pools and rules inside their listener. `EnsureStack` serves three
callers: the pass of a member for its group, of a member that has left for the group it left,
and of one being deleted for those that stay; `w.why` says which, and where the pass goes
once the members have its result. In all three the ids come from the Ingress of the event, and the members are patched against what
was read of them at the start (`w.base`): a field that is what was read is not sent
(`Patched`). The scalar virtual-server id is that of the http listener in the graph and goes
with it.

Certificates are modelled as the client asks for them; what CMP makes of it is assumed, and
external: an attach adds a binding, a DELETE of a certificate unbinds it, an LBService takes
its certificates along, and an upload without content is accepted. The request that shall
unbind an obsolete certificate names it (`client.go:1462`, whose comment says the id is
empty), so that it is an attach, before the DELETE. The passes over a group that was left
never read the Secrets and upload without content (`NoMaterial`).

Left out of IngressGroup: Ingresses of other classes, Secrets that are missing or invalid (the
pass ends in an error before any call), monitors, failed LBServices and VIPs (ServiceBridge
has them), route conflicts, and pool members: `group_builder.go:106` drops the compute id
of every node, and with one ready node `poolMemberSpecs` refuses each pass of every
Ingress, so that the model shows what the code does for backends without ready nodes, or
with that id in place.

## 3. Runs

All runs but `cmp_requests` set CHECK_DEADLOCK FALSE: once every object is deleted the
system really stops. In ServiceBridge ids are bounded by the quota (`LbIds`, `VipIds`,
`VsIds`): a create beyond it fails as a refused call, which the code treats like any other
error. In `ingress_group` there are more ids than the run
can use.

| Run | Instance | What it shows |
|---|---|---|
| `bridge_once` | 1 Service, 1 port, stale reads, every kind of fault, at most one | types; never two LBServices (`OneLBPerService`) nor two listeners of a port (`OneListenerPerPort`); a VIP appears only behind listeners seen ready (`PublishedServes`) |
| `bridge_group` | 2 Services of a vip-group, supplied or own LBService, late visibility, deletion at any time | a Service records and deletes only its own listeners (`RecordedOwned`, `ListenerIsolation`); a parent in use is not deleted (`SharedParentKept`) |
| `bridge_liveness` | 1 Service, 2 ports, one of: listener lost or failed, failed call, port change; deletion | the finalizer goes only after CMP confirmed (`CleanBeforeRelease`); deletion ends (`DeletedServiceGone`); the Service ends up served (`Converges`) |
| `seed_service` | 1 Service, 2 ports one of which is asked for, 2 digests, 4 VIPs and listeners, fresh reads, two of: failed call, listener lost or failed, change of port, backends or type, deletion | one listener per port, though nothing is recorded early (`OneListenerPerPort`); one VIP wasted per disturbance at most (`OneVIPPerDisturbance`); publication, release and deletion (`PublishedServes`, `RecordedGoneBeforeRelease`, `DeletedServiceGone`); the Service ends up served unless its port or backends changed (`SeedConverges`) |
| `hash_livelock`, `rolling_update` | see section 5 | a sentence of the documentation refuted |
| `extension_safety` | 1 Shoot, 3 providerConfigs that differ in different fields (own VIP, shared ingress, closed gate), 3 requests, both informers lag, recreation before garbage collection, one fault of any kind but rejected credentials | types; nothing asked for is slept through (`SettledAgrees`); one stack at CMP (`OneControlPlaneLB`); a reported success has its ids recorded (`SuccessIsRecorded`); the bridge follows the control plane (`AppAfterControlPlane`) |
| `extension_liveness` | 1 Shoot, 3 providerConfigs that reach CMP at deletion (bridge, no bridge, rejected), 3 requests, fresh reads, one fault | the status tells of its generation (`StatusOfGeneration`); if nothing fails a deleted Extension leaves nothing (`CleanRelease`); every request is acknowledged or superseded (`RequestHandled`); a deletion ends (`DeletionEnds`) |
| `cmp_requests` | the Service and the Ingress worker on one client, tokens of 3 ticks, a try of at most 2, one request per 2 ticks, 2 losses, failures, 429s or ended contexts, 4 kinds of Retry-After | one request under way (`OneInFlight`); no call carried out twice (`ExecutedOnce`); none refused for its token (`NeverUnauthorized`); every worker gets done, and nothing deadlocks (`WorkGetsDone`); the client implements CMPCalls (`ImplementsCalls`) |
| `shared_server` | see section 5 | a sentence of the documentation refuted |
| `ingress_group` | 2 Ingresses, groups `a`, `b` and none, one backend in common, one TLS section that comes and goes, Secrets of 2 versions, fresh reads, at most 2 events: creations, deletions, moves, edits, rotations and one fault | types; groups keep their parents apart (`GroupsApart`); no pool goes before the rules a pass wants (`PoolsOutlastRules`); no certificate is uploaded twice (`OneCertificate`); who is not touched stays routed (`RouteKept`); the last member cleans up (`LastCleansUp`); the group ends up with one frontend all agree on (`GroupConverges`) |
| `certificate_rotation` | 1 Ingress with TLS, no fault | a comment of the code refuted (section 5) |

Why these bounds are enough: the code keeps no state across Services other than
CMP and the annotations, so one Service shows every single-Service interleaving
and two show every pairwise one (sharing counts *another* user). One fault at any
of the about 25 program points, followed by complete passes, covers crash and
retry; two ids more than needed let replacements happen. `Born` without "hidden"
in `bridge_once` is an assumption on CMP: the code cannot tell an LBService that is
not visible yet from one that does not exist, and with it `OneLBPerService` fails.

For the extension, one Shoot shows everything but sharing at CMP, for which
`shared_server` has two: nothing else in the code joins two Extensions. Three requests are
a creation, a change and one more change or deletion that overtakes it; a fourth adds
nothing the informer could reorder, as it keeps one copy. Two ids let a replaced stack
stand beside the one being deleted. The assumptions of the two passing runs differ where
the code needs them to:

* `Faults` of `extension_safety` has no "auth": after rejected credentials the code waits
  for the operator (`permanentError`), and the watch of the Secret is what resumes it.
* `StaleReads` and `StaleConfigs` are off in `extension_liveness`: the status goes out as a
  merge patch against the copy read, and on a stale one a new generation is reported with
  the old outcome, which TLC finds with `StaleReads = TRUE`. `Faults` has no "patch" there: the error of the status patch is
  dropped, so with it a request can stay unacknowledged.
* `PromptGC` is on in `extension_liveness`: without it a config can be collected with ids
  recorded in it, and `CleanRelease` is false (section 5).
* the providerConfigs of `extension_liveness` all reach CMP at deletion (`SpecsReachCMP`: the
  per-Shoot VIP, endpoint, tenant and credentials are set). An Extension that ends with
  another is not cleaned up at CMP, though it may once have had a control plane made there:
  `CleanRelease` is false then. It is false, too, with `StaleConfigs`: the config is read
  through the manager's cache like everything else, and a deletion that does not see the ids
  just saved deletes nothing (both in section 5).
* `StaleConfigs` is on in `extension_safety`, and `SettledAgrees` says what it costs: a merge
  patch against an old copy leaves a config, and a bridge, with fields of two
  providerConfigs. In every other case the bridge is that of the Extension.

Fairness of the extension (`FairSpec`): the worker takes its next step, and the
informer delivers (both weak, as the worker has one Shoot at a time and only one Shoot is
in the run). gardenlet, CMP, the garbage collector and the Secret owe nothing.
`RequestHandled` therefore assumes of CMP what it needs, and in its formula: from some
time on CMP answers and has no deletion under way. `DeletionEnds` assumes nothing of it.

For the client, two workers are the number that share one, and one that waits and one
that holds is all the slot tells apart. Two troubles let a retry meet one after its first
try met another. Ticks are coarse, but keep the order that matters: a try (15 s) is over
before a new token (299 s) dies, which `RequestAssumption` demands as `Timeout < Validity`;
a token may die on its way to CMP or in the wait for the limiter. `CanRefresh` is TRUE, as
both workers are given the API key; without it a token that expired ends all work.
Fairness (`FairSpec` of CMPRequests): time passes and workers run (weak), a worker that waits
for the slot gets it in the end (strong: Go wakes the senders of a channel in order), CMP
or the network answers or loses (weak). Losses are bounded, so `WorkGetsDone` says that
work gets done once troubles end.

For the Ingresses, two are a member and the rest of its group; the pairs that matter are one
that acts and one that is acted on. Backend 1 is shared and backend 2 private, so that a
departure drops one pool and keeps the other; the Ingress that has TLS adds and removes the
second listener of the group. Two events are a change and a change or fault that meets its
passes; groups `a` and `b` are symmetric, so all start in `a`. The user is patient: an
Ingress is changed once its last change is reconciled, and none is added to a group while a
member is being deleted. Without the first, the departure of section 5 happens; without
the second the joiner adopts the LBService that is going and records two. Moves of
an ungrouped Ingress into a group are excluded by `Moves`, because the code breaks there
(section 5).

`ingress_group` has `StaleReads` off, because `LastCleansUp` and `GroupConverges` need fresh
reads: on a lagging cache the last member may take its LBService for shared, and a pass that
starts from a copy without ids makes a second VIP and a second set of listeners and records
those. TLC finds both with `StaleReads = TRUE` (section 5). The other four, `GroupsApart`,
`OneCertificate`, `RouteKept` and `PoolsOutlastRules`, were checked with `StaleReads = TRUE`
as well, on 2 Ingresses in `a` and `b`, without faults or edits and with 2 VIPs and 3
listeners (445,003 states; passes that begin on old copies go on making listeners for as long as
the cache lags, and one beyond the last fails as it would on a quota). They hold; it is no
listed run.
Fairness (`FairSpec` of IngressGroup): worker and CMP go on (weak), a queued Ingress is
taken in the end (strong, for the worker is busy in between; node events and the periodic
resync queue managed Ingresses again). `GroupConverges` needs no more.

For the Seed controller, two disturbances are one that cuts a pass short and one that meets what
it left; four VIPs are the three `OneVIPPerDisturbance` allows and one more. Faults left
out of the run are those the code does not recover from, each met with TLC: with a VIP that fails
or is lost every pass makes a new one (section 5); an LBService that fails before its id is
recorded is found by name in every pass and never replaced; a lost LBService leaves two ids
and a deletion that does not end (section 5). `StaleReads` is off: on a copy that shows the
deletion but not yet the ids the clean-up has nothing to do and lets go of recorded
resources, and on one without the ids a pass can make a second VIP, which the listener
then does not match. Fairness (`SeedFairness`) is that of the bridge.

Fairness of the bridge (`Fairness` in ServiceBridge): the worker goroutine takes its next step
(weak); a queued Service is eventually taken (strong, because the worker is busy
in between and the work queue is FIFO); the informer catches up and Node,
EndpointSlice and periodic resync events enqueue every Service again (weak); CMP
finishes what it accepted (weak). No fairness is assumed of faults or users.

## 4. Proofs

### ServiceBridgeProofs

It proves, for every set of Services, ids and ports, every
vip-group, fresh or stale reads, and every selection and number of faults:

* `BridgeInvariant` : Spec => []BridgeInv, the inductive invariant
  `TypeOK /\ PassInv /\ RecordedOwned`;
* `TypeCorrect`, `RecordedListenersOwned` : its parts;
* `OnlyOwnListenersDeleted` : Spec => ListenerIsolation.

Assumptions: `IdAssumption`, `NameAssumption`, `BornAssumption`, `UserAssumption`,
`BridgeAssumption` (ids are positive, names do not clash, supplied resources are
among the ids). TLC evaluates them in every run.

The argument: a listener id enters a graph in three ways - created in this pass,
found under the deterministic name, or read back from annotations that already
held it. `RecordedOwned` says that all graphs (annotations, cache, worker) name only
listeners that are gone or were created by that Service; ids are not reused while
a graph names them (`UnusedVSs`), so "gone" stays true. It is inductive only
together with `PassInv`, which ties the worker's variables to `pc`: while a listener
is in hand (`w.vs`) it is gone or the Service's own, and in the listener loop the
next port is among the ports still to do. `ListenerIsolation` then follows, as every
DELETE takes its id from the graph or from `w.vs`. There is one lemma per group of
actions for types and one for ownership.

### ServiceBridgeServeProofs

* `NoSecondLBService` : if `"hidden" \notin Born`, Spec => []OneLBPerService;
* `NoSecondListener` : if `"hidden" \notin Born`, Spec => []OneListenerPerPort;
* `OnlyServedVIPPublished` : Spec => PublishedServes, whatever reads and CMP are like.

The condition is the one of `bridge_once`: CMP's lists show what was created before. The two
invariants speak of cardinalities; `OneLB` and `OneListener` say the same of pairs, and are
inductive with `LookInv`: when a create is the next call, the look-up has just found nothing
of the name. For listeners that needs the graph, `RecordedOwned`, and the port the
look-up was for to be the port the create is for (`NextPortIs`).
`PublishedServes` needs `ServeInv`: for every port the loop has done, the listener in the
worker's graph was seen ready on the VIP in hand (`DoneServes`), or is gone; what the
worker takes for the recorded annotations is what is recorded (`BaseIsCurrent`, from which the
merge patch is exact), and after the patch the graph recorded is the worker's
(`ResultStored`). "Or is gone" cannot be left out: a listener may be lost between the
moment it was seen and the publication, and no code could see that.

### ServiceBridgeCleanupProofs

* `SharedParentsSurvive` : if `~StaleReads`, Spec => SharedParentKept;
* `ReleasedClean` : if `~StaleReads` and `"hidden" \notin Born`, Spec => CleanBeforeRelease.

Fresh reads are needed, and `bridge_group` and `bridge_liveness` have them: the sibling that
uses the LBService, or the ids to delete, may not be in a lagging cache. `ParentInv` says that a
pass knows the present annotations and that the LBService in hand is the one they
name once it is in the graph (`AllRooted`, `Chosen`), so that a failed LBService that the
ensure path deletes is nobody else's. `CleanupInv` follows the clean-up: whether the LBService may
go still agrees with who uses it (`SharingInv`: others keep finalizer and annotations
while the pass runs), each listener recorded is gone or still on the list (`GoneInv`), and the
LBService goes last (`HandInv`, `ParentGone`). Finite sets of Services are assumed
(`BridgeAssumption`), for the choice of a sibling.

### ExtensionLifecycleProofs

It proves, for every set of Shoots, projects, ids and providerConfigs, fresh or stale
reads, and every selection and number of faults unless an assumption is named:

* `ExtTypeCorrect` : Spec => []ExtTypeOK;
* `NoDuplicateControlPlane` : Spec => []OneControlPlaneLB;
* `PassInvariant` : Spec => []PassInv, where PassInv is
  `ExtTypeOK /\ SpecInv /\ FlowInv`;
* `ApplicationAfterControlPlane` : Spec => AppAfterControlPlane;
* `SuccessesAreRecorded` : Spec => []SuccessIsRecorded;
* `StatusIsOfItsGeneration` : if `StaleReads = FALSE` and `StaleConfigs = FALSE`,
  Spec => []StatusOfGeneration;
* `NoRequestSleptThrough` : if `"auth" \notin Faults` and `StaleConfigs = FALSE`,
  Spec => []SettledAgrees;
* `NothingLeftBehind` : if `PromptGC`, `SpecsReachCMP` (every providerConfig that can be decoded
  has the per-Shoot VIP, endpoint, tenant and credentials), `StaleConfigs = FALSE` and
  `OwnProjects` (no two Shoots in one project), Spec => []CleanRelease.

The conditions are those of the runs; on stale reads StatusOfGeneration is false
(section 3). Without each condition of the last the code does leave something: a Shoot
switched to a providerConfig that does not reach CMP and then deleted skips CMP,
a deletion on an old copy of the config finds no ids, a
second Shoot of a project finds the first one's server (`shared_server`), and an Extension
created again before its predecessor's config is collected loses its ids with that config.
`CleanRelease` itself speaks of behaviours in which nothing has failed yet: clean-up is best
effort, and a failed call is passed over.
Assumptions on constants: `CPAssumption`, which takes CMP's ids to be finitely many (a list
of one is recognised by counting it), and `ExtAssumption`.

The arguments:

* *One stack.* `OneControlPlaneLB` speaks of cardinalities; `Alone` says the same with
  elements (two resources of our name in one place are one) and is inductive: a create
  happens only when the list shows nothing of our name, and the list shows deletions in
  progress. Nothing needs to be known of the worker.
* *The gate.* `FlowInv` ties the worker's locals to its step: while it provisions, its
  config is of the spec it read and each id is in hand when the next call is made; at
  "deploy" the control plane is complete; at the end the outcome is one that its spec
  can have (`Outcomes`). `SpecInv` keeps specs within `Specs`.
* *Success is recorded.* A pass gets past the update of the config only if its copy was the
  present one (`late` is false) or its outcome is no success; nothing but the garbage
  collector and the worker writes the config in between, so at "output" the config on the
  server is the pass's own (`SavedInv`), which `FlowInv` says is complete.
* *The status.* `Truthful` is the property; it is kept by a patch only if the pass knows
  the status it patches and the generation it names. `InStep` says so: on fresh reads a
  pass's copy has the generation's spec and the status of now. A merge patch against
  the right base is exact (`PatchIsExact`), and gardenlet changes a spec only with its
  generation.
* *No request slept through.* `Handled` is the property, stated before settlement:
  an Extension that is not queued, not at work and whose undelivered changes would not
  queue it, is done. It needs: no timestamp is ahead of the clock (`Stamps`), so that
  every request shows; a copy with the timestamp of now shows the request of now
  (`Reads`); if a request is delivered during a pass its Shoot is queued again (`Noticed`);
  and a pass that ends without an error has brought the bridge to what it read
  (`Carried`). Their conjunction `WakeInv` was checked by TLC before it was proved.
* *Nothing left behind.* `KeptInv` says where the ids of what is in use are: in the config,
  or in the hands of the pass that will save them (`HeldLB`, `Recorded`), with the
  finalizer on the Extension; and how far a deletion may be while they are. It holds until the first
  fault, and needs three invariants that hold with faults, too. `CopyInv`: a copy without a
  deletion timestamp is of an Extension that still holds its finalizer, since the
  finalizer is removed only from the very version that was read; so a reconciliation works
  for an Extension that is there. `ConfigInv`: the config belongs to that Extension, so it is
  not collected under it, and a pass starts from the ids in it. `PlaceInv`: a control
  plane's LB service is the one of our name or the only one in the project, so that two of them
  in one project are the same, and the virtual server found again is the one recorded.
  TLC checked the conjunction on two Shoots in two projects before it was proved.

### CMPRequestsProofs

It proves, for any number of workers, any times, headers and number of troubles
(`RequestAssumption`):

* `RequestInvariant` : Spec => []RequestInv;
* `RequestsTyped`, `OneRequestAtATime`, `RetriedOnlyUndone`, `TokenRefreshSuffices` : the
  invariants of the run;
* `RequestsImplementCalls` : Spec => ImplementsCalls, the refinement of CMPCalls.

`OneInFlight` is inductive as `SlotInv`: the slot is out while a call is past it, and one call
only is. The release is where it could break, so one lemma (`ReturnKeeps`) serves every
return. `ExecInv` says what CMP can have done for a call by the state of its try, and
`FreshInv` that the token of a retry under way outlives the try by `Validity - Timeout`, so
that it cannot be refused: time takes as much from one as from the other. `LimiterInv`
is there for the type of the limiter, which a call that gives up pays back.
The refinement has one step per action: most change nothing CMPCalls sees, `AcquireSlot` is
its `Enter`, which needs `SlotInv` for "no other is inside", and the returns need `ExecInv`
and `FreshInv` for the truth of the result.

### IngressGroupProofs and IngressGroupSharingProofs

They prove, for every set of Ingresses, groups, backends and ids, every selection of groups
to move to and every number of changes and faults:

* `TypeCorrect` : Spec => []TypeOK;
* `NoSecondCertificate` : Spec => []OneCertificate;
* `NoForeignLBService` : if `StaleReads = FALSE` and `\A m \in Moves : m[1] # ""`,
  Spec => []GroupsApart;
* `LastOneCleansUp` : if `StaleReads = FALSE`, Spec => LastCleansUp;
* `PoolsGoLast` : if `StaleReads = FALSE`, Spec => PoolsOutlastRules.

The first two hold on any reads. For the last three passes read the Ingresses as they are, which the
code's cached client does not promise. `LastCleansUp` is false without it (section 5);
`GroupsApart` and `PoolsOutlastRules` TLC finds true without it (section 3), but their proofs use `FreshInv`:
the annotations of a member still to be patched are those read at the start of the pass, so that
each patch records the pass's graph exactly.

The hypothesis on `Moves` is needed because the code breaks without it (section 5): an ungrouped
Ingress that is given a group has the group "" recorded, which `ingress_controller.go:134`
takes for nothing to leave. Assumptions on constants: `IngressAssumption`, which says
that every Ingress has a backend (`validateIngressShape` refuses others).

* *Types* need `InHand`, what a pass has at each call (an LBService after "lb", a listener
  at its children, certificates to upload at "cert"), and `PoolsFirst`: when rules are
  next, each backend has its pool in the graph.
* *Groups apart.* `GroupsApart` speaks of annotations, and is inductive as `ApartInv`: an
  Ingress has the resources of one group recorded (`KeyInv`), the LBService recorded has
  that group's name at CMP (`NameInv`), a pass starts from what its own group recorded or
  nothing, and what it then finds or creates is its own by name (`PassInv`), and a member
  that leaves while the pass runs is known to have left (`MemberInv`).
* *The last one cleans up.* `LastCleansUp` is about the step that removes the finalizer. What
  the Ingress had recorded when its pass began is handed on on the way: it is in the
  pass's result or gone (`KeptInv`), is recorded by each member that has had its turn
  (`RecordedInv`), is spared by the clean-up only if another records it (`SharedInv`), so that
  at "unfinalize" all is gone or another's (`HandedOnInv`). `ListenerInv` and `GraphInv` are
  about CMP: a listener is on an LBService that exists, and what a graph names was created
  where the graph says.
* *Pools outlast rules.* A pool is deleted as obsolete when the stack of the pass has no
  backend for it. That no rule the pass wants selects it takes four invariants: the pools in
  hand are those of the graph under their backends' names (`HandInv`, `PoolInv`), a rule
  selects the pool of its own backend (`SelectInv`), and the clean-up of a last member has nobody to want a
  rule (`AloneInv`). The earlier property, "a rule that exists has its pool", is not true of the
  code: with three events (the TLS member leaves, the pass fails between pool and
  listener deletion, a user adds TLS again) a rule of the abandoned listener stands without
  a pool until the next pass. What the code does keep is the order within a pass.

### SeedServiceProofs

It proves of SeedService, for every set of Services, ids, ports and digests and every
selection and number of faults:

* `SeedTypeCorrect` : SeedSpec => []TypeOK;
* `SeedRecordedListenersOwned` : SeedSpec => []RecordedOwned;
* `SeedNoSecondLBService` : if `"hidden" \notin Born`, SeedSpec => []OneLBPerService;
* `SeedNoSecondListener` : if `"hidden" \notin Born`, SeedSpec => []OneListenerPerPort;
* `SeedOnlyServedVIPPublished` : if `~StaleReads`, SeedSpec => PublishedServes;
* `SeedReleasedClean` : if `~StaleReads` and `"hidden" \notin Born`,
  SeedSpec => RecordedGoneBeforeRelease;
* `SeedOneVIPPerDisturbance` : if `Recoverable`,
  SeedSpec /\ [](UnusedVSs # {}) => []OneVIPPerDisturbance.

The conditions are those of the run `seed_service` (`Recoverable` is discussed below). Every step of SeedService is one of
ServiceBridge or one of the controller's own (`SeedSteps`), so the step lemmas of the
bridge's proofs, which speak of actions and not of Spec, serve again, and only the
own steps are new. What the controller adds to the invariants:

* `OnePort`: a Service, its cached copy and a pass have one port. It is why the first
  listener of a graph (`ScalarID`) can be the current one: with two ports the
  virtual-server-id annotation could name the other port's listener.
* Nothing is recorded before the end. So a pass that follows one that was cut short starts
  without ids, and the uniqueness of listeners rests on adoption by name alone: when a create
  is next, no listener of the name is visible on the LBService.
* `SeedParentInvariant`: what the Service has recorded is what the pass began with until the
  final patch, which records the LBService in hand and the graph that hangs on it. This
  needs fresh reads, and the publication and the clean-up rest on it: a stale pass would patch
  against ids that are no longer there.
* `SeedCleanInv`: the clean-up takes the recorded LBService unconditionally (`LBGoes`,
  `LBWent`), where the bridge asks for siblings and modes first, so that when the
  finalizer goes it is gone whatever its name; the listeners follow from `GoneInv` and `HandInv`
  of the bridge.

`OneVIPPerDisturbance` counts, and its proof is an account of who pays for a VIP. It has two
invariants, each checked with TLC on the constants of `seed_service` and on two Services
before it was proved:

* `HomeInv` says where things are while nobody has asked for the deletion of a Service (or a pass
  that began before is still on): each LBService, VIP and listener at CMP has its owner's
  name, a listener hangs on the owner's LBService and VIP, recorded ids are there, and without a
  recorded VIP no listener is recorded (`AtHome`, `RecordsHold`). Of the pass (`EnsureAt`) it
  says that a VIP is created only if none is recorded and no listener of the Service has
  the port, and that a pass without a recorded VIP deletes a listener only once that has failed:
  one adopted by name is always kept (`SeedKeeps`).
* `CreditInv`: a Service has an `Anchor` if a VIP is recorded, or a listener that has not failed
  has its port, or the pass holds the VIP and goes straight to the listener's create
  (`OnItsWay`, `WayIsClear`). With an anchor it has at most one VIP more than there were
  disturbances; without one at most as many, so the one it will create is paid for. If the
  port has changed under a pass (`Moved`), what that pass finds is lost on the next one, and
  there is one disturbance less to spend.

So a step loses an anchor only at the price of a disturbance (`CreditPaid`), a VIP is
created only where there was no anchor and is one (`CreditUsed`), and every other step keeps the
account (`CreditStays`). Three hypotheses carry it. `Recoverable` is that of the run: fresh
reads, and none of the faults the code does not recover from (section 3). Nobody brings
ids along: with ids of a user's LBService that nothing owns, "owner's name" means
nothing. And the quota of listeners is never used up (`UnusedVSs # {}`): CMP then refuses
the listener's create without a disturbance and the VIP just made has no anchor. The run needs
no such hypothesis, because two disturbances cannot use up four listeners.

### Model-checked only

* `RouteKept` of IngressGroup: it is about all members of a group at every call
  of a pass. No proof of it was attempted.
* `GroupsApart` and `PoolsOutlastRules` on a lagging cache, `SettledAgrees` on old copies of
  the config.
* The liveness properties (`Converges`, `SeedConverges`, `DeletedServiceGone`,
  `RequestHandled`, `DeletionEnds`, `WorkGetsDone`, `GroupConverges`), which are out of the
  prover's reach, as are ENABLED and induction over data.

## 5. Findings

Each is a run TLC is expected to refute; PROJECT.json quotes the sentence.

* `hash_livelock` - the pass that deletes a listener for a changed hash returns before
  the graph is written; the old hash then condemns each recreated listener that
  was not ready at once.
* `shared_server` - the control-plane stack is named after the partition, not the Shoot:
  two Shoots of a project share one virtual server, which forwards to the first.
* `certificate_rotation` - a rotated Secret has a new fingerprint, but the certificate is then
  looked up by its name and the old one taken; the new content is never uploaded.
* `rolling_update` - the bridge runs without leader election and its Deployment rolls with the
  default strategy: old and new process reconcile one Service at once, both look its
  LBService up, and both create it (if CMP accepts the second create: see section 2).

### Known behaviours

More disagreements were met while modelling and are behaviours of the modules without a
run:

* deletion at CMP depends on the present spec (`controller.go:798-810`): a Shoot that had its
  control plane made through CMP, was then switched to a VIP made by hand without an
  endpoint, or to the shared one, and is deleted, leaves the stack behind. No call fails.
  `CleanRelease` is refuted once `Specs` of `extension_liveness` holds such a providerConfig;
* the deletion reads the config from the cache (`controller.go:767`): without the ids just
  saved all three deletions are skipped (`client.go:953-967`). No call fails. `CleanRelease` is
  refuted with `StaleConfigs = TRUE`;
* two Ingresses of a group are deleted together; the cache that `isLBServiceShared` lists
  (`ingress_controller.go:482`) still shows the first with its finalizer when the second is
  cleaned up. VIP and LBService are kept for nobody. `LastCleansUp` is refuted with
  `StaleReads = TRUE`, two Ingresses and two deletions;
* an LBService lost at CMP is replaced, the graph keeps the old id as `legacy/lb-service`, and
  `CleanupStack` refuses a graph with two ids for ever (`cleanup.go:140`; docs/FEATURES.md:44
  promises the clean-up). Reached with "lb-lost" in the Faults of `bridge_liveness`;
* a VIP that fails is replaced under a listener that keeps the old one, which is an error
  before anything is recorded: every pass of the Seed controller adds a VIP
  (`vip_manager.go:31`). Reached with "vip-fails" in the Faults of `seed_service`;
* supplied ids without mode annotations become "managed" after the first checkpoint and are
  deleted with the Service (`main.go:997`; `main_test.go:599` expects otherwise);
* an Ingress moved to another vip-group and deleted before the move was reconciled is judged by
  its new group: nobody remains there, and the graph of the old group is deleted under its
  members (`ingress_controller.go:91`);
* a Seed Service deleted after a pass that made resources and before one that recorded them
  lets go of its finalizer and leaves them at CMP (docs/PRODUCTION-READINESS.md:137, F-9);
* a Seed Service whose port changes keeps failing if CMP still lists the old listener under
  the recorded id: port and id do not match, and nothing is replaced
  (`virtual_server_manager.go:150`); a change back ends it, or deletion;
* a listener made by an Ingress pass that then fails is not recorded, and the Ingress path does
  not recover by name: the next pass makes another one of the same name and frontend
  (`virtual_server_manager.go:46` only objects to other names);
* certificates of a group stay at CMP when its last TLS section goes, as the manager is called
  for https listeners only (`deployer.go:373`); they go with the LBService;
* Services of a vip-group created together publish different VIPs, as the LBService is
  named per Service and a sibling is joined only once it has recorded its VIP;
* VIP and listener of a pass that ends pending are recorded nowhere, so deletion on a
  supplied LBService leaves them;
* a listener recovered by name is recorded with the hash desired now, not the one it runs
  with;
* the owner of the F5LoadBalancerConfig is repaired only together with its spec, so an
  Extension created again inherits a config that garbage collection then deletes;
* the first pass of an Ingress that joins a group starts from its own empty annotations:
  it finds the LBService by name, creates a second VIP and listener, records them on every
  member and leaves the first ones at CMP (docs/CHANGELOG-FIXES.md:128 has the joiner list
  the VIPs first); so does a member whose pass ended pending before it had recorded its VIP;
* an Ingress pass that starts from a cached copy without ids, say right after the pass that
  recorded them, finds the LBService by name and makes a second VIP and listeners of the same
  names; the first ones stay at CMP (with `StaleReads = TRUE`; `GroupConverges` is false then);
* with an old copy of the config, the merge patch leaves out what is right in the copy: the config
  can end up with fields of two providerConfigs, and the bridge is deployed from that
  (`controller.go:395`; `SettledAgrees` makes that exception);
* the last member that moves away strips its annotations, and the old group's LBService stays
  at CMP;
* an ungrouped Ingress that is given a vip-group is not seen as leaving anything, since the
  group it has recorded is "": it takes its own listeners along, and if it has TLS they are
  found under another name at the frontend of the new ones and every pass of it fails
  (`virtual_server_manager.go:61`), for ever;
* a pool or rule created in a pass that fails before it records it is "owned by another
  stack" from then on; `GroupConverges` makes that exception.

## 6. Plan

1. ServiceBridge, CMP, ObservedState and their proofs (done).
2. ExtensionLifecycle with ControlPlaneLB and their proofs (done).
3. CMPRequests and its proofs (done).
4. IngressGroup with certificates and its proofs (done but for RouteKept).
5. SeedService on the deployer of ServiceBridge, and its proofs (done).
6. CMPCalls, which CMPRequests implements (done, proved).
7. An abstract Service-LB specification (a Service is absent, provisioning, served or
   gone) that ServiceBridge implements.

## 7. Not modelled

* Raw adapter, typed CMP client, cmpctl: parsing and encoding, no state between calls.
* The builders of stacks, names and digests: pure; the modules have their result as
  names and digests.
* Pool members and monitors: on the Service path CMP gets them with the listener and they
  are part of the digest; on the Ingress path no pass with a member succeeds.
* `Probe` and paging of the client.
* Two processes of svc-lb-bridge at work on Ingresses: RollingUpdate has them for Services,
  and all other modules of the bridge have one.
* A change of class of an Ingress, and the NetworkPolicy of a Service.
* The objects of `reconcileCISInShoot` one by one.

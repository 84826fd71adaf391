--------------------------- MODULE RollingUpdate ---------------------------
(* The Deployment of svc-lb-bridge has one replica and the default strategy  *)
(* (pkg/controller/lifecycle/controller.go), so an update of its template    *)
(* starts the new process before it stops the old one, and the manager is    *)
(* made without leader election (cmd/svc-lb-bridge/main.go): for a while two *)
(* processes, each a ServiceBridge with its own cache, queue and worker, act *)
(* on the same Services and on the same CMP.                                 *)
(*                                                                           *)
(* StaleReads is TRUE in the instances: each process sees through its own    *)
(* informer what the other has written.                                      *)
EXTENDS Naturals, FiniteSets

CONSTANTS Services, LbIds, VipIds, VsIds, Ports, Digests, Born

VARIABLES obj, ann, status, faults, lbs, vips, vss,   \* API server and CMP
          running,                                    \* the processes that are up
          oldSeen, oldQueue, oldPC, oldW,             \* process 1
          newSeen, newQueue, newPC, newW              \* process 2
shared == <<obj, ann, status, faults, lbs, vips, vss>>
olds == <<oldSeen, oldQueue, oldPC, oldW>>
news == <<newSeen, newQueue, newPC, newW>>
vars == <<shared, running, olds, news>>

Old == INSTANCE ServiceBridge WITH
          seen <- oldSeen, queue <- oldQueue, pc <- oldPC, w <- oldW,
          StaleReads <- TRUE, VIPGroup <- {}, UserLBs <- {}, UserVIPs <- {}, UserVIPParent <- 0,
          Faults <- {"delete"}, MaxFaults <- 0, MaxRepairs <- 3
New == INSTANCE ServiceBridge WITH
          seen <- newSeen, queue <- newQueue, pc <- newPC, w <- newW,
          StaleReads <- TRUE, VIPGroup <- {}, UserLBs <- {}, UserVIPs <- {}, UserVIPParent <- 0,
          Faults <- {"delete"}, MaxFaults <- 0, MaxRepairs <- 3

Cached == [s \in Services |-> [obj |-> obj[s], ann |-> ann[s]]]
Existing == {s \in Services : obj[s].there}

Init ==
    /\ Old!Init /\ New!Init
    /\ running = {"old"}

(* A process starts with the objects its informers have listed, and stops    *)
(* wherever it is; its local variables are lost.                             *)
Surge ==
    /\ running = {"old"} /\ running' = {"old", "new"}
    /\ newSeen' = Cached /\ newQueue' = Existing
    /\ UNCHANGED <<shared, olds, newPC, newW>>
Terminate ==
    /\ running = {"old", "new"} /\ running' = {"new"}
    /\ oldPC' = "idle" /\ oldW' = Old!IdleWork /\ oldQueue' = {}
    /\ UNCHANGED <<shared, oldSeen, news>>

Acts(process, worker, others) ==
    /\ process \in running /\ worker
    /\ UNCHANGED <<running, others>>
Next ==
    \/ Surge \/ Terminate
    \/ Acts("old", Old!Worker \/ \E s \in Services : Old!InformerSync(s) \/ Old!Resync(s), news)
    \/ Acts("new", New!Worker \/ \E s \in Services : New!InformerSync(s) \/ New!Resync(s), olds)
    \/ (Old!Provider \/ \E s \in Services : Old!DeleteService(s)) /\ UNCHANGED <<running, news>>
Spec == Init /\ [][Next]_vars
-----------------------------------------------------------------------------
(* What the repository says and the code does not do.                        *)

(* "Repeated reconciliation shall not create duplicates"; PRODUCTION-        *)
(* READINESS.md F-3 has leader election in all three controllers.            *)
NoDuplicate == Old!OneLBPerService
=============================================================================

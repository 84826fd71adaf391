----------------------------- MODULE MCExtension -----------------------------
(* Instances of ExtensionLifecycle: projects and providerConfigs.            *)
EXTENDS ExtensionLifecycle

InProject1 == [s \in Shoots |-> "p1"]

(* A VIP of its own made through CMP, with the bridge; the others differ.    *)
Full == [json |-> TRUE, perShoot |-> TRUE, ready |-> "unset", set |-> Fields, app |-> TRUE]
AppOff     == [Full EXCEPT !.app = FALSE]
SharedOff  == [Full EXCEPT !.perShoot = FALSE, !.app = FALSE]
Waiting    == [Full EXCEPT !.ready = "no"]
Incomplete == [Full EXCEPT !.set = Fields \ {"vip"}]

CmpSpecs == {Full, AppOff}
(* Own VIP, shared ingress, a gate that stays closed: merge patches between  *)
(* them send different fields.                                               *)
MixedSpecs == {Full, SharedOff, Waiting}
(* Clean-up reaches CMP whichever the Extension ends with; only the first    *)
(* two are provisioned there, the last is rejected.                          *)
ReachSpecs == {Full, AppOff, Incomplete}
=============================================================================

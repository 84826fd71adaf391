------------------------------ MODULE MCIngress ------------------------------
(* Instance of the runs of IngressGroup: Ingress i uses the backends 1 .. i, *)
(* so that all have backend 1 in common and the last one has one of its own. *)
EXTENDS IngressGroup

BackendsDef == [i \in Ingresses |-> 1 .. i]
(* From a group to another or to none, never from none into a group: see     *)
(* Left in IngressGroup, which does not take that for a change of group.     *)
MovesDef == (Groups \ {""}) \X Groups
=============================================================================

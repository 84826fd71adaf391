------------------------------ MODULE MCRequests ------------------------------
(* Instances of CMPRequests: the Retry-After values that differ.             *)
EXTENDS CMPRequests

Header(kind, n) == [kind |-> kind, n |-> n]
(* Missing, zero, usable, and a date in the past. *)
SomeHeaders == {Header("absent", 0), Header("seconds", 0), Header("seconds", 2), Header("date", -1)}
=============================================================================

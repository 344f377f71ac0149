----------------------------- MODULE MCIngress -----------------------------
(* Values for Ingress: the first route is of the admin host. *)
EXTENDS Ingress
CONSTANT a1
MCHostOf == [r \in Route |-> IF r = 1 THEN 1 ELSE 2]
=============================================================================

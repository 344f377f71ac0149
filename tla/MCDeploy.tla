------------------------------ MODULE MCDeploy ------------------------------
(* Deploy on small instances: the constants are given in the .cfg files. *)
EXTENDS Deploy

CONSTANTS a1, a2

\* Bound of DeployVolumes: one operator request (a cancel, a delete) at a time.
OneRequest ==
  Cardinality({d \in Dep : cancelling[d] # "no"})
    + Cardinality({a \in App : deleting[a] # "no"}) <= 1

=============================================================================

---------------------------- MODULE MCTagDeploy ----------------------------
(* One app that takes pre-releases, an old release and a newer candidate,   *)
(* one pushed alone, the other with it.                                     *)
EXTENDS TagDeploy, FiniteSets

CONSTANT a1

Old == Tagged("v", <<1, 3, 1>>, <<>>)
Rc  == Tagged("v", <<1, 4, 0>>, <<Word(1), Num(1)>>)

MCTag == {Old, Rc}
MCPolicy == {[lines |-> {"v"}, pre |-> TRUE]}
MCPushes == {<<Old>>, <<Rc, Old>>}

\* Bound: of the three attempts at most one is lost.
OneLost ==
  Cardinality({d \in Dep : status[d] \in {"failed", "cancelled"}}) <= 1
=============================================================================

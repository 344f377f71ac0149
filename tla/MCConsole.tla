----------------------------- MODULE MCConsole -----------------------------
EXTENDS Console, TLC

CONSTANTS p1, p2, a1, d1, g1, none

\* Bound: the requests whose reads no other request's write can spoil wait alone.
Apart ==
  \A o, q \in pend : o # q => {o.op, q.op} \cap {"settings", "reclaim"} = {}

=============================================================================

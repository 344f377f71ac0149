------------------------------ MODULE MCBackup ------------------------------
(* Model values for Backup, and the schedules' arithmetic against the loop. *)
EXTENDS Backup, Sequences

CONSTANTS a1, a2, d1, v1, v2, c1, g1, g2

C == INSTANCE Cron

\* for v := lo; v <= hi; v += step { mask |= 1 << uint(v) } (cron.go:111-113)
Looped(p, f) ==
  LET loop[v \in 0..100] ==
        IF v > C!Last(p, f) THEN {} ELSE {v} \cup loop[v + C!Step(p)]
  IN loop[C!First(p, f)]

SmallPart ==
  [spec : {"*", "value", "range"}, lo : -1..8, hi : 0..8, stepped : BOOLEAN, step : 0..3]

\* The values of a part are the bits that the loop sets, for every part of the weekday
\* and of the month with small numbers.
ASSUME ValuesAsLooped ==
  \A p \in SmallPart : \A f \in {C!Weekday, C!Month} :
    C!Accepted(p, f) => C!Values(p, f) = Looped(p, f) /\ C!Values(p, f) # {}
=============================================================================

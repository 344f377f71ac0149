-------------------------------- MODULE Cron --------------------------------
(***************************************************************************)
(* Five-field cron expressions (internal/cron), which schedule the backups *)
(* and the daily sweep.  A field is a comma list of parts, already split   *)
(* into numbers; it allows a set of values.  A time has the five numbers   *)
(* that the fields are compared with, on the server's own clock.           *)
(***************************************************************************)
EXTENDS Integers, Sequences

Minute == 1
Hour == 2
Day == 3
Month == 4
Weekday == 5
Field == 1..5

bounds == << 0..59, 0..23, 1..31, 1..12, 0..6 >>
lowest == << 0, 0, 1, 1, 0 >>
highest == << 59, 23, 31, 12, 6 >>

\* A part: *, a value or a range, with a step or without.
Part == [spec : {"*", "value", "range"}, lo : Int, hi : Int, stepped : BOOLEAN, step : Int]
Star == [spec |-> "*", lo |-> 0, hi |-> 0, stepped |-> FALSE, step |-> 0]

\* 7 is Sunday, wherever in a part it stands.
parseValue(v, f) == IF v = 7 /\ f = Weekday THEN 0 ELSE v

Step(p) == IF p.stepped THEN p.step ELSE 1
First(p, f) == IF p.spec = "*" THEN lowest[f] ELSE parseValue(p.lo, f)
Last(p, f) ==
  CASE p.spec = "range" -> parseValue(p.hi, f)
    [] p.spec = "value" /\ ~p.stepped -> First(p, f)
    [] OTHER -> highest[f]

\* A step of 1 or more, values within the field's bounds, and no range backwards.
Accepted(p, f) ==
  /\ Step(p) >= 1
  /\ First(p, f) \in bounds[f] /\ Last(p, f) \in bounds[f]
  /\ First(p, f) <= Last(p, f)

Values(p, f) == {v \in First(p, f)..Last(p, f) : (v - First(p, f)) % Step(p) = 0}

\* The bitmask of a field.
parseField(parts, f) == UNION {Values(parts[i], f) : i \in DOMAIN parts}

Expr == [Field -> Seq(Part) \ {<<>>}]
Parses(e) == \A f \in Field : \A i \in DOMAIN e[f] : Accepted(e[f][i], f)

\* Only a bare star leaves a day field open: */2 restricts it, and *,* does too.
Open(parts) == parts = <<Star>>

\* Of two restricted day fields, either may match; otherwise both must.
Matches(e, t) ==
  LET bit(f) == t[f] \in parseField(e[f], f)
  IN /\ bit(Minute) /\ bit(Hour) /\ bit(Month)
     /\ IF Open(e[Day]) \/ Open(e[Weekday]) THEN bit(Day) /\ bit(Weekday)
        ELSE bit(Day) \/ bit(Weekday)
=============================================================================

---------------------------- MODULE DeployStatus ----------------------------
(***************************************************************************)
(* The lifecycle of one deploy attempt: internal/core/statemachine.go.     *)
(* The deployments table is also the job queue, so a row's status is the   *)
(* only record of where an attempt is.  "absent" is not a status of the    *)
(* program: it stands for an id with no row, either not inserted yet or    *)
(* deleted with its app.                                                   *)
(***************************************************************************)

Status == {"queued", "building", "deploying", "running",
           "failed", "cancelled", "superseded"}

\* The legal-transition matrix: the statuses each status may move to.
transitions ==
  [queued     |-> {"building", "cancelled"},
   building   |-> {"deploying", "failed", "cancelled"},
   deploying  |-> {"running", "failed"},
   running    |-> {"superseded"},
   failed     |-> {},
   cancelled  |-> {},
   superseded |-> {}]

CanTransition(from, to) == to \in transitions[from]

IsTerminal(s) == s \in {"running", "failed", "cancelled", "superseded"}

\* A worker may be operating on the attempt.
IsActive(s) == s \in {"building", "deploying"}

\* An operator may cancel the attempt: only before its container goes live.
CanCancel(s) == s \in {"queued", "building"}

=============================================================================

---------------------------- MODULE Deployments ----------------------------
(***************************************************************************)
(* What the deployments table promises, whoever writes to it: rows move    *)
(* only along the legal-transition matrix, an app's attempts are claimed   *)
(* one at a time and in submission order, and a restart or the deletion of *)
(* an app settles all the rows concerned at once.  The detailed module     *)
(* Deploy (worker, pipelines, HTTP handlers, Docker) implements it.        *)
(***************************************************************************)
EXTENDS DeployStatus, Naturals

CONSTANTS
  App,      \* the apps
  NoApp,    \* the owner of an id that was never inserted
  MaxDep    \* bound: deployment rows ever inserted

ASSUME AppAssumption == NoApp \notin App
ASSUME MaxDepAssumption == MaxDep \in Nat

VARIABLES
  apps,     \* the apps that have a row
  owner,    \* deployments.app_id, by deployment id
  status,   \* deployments.status, by deployment id
  next      \* the id the next insert gets (AUTOINCREMENT: never reused)

vars == <<apps, owner, status, next>>

Dep == 1..MaxDep

Rows(a) == {d \in Dep : owner[d] = a /\ status[d] # "absent"}

Init ==
  /\ apps = App
  /\ owner = [d \in Dep |-> NoApp]
  /\ status = [d \in Dep |-> "absent"]
  /\ next = 1

Enqueue(a) ==
  /\ a \in apps
  /\ next \in Dep
  /\ owner' = [owner EXCEPT ![next] = a]
  /\ status' = [status EXCEPT ![next] = "queued"]
  /\ next' = next + 1
  /\ UNCHANGED apps

\* The oldest queued row of an app starts, and only when no other is active.
Claim(d) ==
  /\ status[d] = "queued"
  /\ \A e \in Rows(owner[d]) :
        /\ ~IsActive(status[e])
        /\ status[e] = "queued" => d <= e
  /\ status' = [status EXCEPT ![d] = "building"]
  /\ UNCHANGED <<apps, owner, next>>

\* A claimed or cancelled row moves on along the matrix.
Move(d, to) ==
  /\ status[d] \in Status
  /\ to \in transitions[status[d]] \ {"building", "superseded"}
  /\ status' = [status EXCEPT ![d] = to]
  /\ UNCHANGED <<apps, owner, next>>

\* The rows an attempt that holds the traffic replaces are retired together.
Retire(d) ==
  /\ status[d] \in {"running", "deploying", "superseded"}
  /\ status' = [e \in Dep |-> IF e \in Rows(owner[d]) \ {d} /\ status[e] = "running"
                              THEN "superseded" ELSE status[e]]
  /\ UNCHANGED <<apps, owner, next>>

\* A restart fails every active row and leaves the queued ones alone.
Recover ==
  /\ status' = [d \in Dep |-> IF IsActive(status[d]) THEN "failed" ELSE status[d]]
  /\ UNCHANGED <<apps, owner, next>>

DeleteApp(a) ==
  /\ a \in apps
  /\ apps' = apps \ {a}
  /\ status' = [d \in Dep |-> IF owner[d] = a THEN "absent" ELSE status[d]]
  /\ UNCHANGED <<owner, next>>

Next ==
  \/ \E a \in App : Enqueue(a) \/ DeleteApp(a)
  \/ \E d \in Dep : Claim(d) \/ Retire(d) \/ \E to \in Status : Move(d, to)
  \/ Recover

Spec == Init /\ [][Next]_vars

-----------------------------------------------------------------------------

TypeOK ==
  /\ apps \subseteq App
  /\ owner \in [Dep -> App \cup {NoApp}]
  /\ status \in [Dep -> Status \cup {"absent"}]
  /\ next \in 1..(MaxDep + 1)

\* An app never has two attempts being worked on: the per-app serialization
\* that lets a pipeline replace the app's container without locking anything.
OneActivePerApp ==
  \A d, e \in Dep :
    owner[d] = owner[e] /\ IsActive(status[d]) /\ IsActive(status[e]) => d = e

\* An attempt starts only when every older attempt of its app has settled, so a
\* rapid double-click deploys in submission order.
ClaimsInOrder ==
  [][\A d \in Dep :
       status[d] = "queued" /\ status'[d] = "building" =>
         \A e \in Rows(owner[d]) : e < d => IsTerminal(status[e])]_vars

=============================================================================

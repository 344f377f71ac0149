------------------------------ MODULE GitPush ------------------------------
(***************************************************************************)
(* git push to deploy: the SSH server that hands a session to git          *)
(* (internal/gitssh), the bare repository of an app and its post-receive   *)
(* hook (internal/gitrepo), the bridge that turns the hook's report into a *)
(* deployment and gates the push on it (internal/githook), the worker that *)
(* clones the deploy branch, and the handlers that delete the app, change  *)
(* its branch, click Deploy or cancel, on top of module Deployments.       *)
(*                                                                         *)
(* All the apps here carry one name, one after the other: a push to a name *)
(* nobody has creates its app.  A commit is the number of the push that    *)
(* stored it, so a later one of a branch contains the earlier ones.        *)
(***************************************************************************)
EXTENDS Deployments, FiniteSets

CONSTANTS
  Push,       \* the pushes, each with an SSH session of its own
  Branch,     \* the branches that are pushed
  NoBranch    \* the branch of an app that was never created

ASSUME GitPushAssumption == NoBranch \notin Branch /\ IsFiniteSet(Push)

VARIABLES
  born,       \* the apps that were ever created (ids are not reused)
  branch,     \* apps.branch
  repo,       \* whether the bare repository of the name exists
  tip,        \* its branches: the commit each points at, 0 for none
  commits,    \* how many pushes have been stored
  push,       \* by push, where it is and what it knows
  place,      \* by deployment, the pipeline's place
  built,      \* by deployment, the commit it cloned and is about to bring up
  closed,     \* the deployments whose log stream has been closed
  removing,   \* whether a delete handler is about to remove the repository
  served,     \* the commit in the app's container, 0 without one
  moved       \* history: the apps whose branch an operator changed

rows    == <<apps, owner, status, next>>
host    == <<repo, tip, commits>>
work    == <<place, built, closed>>
gpVars  == <<rows, born, branch, host, push, work, removing, served, moved>>

\* What Handle has learnt: the ref and the commit that were stored, the app and its
\* branch as resolveOrCreate read them, and the deployment, each for as long as it
\* matters.  A push ends with exit 0, "deployed" or only "stored", or with an error:
\* "failed" for a deployment that did not make it, "error" for everything else.
NewPush == [at |-> "idle", ref |-> NoBranch, commit |-> 0, app |-> NoApp,
            branch |-> NoBranch, dep |-> 0]

GpInit ==
  /\ apps \in {{}} \cup {{a} : a \in App}
  /\ owner = [d \in Dep |-> NoApp]
  /\ status = [d \in Dep |-> "absent"]
  /\ next = 1
  /\ born = apps
  /\ branch \in [App -> Branch \cup {NoBranch}]
  /\ \A a \in App : branch[a] = NoBranch <=> a \notin apps
  /\ repo = FALSE /\ tip = [b \in Branch |-> 0] /\ commits = 0
  /\ push = [p \in Push |-> NewPush]
  /\ place = [d \in Dep |-> "none"] /\ built = [d \in Dep |-> 0]
  /\ closed = {}
  /\ removing = FALSE /\ served = 0 /\ moved = {}

-----------------------------------------------------------------------------
(* The SSH session and git. *)

At(p, at) == push[p].at = at
Answer(p, r) == push' = [push EXCEPT ![p] = r]
Told(p, code) == [push[p] EXCEPT !.at = code, !.ref = NoBranch, !.branch = NoBranch]
Refused == [NewPush EXCEPT !.at = "error"]
Ended(r) == r.at \in {"idle", "deployed", "stored", "failed", "error"}

\* RunHook: without an exit line before the connection ends, the push has failed.
RunHook(r) == IF Ended(r) THEN r ELSE Refused

Follow(p, d) == Answer(p, [Told(p, "stream") EXCEPT !.dep = d])

\* gitrepo's Init: the repository is created when it is missing, its hook is written.
OpenRepo == repo' = TRUE

\* The session hands its channel to git.
runGit(p) ==
  /\ At(p, "idle")
  /\ OpenRepo
  /\ push' = [push EXCEPT ![p].at = "receive"]
  /\ UNCHANGED <<rows, born, branch, tip, commits, work, removing, served, moved>>

\* git receive-pack stores the branch and then runs the hook; without the
\* repository it refuses the push.
ReceivePack(p, b) ==
  /\ At(p, "receive")
  /\ \/ /\ repo
        /\ commits' = commits + 1
        /\ tip' = [tip EXCEPT ![b] = commits + 1]
        /\ push' = [push EXCEPT ![p].at = "hook", ![p].ref = b, ![p].commit = commits + 1]
     \/ /\ ~repo
        /\ Answer(p, Refused)
        /\ UNCHANGED <<commits, tip>>
  /\ UNCHANGED <<rows, born, branch, repo, work, removing, served, moved>>

-----------------------------------------------------------------------------
(* The bridge. *)

Resolved(p, a, b) ==
  push' = [push EXCEPT ![p].at = "enqueue", ![p].app = a, ![p].branch = b]

\* The app that has the name, if there is one.
resolveOrCreate(p) ==
  /\ At(p, "hook")
  /\ \/ \E a \in apps : Resolved(p, a, branch[a])
     \/ apps = {} /\ push' = [push EXCEPT ![p].at = "cold"]
  /\ UNCHANGED <<rows, born, branch, host, work, removing, served, moved>>

\* Mutant of coldCreate: the app is created, and its first deployment left to somebody.
coldCreateOnly(p) ==
  /\ At(p, "cold")
  /\ repo /\ apps = {}
  /\ \E a \in App \ born :
       /\ apps' = {a} /\ born' = born \cup {a}
       /\ branch' = [branch EXCEPT ![a] = push[p].ref]
       /\ Answer(p, [Told(p, "stored") EXCEPT !.app = a])
  /\ UNCHANGED <<owner, status, next, host, work, removing, served, moved>>

\* The kind is detected in the repository, then the app is inserted: somebody else
\* may have removed the one or have taken the name by then.
coldCreate(p) ==
  /\ At(p, "cold")
  /\ \/ /\ repo /\ apps = {}
        /\ \E a \in App \ born :
             /\ apps' = {a} /\ born' = born \cup {a}
             /\ branch' = [branch EXCEPT ![a] = push[p].ref]
             /\ Resolved(p, a, push[p].ref)
     \/ /\ ~repo \/ apps # {}
        /\ Answer(p, Refused)
        /\ UNCHANGED <<apps, born, branch>>
  /\ UNCHANGED <<owner, status, next, host, work, removing, served, moved>>

\* Mutant of serve: a push while one is queued or active joins that one.
serveJoins(p) ==
  /\ At(p, "enqueue") /\ push[p].ref = push[p].branch /\ push[p].app \in apps
  /\ \/ \E d \in Rows(push[p].app) :
          /\ ~IsTerminal(status[d])
          /\ Follow(p, d)
          /\ UNCHANGED rows
     \/ /\ \A d \in Rows(push[p].app) : IsTerminal(status[d])
        /\ Enqueue(push[p].app)
        /\ Follow(p, next)
  /\ UNCHANGED <<born, branch, host, work, removing, served, moved>>

\* Only a push to the branch it read deploys; the insert fails if the app is gone.
serve(p) ==
  /\ At(p, "enqueue")
  /\ LET a == push[p].app
     IN \/ /\ push[p].ref = push[p].branch
           /\ Enqueue(a)
           /\ Follow(p, next)
        \/ /\ push[p].ref = push[p].branch /\ a \notin apps
           /\ Answer(p, Refused) /\ UNCHANGED rows
        \/ /\ push[p].ref # push[p].branch
           /\ Answer(p, Told(p, "stored")) /\ UNCHANGED rows
  /\ UNCHANGED <<born, branch, host, work, removing, served, moved>>

\* The stream the push follows ends.
runDeploy(p) ==
  /\ At(p, "stream") /\ push[p].dep \in closed
  /\ push' = [push EXCEPT ![p].at = "finish"]
  /\ UNCHANGED <<rows, born, branch, host, work, removing, served, moved>>

\* Mutant of finish: whatever did not fail was deployed.
finishUnlessFailed(p) ==
  /\ At(p, "finish")
  /\ Answer(p, IF status[push[p].dep] = "failed" THEN Told(p, "failed") ELSE Told(p, "deployed"))
  /\ UNCHANGED <<rows, born, branch, host, work, removing, served, moved>>

\* The exit code is the row's status, read once the stream has ended.
finish(p) ==
  /\ At(p, "finish")
  /\ Answer(p, CASE status[push[p].dep] = "running" -> Told(p, "deployed")
                 [] status[push[p].dep] = "absent" -> Refused
                 [] OTHER -> Told(p, "failed"))
  /\ UNCHANGED <<rows, born, branch, host, work, removing, served, moved>>

\* Handle's deadline: it is noticed while the push follows the stream.
Timeout(p) ==
  /\ At(p, "stream")
  /\ Answer(p, Refused)
  /\ UNCHANGED <<rows, born, branch, host, work, removing, served, moved>>

-----------------------------------------------------------------------------
(* The worker, as far as a push can tell. *)

Goto(d, p) == place' = [place EXCEPT ![d] = p]

\* A guarded status write: no effect once the row has moved on.
SetStatus(d, from, to) ==
  IF status[d] = from THEN Move(d, to) ELSE UNCHANGED rows

Start(d) ==
  /\ Claim(d)
  /\ Goto(d, "clone")
  /\ UNCHANGED <<born, branch, host, push, built, closed, removing, served, moved>>

\* The tip of the app's deploy branch is cloned and built.
Clone(d) ==
  /\ place[d] = "clone" /\ owner[d] \in apps
  /\ repo /\ tip[branch[owner[d]]] # 0
  /\ built' = [built EXCEPT ![d] = IF status[d] = "building" THEN tip[branch[owner[d]]] ELSE 0]
  /\ SetStatus(d, "building", "deploying")
  /\ Goto(d, IF status[d] = "building" THEN "ship" ELSE "close")
  /\ UNCHANGED <<born, branch, host, push, closed, removing, served, moved>>

\* Any step may fail, one behind the cutover too.
Fail(d) ==
  /\ place[d] \in {"clone", "ship"}
  /\ SetStatus(d, IF place[d] = "clone" THEN "building" ELSE "deploying", "failed")
  /\ Goto(d, "close")
  /\ served' \in IF place[d] = "ship" /\ owner[d] \in apps THEN {served, built[d]} ELSE {served}
  /\ built' = [built EXCEPT ![d] = 0]
  /\ UNCHANGED <<born, branch, host, push, closed, removing, moved>>

Ship(d) ==
  /\ place[d] = "ship" /\ owner[d] \in apps
  /\ served' = built[d] /\ built' = [built EXCEPT ![d] = 0]
  /\ SetStatus(d, "deploying", "running")
  /\ Goto(d, "close")
  /\ UNCHANGED <<born, branch, host, push, closed, removing, moved>>

\* The end of runPipeline: an attempt that went live retires the rows it replaced,
\* and the log stream is closed.
Close(d) ==
  /\ place[d] = "close"
  /\ IF status[d] \in {"running", "superseded"} THEN Retire(d) ELSE UNCHANGED rows
  /\ closed' = closed \cup {d}
  /\ Goto(d, "none")
  /\ UNCHANGED <<born, branch, host, push, built, removing, served, moved>>

\* Worker.Cancel: the row, then its log stream.
Cancel(d) ==
  /\ CanCancel(status[d])
  /\ Move(d, "cancelled")
  /\ closed' = closed \cup {d}
  /\ UNCHANGED <<born, branch, host, push, place, built, removing, served, moved>>

-----------------------------------------------------------------------------
(* The other handlers, and the process. *)

Click(a) ==
  /\ Enqueue(a)
  /\ UNCHANGED <<born, branch, host, push, work, removing, served, moved>>

\* Once per app is enough: nothing is claimed of an app whose branch was changed.
SetBranch(a, b) ==
  /\ a \in apps \ moved /\ b # branch[a]
  /\ branch' = [branch EXCEPT ![a] = b]
  /\ moved' = moved \cup {a}
  /\ UNCHANGED <<rows, born, host, push, work, removing, served>>

\* The container and the rows go, then the repository of the name.  (What comes
\* between the first two is in module Deploy.)
DeleteRows(a) ==
  /\ DeleteApp(a)
  /\ served' = 0
  /\ removing' = TRUE
  /\ UNCHANGED <<born, branch, host, push, work, moved>>

RemoveRepo ==
  /\ removing
  /\ removing' = FALSE
  /\ repo' = FALSE /\ tip' = [b \in Branch |-> 0]
  /\ UNCHANGED <<rows, born, branch, commits, push, work, served, moved>>

\* The process dies: the hook sees its connection end without an exit line and fails
\* the push; the next process boots.
Restart ==
  /\ Recover
  /\ push' = [p \in Push |-> RunHook(push[p])]
  /\ place' = [d \in Dep |-> "none"] /\ built' = [d \in Dep |-> 0]
  /\ removing' = FALSE
  /\ UNCHANGED <<born, branch, host, closed, served, moved>>

Bridge(p) == resolveOrCreate(p) \/ coldCreate(p) \/ serve(p) \/ runDeploy(p) \/ finish(p)

Pipeline(d) ==
  Clone(d) \/ Fail(d) \/ Ship(d) \/ Close(d)

GpNext ==
  \/ \E p \in Push : \/ runGit(p) \/ (\E b \in Branch : ReceivePack(p, b))
                     \/ Bridge(p) \/ Timeout(p)
  \/ \E d \in Dep : Start(d) \/ Pipeline(d) \/ Cancel(d)
  \/ \E a \in App : \/ Click(a) \/ DeleteRows(a)
                    \/ \E b \in Branch : SetBranch(a, b)
  \/ RemoveRepo
  \/ Restart

GpSpec == GpInit /\ [][GpNext]_gpVars

-----------------------------------------------------------------------------

GpTypeOK ==
  /\ TypeOK /\ Cardinality(apps) <= 1 /\ apps \subseteq born /\ born \subseteq App
  /\ branch \in [App -> Branch \cup {NoBranch}]
  /\ repo \in BOOLEAN /\ removing \in BOOLEAN
  /\ commits \in 0..Cardinality(Push) /\ tip \in [Branch -> 0..commits]
  /\ push \in [Push -> [at : {"idle", "receive", "hook", "cold", "enqueue", "stream",
                              "finish", "deployed", "stored", "failed", "error"},
                        ref : Branch \cup {NoBranch}, commit : 0..commits,
                        app : App \cup {NoApp}, branch : Branch \cup {NoBranch},
                        dep : 0..MaxDep]]
  /\ place \in [Dep -> {"none", "clone", "ship", "close"}]
  /\ built \in [Dep -> 0..commits] /\ served \in 0..commits
  /\ closed \subseteq Dep /\ moved \subseteq App

\* "Deployed" is true, and stays so: as long as the app is there, on the branch it
\* was pushed to, its container has the pushed commit or a later one, whoever else
\* pushes, clicks, cancels or fails (bridge.go, finish).
DeployedIsServed ==
  \A p \in Push :
    push[p].at = "deployed" /\ push[p].app \in apps \ moved => served >= push[p].commit

\* The exit code is the row's: a push is told "deployed" only for an attempt that
\* went live, and told "failed" never of one that is live.
ExitCodeHonest ==
  \A p \in Push :
    LET s == status[push[p].dep]
    IN /\ At(p, "deployed") => s \in {"running", "superseded", "absent"}
       /\ At(p, "failed") => s # "running"

\* A commit on the deploy branch is not left behind in silence: once nothing is in
\* flight it is served, or the push that stored it exited with an error.
NothingSilent ==
  \A p \in Push, a \in apps \ moved :
    /\ \A q \in Push : Ended(push[q]) \/ At(q, "receive")
    /\ \A d \in Dep : place[d] = "none" /\ ~IsActive(status[d]) /\ status[d] # "queued"
    /\ push[p].commit # 0 /\ push[p].commit = tip[branch[a]]
    /\ push[p].app = a /\ push[p].at \in {"deployed", "stored"}
    => served = push[p].commit

\* A push that waits is waiting for somebody: its attempt is still to be claimed, or
\* has a pipeline, or its stream has been closed.  Only under a deleted app, whose
\* rows went without a word to the stream, does it wait for its deadline.
PushIsEnded ==
  \A p \in Push :
    At(p, "stream") /\ push[p].app \in apps =>
      LET d == push[p].dep
      IN status[d] = "queued" \/ place[d] # "none" \/ d \in closed

\* What a push is told, and that it will be told, at every moment of the push and of
\* the deployment it waits for (githook/bridge.go).
PushInv == GpTypeOK /\ ExitCodeHonest /\ PushIsEnded

=============================================================================

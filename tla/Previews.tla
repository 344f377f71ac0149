------------------------------ MODULE Previews ------------------------------
(***************************************************************************)
(* Preview environments (internal/previewmgr): a child app per pull        *)
(* request.  GitHub's events reach one consumer goroutine through a        *)
(* bounded queue; the same goroutine sweeps every hour.  The pages destroy *)
(* previews on their own goroutine: one preview, the previews of forks     *)
(* when the setting goes off, all of them before the parent app goes.      *)
(* Deliveries are lost, delayed and reordered, calls fail or run out of    *)
(* time, and the process may die between any two steps.                    *)
(***************************************************************************)
EXTENDS Naturals, Sequences, FiniteSets

CONSTANTS
  PR,             \* pull requests of the parent's repository
  Fork,           \* those from a fork
  MaxConcurrent,  \* the parent's cap on previews
  QueueSize,      \* events that wait (64 in the code)
  Overlap,        \* TRUE: pages, events and deploys may meet on one preview
  MaxEvents,      \* bound: pull_request events GitHub ever sends
  MaxFaults,      \* bound: calls that fail or time out
  MaxCrashes      \* bound

NoPR == "no pull request"

ASSUME PreviewsAssumption ==
  /\ NoPR \notin PR /\ Fork \subseteq PR /\ Overlap \in BOOLEAN
  /\ {MaxConcurrent, QueueSize} \subseteq Nat \ {0}
  /\ {MaxEvents, MaxFaults, MaxCrashes} \subseteq Nat

VARIABLES
  gh,        \* what GitHub says of each pull request: "none", "open", "closed"
  wire,      \* deliveries on their way
  queue,     \* Manager.events
  parent,    \* the parent app's row is there
  allowForks,
  kids,      \* the preview of each pull request: "none", "half" while it is built, "built"
  deploy,    \* it has a queued or active deployment
  dbs,       \* its database: "none", "loose" without an attachment, "attached"
  serving,   \* its containers run
  act,       \* what the consumer ("run") and the page's goroutine ("page") do
  sent, faults, crashes,
  leaked,    \* history: databases a failed call or a crash left behind
  halves     \* history: previews whose spawn a crash or a failed rollback cut short

tables == <<parent, allowForks, kids, deploy, dbs>>
github == <<gh, wire, sent>>
bounds == <<faults, crashes, leaked, halves>>
previewVars == <<github, queue, tables, serving, act, bounds>>

Actor == {"run", "page"}
Idle == [at |-> "idle", pr |-> NoPR, db |-> FALSE, late |-> FALSE, list |-> {}, then |-> "done"]

PreviewInit ==
  /\ gh = [p \in PR |-> "none"] /\ wire = {} /\ sent = 0
  /\ queue = <<>>
  /\ parent = TRUE /\ allowForks \in BOOLEAN
  /\ kids = [p \in PR |-> "none"] /\ deploy = [p \in PR |-> FALSE]
  /\ dbs = [p \in PR |-> "none"] /\ serving = [p \in PR |-> FALSE]
  /\ act = [a \in Actor |-> IF a = "run" THEN [Idle EXCEPT !.at = "boot"] ELSE Idle]
  /\ faults = 0 /\ crashes = 0 /\ leaked = {} /\ halves = {}

Live == {p \in PR : kids[p] # "none"}
Proceed(a, at) == act' = [act EXCEPT ![a].at = at]
Free(a, p) == Overlap \/ \A b \in Actor \ {a} : act[b].pr # p

\* The actor is done with its pull request: on to the rest of its list.
Finish(a) ==
  [act EXCEPT ![a] = IF act[a].then = "idle" THEN Idle
                     ELSE [act[a] EXCEPT !.at = act[a].then, !.pr = NoPR, !.db = FALSE]]
Done(a) == act' = Finish(a)

\* A call under a context that is over fails; any other may, alone or with the
\* context: an event has a deadline, the browser of a single destroy may leave.
CallFails(a, next) ==
  \/ act[a].late /\ UNCHANGED faults /\ act' = [next EXCEPT ![a].late = TRUE]
  \/ /\ ~act[a].late /\ faults < MaxFaults /\ faults' = faults + 1
     /\ \E l \in {FALSE, act[a].then = "idle"} : act' = [next EXCEPT ![a].late = l]

-----------------------------------------------------------------------------
(* GitHub.                                                                 *)

Send(p, state, action) ==
  /\ sent < MaxEvents /\ sent' = sent + 1
  /\ gh' = [gh EXCEPT ![p] = state]
  /\ wire' = wire \cup {[pr |-> p, action |-> action]}
  /\ UNCHANGED <<queue, tables, serving, act, bounds>>

OpenPR(p) == gh[p] # "open" /\ Send(p, "open", "opened")
PushToPR(p) == gh[p] = "open" /\ Send(p, "open", "opened")  \* synchronize is handled alike
ClosePR(p) == gh[p] = "open" /\ Send(p, "closed", "closed")

\* A full queue, or a manager that has stopped, refuses the delivery.
EnqueueEvent(e) ==
  /\ e \in wire /\ Len(queue) < QueueSize
  /\ queue' = Append(queue, e)
  /\ wire' = wire \ {e}
  /\ UNCHANGED <<gh, sent, tables, serving, act, bounds>>

LoseDelivery(e) ==
  /\ e \in wire
  /\ wire' = wire \ {e}
  /\ UNCHANGED <<gh, sent, queue, tables, serving, act, bounds>>

-----------------------------------------------------------------------------
(* The consumer: one event or one sweep at a time.                         *)

handleJob ==
  LET e == Head(queue) IN
  /\ act["run"].at = "idle" /\ queue # <<>>
  /\ Free("run", e.pr)
  /\ queue' = Tail(queue)
  /\ act' = [act EXCEPT !["run"] =
       IF ~parent \/ (e.action = "opened" /\ e.pr \in Fork /\ ~allowForks) THEN Idle
       ELSE [Idle EXCEPT !.pr = e.pr, !.then = "idle",
                         !.at = IF e.action = "closed" THEN "teardown" ELSE "spawn"]]
  /\ UNCHANGED <<github, tables, serving, bounds>>

CapReached(n) == n >= MaxConcurrent

\* An existing preview is deployed again; otherwise its row is inserted.
spawn ==
  LET p == act["run"].pr IN
  /\ act["run"].at = "spawn"
  /\ \/ /\ ~act["run"].late /\ kids[p] # "none"
        /\ deploy' = [deploy EXCEPT ![p] = TRUE]
        /\ Done("run") /\ UNCHANGED <<kids, faults>>
     \/ /\ ~act["run"].late /\ kids[p] = "none"
        /\ IF CapReached(Cardinality(Live)) THEN Done("run") /\ UNCHANGED kids
           ELSE kids' = [kids EXCEPT ![p] = "half"] /\ Proceed("run", "provision")
        /\ UNCHANGED <<deploy, faults>>
     \/ CallFails("run", Finish("run")) /\ UNCHANGED <<kids, deploy>>
  /\ UNCHANGED <<github, queue, parent, allowForks, dbs, serving, crashes, leaked, halves>>

\* Any error after the row is there rolls the preview back.
RolledBack == [act EXCEPT !["run"].at = "roll_back"]

\* Database names are unique.  A database that does not come up is removed under
\* the same context, over or not.
provisionDatabases ==
  LET p == act["run"].pr IN
  /\ act["run"].at = "provision"
  /\ \/ /\ ~act["run"].late /\ dbs[p] = "none"
        /\ dbs' = [dbs EXCEPT ![p] = "loose"]
        /\ Proceed("run", "attach") /\ UNCHANGED <<faults, leaked>>
     \/ /\ ~act["run"].late /\ dbs[p] # "none"
        /\ act' = RolledBack /\ UNCHANGED <<dbs, faults, leaked>>
     \/ /\ CallFails("run", RolledBack)
        /\ IF dbs[p] = "none" /\ act'["run"].late /\ ~act["run"].late
           THEN dbs' = [dbs EXCEPT ![p] = "loose"] /\ leaked' = leaked \cup {p}
           ELSE UNCHANGED <<dbs, leaked>>
  /\ UNCHANGED <<github, queue, parent, allowForks, kids, deploy, serving, crashes, halves>>

\* The attachment refers to the app's row; without it the database goes again.
AttachDatabase ==
  LET p == act["run"].pr IN
  /\ act["run"].at = "attach"
  /\ \/ /\ ~act["run"].late /\ kids[p] # "none"
        /\ dbs' = [dbs EXCEPT ![p] = "attached"]
        /\ Proceed("run", "build") /\ UNCHANGED <<faults, leaked>>
     \/ /\ ~act["run"].late /\ kids[p] = "none"
        /\ dbs' = [dbs EXCEPT ![p] = "none"]
        /\ act' = RolledBack /\ UNCHANGED <<faults, leaked>>
     \/ /\ CallFails("run", RolledBack)
        /\ IF act'["run"].late
           THEN leaked' = leaked \cup {p} /\ UNCHANGED dbs
           ELSE dbs' = [dbs EXCEPT ![p] = "none"] /\ UNCHANGED leaked
  /\ UNCHANGED <<github, queue, parent, allowForks, kids, deploy, serving, crashes, halves>>

\* Domains, the URL variable and the first deployment.
buildPreview ==
  LET p == act["run"].pr IN
  /\ act["run"].at = "build"
  /\ \/ /\ ~act["run"].late /\ kids[p] # "none"
        /\ kids' = [kids EXCEPT ![p] = "built"]
        /\ deploy' = [deploy EXCEPT ![p] = TRUE]
        /\ Done("run") /\ UNCHANGED faults
     \/ /\ ~act["run"].late /\ kids[p] = "none"
        /\ act' = RolledBack /\ UNCHANGED <<kids, deploy, faults>>
     \/ /\ CallFails("run", RolledBack)
        /\ UNCHANGED <<kids, deploy>>
  /\ UNCHANGED <<github, queue, parent, allowForks, dbs, serving, crashes, leaked, halves>>

\* Mutant of Captured: the attachments are read when the row has gone.
CapturedLate(p) == FALSE
\* The databases are captured while their attachments are there: the attachments
\* go with the row, and the row of a database cannot go before them.
Captured(p) == dbs[p] = "attached"

\* A list of attachments that cannot be read is taken for an empty one.
Capture(a, at) ==
  \/ /\ act' = [act EXCEPT ![a] = [@ EXCEPT !.at = at, !.late = FALSE, !.db = Captured(act[a].pr)]]
     /\ UNCHANGED <<faults, leaked>>
  \/ /\ dbs[act[a].pr] = "attached" /\ leaked' = leaked \cup {act[a].pr}
     /\ faults < MaxFaults /\ faults' = faults + 1
     /\ act' = [act EXCEPT ![a] = [@ EXCEPT !.at = at, !.late = FALSE, !.db = FALSE]]

\* The rollback outlives the context of the job.
cleanupChild ==
  /\ act["run"].at = "roll_back"
  /\ Capture("run", "delete")
  /\ UNCHANGED <<github, queue, tables, serving, crashes, halves>>

-----------------------------------------------------------------------------
(* Tearing a preview down, by the consumer or by a page.                   *)

\* Mutant of GiveUp: the gate is not there, and the rows go all the same.
GoOn(a) == [act EXCEPT ![a].at = "delete"]
\* A call that fails leaves every row for the next try; a page gives up.
GiveUp(a) == IF a = "page" THEN [act EXCEPT ![a] = Idle] ELSE Finish(a)

\* A pull request without a preview is nothing to do.
teardown(a) ==
  LET p == act[a].pr IN
  /\ act[a].at = "teardown"
  /\ \/ ~act[a].late /\ kids[p] = "none" /\ Done(a) /\ UNCHANGED <<faults, leaked>>
     \/ ~act[a].late /\ kids[p] # "none" /\ Capture(a, "remove")
     \/ CallFails(a, GiveUp(a)) /\ UNCHANGED leaked
  /\ UNCHANGED <<github, queue, tables, serving, crashes, halves>>

RemoveApp(a) ==
  LET p == act[a].pr IN
  /\ act[a].at = "remove"
  /\ \/ /\ ~act[a].late
        /\ serving' = [serving EXCEPT ![p] = FALSE]
        /\ Proceed(a, "delete") /\ UNCHANGED faults
     \/ /\ CallFails(a, GiveUp(a))
        /\ serving' \in {serving, [serving EXCEPT ![p] = FALSE]}
  /\ UNCHANGED <<github, queue, tables, crashes, leaked, halves>>

\* The attachments go with the row; the databases are destroyed after it.
DeleteChild(a) ==
  LET p == act[a].pr IN
  /\ act[a].at = "delete"
  /\ \/ /\ ~act[a].late
        /\ kids' = [kids EXCEPT ![p] = "none"]
        /\ deploy' = [deploy EXCEPT ![p] = FALSE]
        /\ dbs' = [dbs EXCEPT ![p] = IF @ = "attached" THEN "loose" ELSE @]
        /\ IF act[a].db THEN Proceed(a, "destroy") ELSE Done(a)
        /\ halves' = halves \ {p} /\ UNCHANGED faults
     \/ /\ CallFails(a, GiveUp(a))
        /\ halves' = halves \cup {q \in {p} : kids[q] = "half"}
        /\ UNCHANGED <<kids, deploy, dbs>>
  /\ UNCHANGED <<github, queue, parent, allowForks, serving, crashes, leaked>>

\* A database that cannot be destroyed is logged.
DestroyDatabase(a) ==
  LET p == act[a].pr IN
  /\ act[a].at = "destroy"
  /\ \/ /\ ~act[a].late
        /\ dbs' = [dbs EXCEPT ![p] = "none"]
        /\ Done(a) /\ UNCHANGED <<faults, leaked>>
     \/ CallFails(a, Finish(a)) /\ leaked' = leaked \cup {p} /\ UNCHANGED dbs
  /\ UNCHANGED <<github, queue, parent, allowForks, kids, deploy, serving, crashes, halves>>

-----------------------------------------------------------------------------
(* The sweep, at boot and every hour.                                      *)

SweepTick ==
  /\ act["run"].at \in {"boot", "idle"}
  /\ act' = [act EXCEPT !["run"] = [Idle EXCEPT !.at = "sweep", !.then = "sweep", !.list = Live]]
  /\ UNCHANGED <<github, queue, tables, serving, bounds>>

\* Mutant of prClosed: an answer of GitHub is never waited for.
stateUnknown(p) == FALSE
prClosed(p) == gh[p] = "closed"

Unwanted(p) == ~parent \/ prClosed(p) \/ (p \in Fork /\ ~allowForks)

\* A preview whose newest deployment is old goes too.  An error on the way,
\* GitHub's included, keeps the preview until the next sweep.
SweepNext(p) ==
  /\ act["run"].at = "sweep" /\ p \in act["run"].list /\ Free("run", p)
  /\ \/ /\ \E idle \in {FALSE, kids[p] = "built"} :
             LET go == Unwanted(p) \/ idle IN
             act' = [act EXCEPT !["run"].list = @ \ {p},
                                !["run"].at = IF go THEN "teardown" ELSE "sweep",
                                !["run"].pr = IF go THEN p ELSE NoPR]
        /\ UNCHANGED faults
     \/ faults < MaxFaults /\ faults' = faults + 1 /\ act' = [act EXCEPT !["run"].list = @ \ {p}]
  /\ UNCHANGED <<github, queue, tables, serving, crashes, leaked, halves>>

SweepEnd ==
  /\ act["run"].at = "sweep" /\ act["run"].list = {}
  /\ act' = [act EXCEPT !["run"] = Idle]
  /\ UNCHANGED <<github, queue, tables, serving, bounds>>

-----------------------------------------------------------------------------
(* The pages.  Their requests outlive the browser, except the single        *)
(* destroy.                                                                *)

handleDestroyPreview(p) ==
  /\ act["page"].at = "idle" /\ kids[p] # "none" /\ Free("page", p)
  /\ act' = [act EXCEPT !["page"] = [Idle EXCEPT !.at = "teardown", !.pr = p, !.then = "idle"]]
  /\ UNCHANGED <<github, queue, tables, serving, bounds>>

\* Turning forks off saves the setting and then tears their previews down.
handleSavePreviewConfig ==
  /\ act["page"].at = "idle" /\ parent
  /\ allowForks' = ~allowForks
  /\ act' = [act EXCEPT !["page"] = IF allowForks THEN [Idle EXCEPT !.at = "list", !.then = "next"] ELSE Idle]
  /\ UNCHANGED <<github, queue, parent, kids, deploy, dbs, serving, bounds>>

handleDeleteApp ==
  /\ act["page"].at = "idle" /\ parent
  /\ act' = [act EXCEPT !["page"] = [Idle EXCEPT !.at = "list", !.then = "parent"]]
  /\ UNCHANGED <<github, queue, tables, serving, bounds>>

ListPreviewsForParent ==
  /\ act["page"].at = "list"
  /\ act' = [act EXCEPT !["page"].at = act["page"].then,
                        !["page"].list = IF act["page"].then = "parent" THEN Live ELSE Live \cap Fork]
  /\ UNCHANGED <<github, queue, tables, serving, bounds>>

DestroyByID(p) ==
  /\ act["page"].at \in {"next", "parent"} /\ p \in act["page"].list /\ Free("page", p)
  /\ act' = [act EXCEPT !["page"].list = @ \ {p}, !["page"].pr = p, !["page"].at = "teardown"]
  /\ UNCHANGED <<github, queue, tables, serving, bounds>>

\* Nothing left of the list: the parent's own row goes, or the page answers.
EndPage ==
  /\ act["page"].at \in {"next", "parent"} /\ act["page"].list = {}
  /\ parent' = (parent /\ act["page"].at # "parent")
  /\ act' = [act EXCEPT !["page"] = Idle]
  /\ UNCHANGED <<github, queue, allowForks, kids, deploy, dbs, serving, bounds>>

-----------------------------------------------------------------------------

\* The worker deploys the preview, or fails to.
Deploy(p) ==
  /\ deploy[p] /\ Free("nobody", p)
  /\ deploy' = [deploy EXCEPT ![p] = FALSE]
  /\ serving' \in {serving, [serving EXCEPT ![p] = TRUE]}
  /\ UNCHANGED <<github, queue, parent, allowForks, kids, dbs, act, bounds>>

\* The process dies and comes back.
Crash ==
  /\ crashes < MaxCrashes /\ crashes' = crashes + 1
  /\ queue' = <<>>
  /\ act' = [a \in Actor |-> IF a = "run" THEN [Idle EXCEPT !.at = "boot"] ELSE Idle]
  /\ dbs' \in {dbs} \cup {[dbs EXCEPT ![p] = "loose"] : p \in {q \in PR :
                            act["run"].pr = q /\ act["run"].at = "provision" /\ dbs[q] = "none"}}
  /\ leaked' = leaked \cup {p \in PR : dbs'[p] = "loose"}
  /\ halves' = halves \cup {p \in PR : kids[p] = "half"}
  /\ UNCHANGED <<github, parent, allowForks, kids, deploy, serving, faults>>

Run ==
  \/ handleJob \/ spawn \/ provisionDatabases \/ AttachDatabase \/ buildPreview \/ cleanupChild
  \/ teardown("run") \/ RemoveApp("run") \/ DeleteChild("run") \/ DestroyDatabase("run")
  \/ (\E p \in PR : SweepNext(p)) \/ SweepEnd

Page ==
  \/ ListPreviewsForParent \/ (\E p \in PR : DestroyByID(p)) \/ EndPage
  \/ teardown("page") \/ RemoveApp("page") \/ DeleteChild("page") \/ DestroyDatabase("page")

PreviewNext ==
  \/ \E p \in PR : OpenPR(p) \/ PushToPR(p) \/ ClosePR(p) \/ handleDestroyPreview(p) \/ Deploy(p)
  \/ \E e \in wire : EnqueueEvent(e) \/ LoseDelivery(e)
  \/ Run \/ SweepTick \/ Page
  \/ handleSavePreviewConfig \/ handleDeleteApp \/ Crash

PreviewSpec == PreviewInit /\ [][PreviewNext]_previewVars

\* The consumer and a page's goroutine go on, and the ticker comes back.
PreviewFairSpec == PreviewSpec /\ WF_previewVars(Run) /\ WF_previewVars(Page) /\ SF_previewVars(SweepTick)

-----------------------------------------------------------------------------

PreviewTypeOK ==
  /\ gh \in [PR -> {"none", "open", "closed"}]
  /\ wire \subseteq [pr : PR, action : {"opened", "closed"}]
  /\ Len(queue) <= QueueSize
  /\ {parent, allowForks} \subseteq BOOLEAN
  /\ kids \in [PR -> {"none", "half", "built"}]
  /\ deploy \in [PR -> BOOLEAN] /\ serving \in [PR -> BOOLEAN]
  /\ dbs \in [PR -> {"none", "loose", "attached"}]
  /\ \A a \in Actor : act[a].pr \in PR \cup {NoPR} /\ act[a].list \subseteq PR

\* What serves has a row, however a teardown, a rollback or a crash went: a
\* preview without one would keep the parent's secrets and never be reaped.
ServingHasRow == \A p \in PR : serving[p] => kids[p] # "none"

\* A preview's database is attached, or about to be attached or destroyed, unless
\* a call failed or the process died at that moment: rollback and teardown find
\* databases by their attachments alone.
DatabaseOwned ==
  \A p \in PR : dbs[p] = "loose" =>
    p \in leaked \/ \E a \in Actor : act[a].pr = p /\ act[a].at \in {"attach", "destroy"}

\* The cap holds although it is checked before the row is inserted.
WithinCap == Cardinality(Live) <= MaxConcurrent

\* A preview outside its own spawn is complete, unless a crash or a rollback that
\* could not delete cut that spawn short: a later push deploys it as it is.
NoHalfPreview == \A p \in PR : kids[p] = "half" => p \in halves \/ act["run"].pr = p

\* A preview nobody wants goes, though its events were lost, refused by a full
\* queue or overtaken, its teardown failed, or it was spawned behind the page's back.
Wanted(p) == parent /\ gh[p] # "closed" /\ (p \in Fork => allowForks)
UnwantedGoes == \A p \in PR : (~Wanted(p) /\ kids[p] # "none") ~> (Wanted(p) \/ kids[p] = "none")

\* What a spawn, a redeploy and a teardown keep, wherever they stop
\* (previewmgr/manager.go).
PreviewInv == PreviewTypeOK /\ ServingHasRow /\ WithinCap /\ NoHalfPreview

=============================================================================

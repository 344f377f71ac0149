----------------------------- MODULE Retention -----------------------------
(***************************************************************************)
(* Image retention: what internal/prune removes from the Docker host, in   *)
(* the after-deploy hook and in the daily sweep, against the rollbacks     *)
(* and builds that need it, on top of the deployments table.               *)
(*                                                                         *)
(* The image outhaul/<app>:<id> is named by the id of the attempt that     *)
(* builds it; a rollback's row bears the image of the attempt it goes back *)
(* to.  Docker refuses to remove the image of an existing container.       *)
(***************************************************************************)
EXTENDS Deployments, FiniteSets

CONSTANTS
  Keep,        \* OUTHAUL_IMAGE_KEEP, 1 or more: 0 turns pruning off
  Shipped,     \* how many attempts have gone live, one after another, so far
  Crashes,     \* may the process crash?
  Deletes      \* may an app be deleted?

ASSUME RetentionAssumption ==
  /\ App # {} /\ Keep \in Nat \ {0} /\ Shipped \in 1..MaxDep
  /\ Crashes \in BOOLEAN /\ Deletes \in BOOLEAN

VARIABLES
  image,    \* deployments.image: 0 for none
  pruned,   \* deployments.image_pruned
  host,     \* the images on the Docker host
  canon,    \* by app, the image of its container, 0 for no container
  work,     \* the dep-<id> checkouts under the work dir
  place,    \* by deployment, the pipeline's place
  asked,    \* by app, the row a rollback handler has read, 0 for none
  deleting, \* the apps a delete handler is half done with
  todo,     \* by pruner, the images PruneApp has yet to remove
  removed,  \* by pruner, the image removed and not yet marked
  sweep,    \* the daily sweep: its phase and what it has read
  raced     \* history: images a row came to bear while a pruner had them in hand, or
            \* whose app was being deleted when the process died

rows == <<apps, owner, status, next>>
disk == <<host, canon, work>>
hook == <<todo, removed>>
retVars == <<rows, image, pruned, disk, place, asked, deleting, hook, sweep, raced>>

\* The rows of an app that have an image to go back to, and those images.
Bearers(a) == {d \in Rows(a) : image[d] # 0 /\ ~pruned[d]}
Recorded(a) == {image[d] : d \in Bearers(a)}

\* A pruner: a pipeline in its after-deploy hook, or the sweep.
Sweep  == 0
Pruner == Dep \cup {Sweep}

NoSweep == [phase |-> "idle", apps |-> {}, items |-> {}, item |-> 0]

\* One app has a past: attempts that built their images and succeeded each other.
RetInit ==
  LET first == CHOOSE a \in App : TRUE
  IN
  /\ apps = App /\ next = Shipped + 1
  /\ owner = [d \in Dep |-> IF d <= Shipped THEN first ELSE NoApp]
  /\ status = [d \in Dep |-> IF d < Shipped THEN "superseded"
                             ELSE IF d = Shipped THEN "running" ELSE "absent"]
  /\ image = [d \in Dep |-> IF d <= Shipped THEN d ELSE 0]
  /\ pruned = [d \in Dep |-> FALSE]
  /\ host = 1..Shipped /\ work = {}
  /\ canon = [a \in App |-> IF a = first THEN Shipped ELSE 0]
  /\ place = [d \in Dep |-> "none"]
  /\ asked = [a \in App |-> 0] /\ deleting = {}
  /\ todo = [p \in Pruner |-> {}] /\ removed = [p \in Pruner |-> 0]
  /\ sweep = NoSweep
  /\ raced = {}

-----------------------------------------------------------------------------
(* The handlers. *)

Deploy(a) ==
  /\ Enqueue(a)
  /\ UNCHANGED <<image, pruned, disk, place, asked, deleting, hook, sweep, raced>>

\* handleRollback reads the source row and refuses one whose image is pruned,
\* then inserts the new row.
Rollback(d) ==
  /\ status[d] # "absent" /\ image[d] # 0 /\ ~pruned[d]
  /\ asked[owner[d]] = 0
  /\ asked' = [asked EXCEPT ![owner[d]] = d]
  /\ UNCHANGED <<rows, image, pruned, disk, place, deleting, hook, sweep, raced>>

\* The pruners that have an image in hand.
Held(i) ==
  \/ \E p \in Pruner : i \in todo[p] \/ removed[p] = i
  \/ sweep.phase = "orphans" /\ i \in sweep.items \cup {sweep.item}

CreateRollback(a) ==
  /\ asked[a] # 0
  /\ asked' = [asked EXCEPT ![a] = 0]
  /\ LET i == image[asked[a]]
     IN \/ /\ Enqueue(a)
           /\ image' = [image EXCEPT ![next] = i]
           /\ raced' = IF Held(i) \/ i \notin host THEN raced \cup {i} ELSE raced
        \/ a \notin apps /\ UNCHANGED <<rows, image, raced>>
  /\ UNCHANGED <<pruned, disk, place, deleting, hook, sweep>>

Cancel(d) ==
  /\ CanCancel(status[d])
  /\ Move(d, "cancelled")
  /\ UNCHANGED <<image, pruned, disk, place, asked, deleting, hook, sweep, raced>>

\* Deleting an app takes its container and its recorded images, best-effort, and
\* then its rows; what Docker keeps is for the sweep to find.
DeleteImages(a) ==
  /\ Deletes /\ a \in apps \ deleting
  /\ deleting' = deleting \cup {a}
  /\ \E kept \in {0, canon[a]}, left \in SUBSET Recorded(a) :
       /\ canon' = [canon EXCEPT ![a] = kept]
       /\ host' = (host \ Recorded(a)) \cup (host \cap (left \cup {kept}))
  /\ UNCHANGED <<rows, image, pruned, work, place, asked, hook, sweep, raced>>

DeleteRows(a) ==
  /\ a \in deleting
  /\ DeleteApp(a)
  /\ deleting' = deleting \ {a}
  /\ UNCHANGED <<image, pruned, disk, place, asked, hook, sweep, raced>>

-----------------------------------------------------------------------------
(* The pipeline, as far as images are concerned. *)

Goto(d, p) == place' = [place EXCEPT ![d] = p]

\* The pipeline returns, and its deferred cleanup removes the checkout.
End(d) == Goto(d, "none") /\ work' = work \ {d}

\* A guarded status write: no effect once the row has moved on.
SetStatus(d, from, to) ==
  IF status[d] = from THEN Move(d, to) ELSE UNCHANGED rows

Start(d) ==
  /\ Claim(d)
  /\ Goto(d, IF image[d] = 0 THEN "clone" ELSE "advance")
  /\ UNCHANGED <<image, pruned, disk, asked, deleting, hook, sweep, raced>>

Clone(d) ==
  /\ place[d] = "clone"
  /\ work' = work \cup {d}
  /\ Goto(d, "build")
  /\ UNCHANGED <<rows, image, pruned, host, canon, asked, deleting, hook, sweep, raced>>

\* A build needs its checkout to the end.
Build(d) ==
  /\ place[d] = "build" /\ d \in work
  /\ host' = host \cup {d}
  /\ Goto(d, "record")
  /\ UNCHANGED <<rows, image, pruned, canon, work, asked, deleting, hook, sweep, raced>>

SetImage(d) ==
  /\ place[d] = "record"
  /\ image' = IF status[d] = "absent" THEN image ELSE [image EXCEPT ![d] = d]
  /\ raced' = IF Held(d) THEN raced \cup {d} ELSE raced
  /\ Goto(d, "advance")
  /\ UNCHANGED <<rows, pruned, disk, asked, deleting, hook, sweep>>

Advance(d) ==
  /\ place[d] = "advance"
  /\ SetStatus(d, "building", "deploying")
  /\ IF status[d] = "building" THEN Goto(d, "ship") /\ UNCHANGED work ELSE End(d)
  /\ UNCHANGED <<image, pruned, host, canon, asked, deleting, hook, sweep, raced>>

\* The container the attempt replaces goes first, whatever the strategy.
Cut(d) ==
  /\ place[d] = "ship"
  /\ canon' = [canon EXCEPT ![owner[d]] = 0]
  /\ Goto(d, "cut")
  /\ UNCHANGED <<rows, image, pruned, host, work, asked, deleting, hook, sweep, raced>>

\* The new one is created from the image, which must be there by then.
Ship(d) ==
  /\ place[d] = "cut" /\ status[d] = "deploying" /\ image[d] \in host
  /\ canon' = [canon EXCEPT ![owner[d]] = image[d]]
  /\ Move(d, "running")
  /\ Goto(d, "retire")
  /\ UNCHANGED <<image, pruned, host, work, asked, deleting, hook, sweep, raced>>

\* Whatever goes wrong on the way: after the cut the app may be left without a
\* container, or with the one that failed.
Fail(d) ==
  /\ place[d] \in {"clone", "build", "record", "ship", "cut"}
  /\ SetStatus(d, IF place[d] \in {"ship", "cut"} THEN "deploying" ELSE "building", "failed")
  /\ \/ canon' = canon
     \/ place[d] = "cut" /\ image[d] \in host /\ canon' = [canon EXCEPT ![owner[d]] = image[d]]
  /\ End(d)
  /\ UNCHANGED <<image, pruned, host, asked, deleting, hook, sweep, raced>>

SupersedeOthers(d) ==
  /\ place[d] = "retire"
  /\ IF status[d] = "absent" THEN UNCHANGED rows ELSE Retire(d)
  /\ Goto(d, "prune")
  /\ UNCHANGED <<image, pruned, disk, asked, deleting, hook, sweep, raced>>

-----------------------------------------------------------------------------
(* The pruners. *)

\* The newest row that bears an image, among the unpruned rows of an app.
NewestWith(a, i) ==
  CHOOSE d \in Bearers(a) : image[d] = i /\ \A e \in Bearers(a) : image[e] = i => e <= d

Window(a) ==
  {i \in Recorded(a) : Cardinality({j \in Recorded(a) : NewestWith(a, j) > NewestWith(a, i)}) < Keep}

\* Mutant of Protected: the live image is left to the window.
ProtectedInFlight(a) ==
  {image[d] : d \in {d \in Bearers(a) : ~IsTerminal(status[d])}}

\* What is in flight, and the newest running row.
Protected(a) ==
  {image[d] : d \in {d \in Bearers(a) :
     \/ ~IsTerminal(status[d])
     \/ /\ status[d] = "running"
        /\ \A e \in Bearers(a) : status[e] = "running" => e <= d}}

pruneCandidates(a) == Recorded(a) \ (Window(a) \cup Protected(a))

InUse(i) == \E a \in App : canon[a] = i

\* PruneApp reads the app's rows once: in the pipeline's hook, or for each app of
\* the sweep.
PruneAfterDeploy(d) ==
  /\ place[d] = "prune"
  /\ todo' = [todo EXCEPT ![d] = pruneCandidates(owner[d])]
  /\ Goto(d, "pruning")
  /\ UNCHANGED <<rows, image, pruned, disk, asked, deleting, removed, sweep, raced>>

Idle(p) == todo[p] = {} /\ removed[p] = 0

PruneSwept(a) ==
  /\ sweep.phase = "apps" /\ a \in sweep.apps /\ Idle(Sweep)
  /\ todo' = [todo EXCEPT ![Sweep] = pruneCandidates(a)]
  /\ sweep' = [sweep EXCEPT !.apps = @ \ {a}]
  /\ UNCHANGED <<rows, image, pruned, disk, place, asked, deleting, removed, raced>>

\* Docker removes the image, or refuses and the row stays as it is.
RemoveImage(p, i) ==
  /\ i \in todo[p] /\ removed[p] = 0
  /\ todo' = [todo EXCEPT ![p] = @ \ {i}]
  /\ \/ ~InUse(i) /\ host' = host \ {i} /\ removed' = [removed EXCEPT ![p] = i]
     \/ InUse(i) /\ UNCHANGED <<host, removed>>
  /\ UNCHANGED <<rows, image, pruned, canon, work, place, asked, deleting, sweep, raced>>

MarkImagePruned(p) ==
  /\ removed[p] # 0
  /\ pruned' = [d \in Dep |-> pruned[d] \/ (status[d] # "absent" /\ image[d] = removed[p])]
  /\ removed' = [removed EXCEPT ![p] = 0]
  /\ UNCHANGED <<rows, image, disk, place, asked, deleting, todo, sweep, raced>>

PruneDone(d) ==
  /\ place[d] = "pruning" /\ Idle(d)
  /\ End(d)
  /\ UNCHANGED <<rows, image, pruned, host, canon, asked, deleting, hook, sweep, raced>>

\* The sweep goes on to the images no row retains, and then to the checkouts.
SweepStart ==
  /\ sweep.phase = "idle"
  /\ sweep' = [sweep EXCEPT !.phase = "apps", !.apps = apps]
  /\ UNCHANGED <<rows, image, pruned, disk, place, asked, deleting, hook, raced>>

ListImages ==
  /\ sweep.phase = "apps" /\ sweep.apps = {} /\ Idle(Sweep)
  /\ sweep' = [sweep EXCEPT !.phase = "retained", !.items = host]
  /\ UNCHANGED <<rows, image, pruned, disk, place, asked, deleting, hook, raced>>

RetainedImages ==
  /\ sweep.phase = "retained"
  /\ LET kept == {image[d] : d \in {d \in Dep : status[d] # "absent" /\ image[d] # 0 /\ ~pruned[d]}}
     IN sweep' = [sweep EXCEPT !.phase = "orphans", !.items = @ \ kept]
  /\ UNCHANGED <<rows, image, pruned, disk, place, asked, deleting, hook, raced>>

\* Mutants of InFlight: nothing is; every attempt with a row is.
NeverInFlight(i) == FALSE
HasRow(i) == status[i] # "absent"

\* tagInFlight: the attempt the tag names has a row that has not settled.
InFlight(i) == status[i] # "absent" /\ ~IsTerminal(status[i])

TakeItem(phase, i) ==
  /\ sweep.phase = phase /\ sweep.item = 0 /\ i \in sweep.items
  /\ sweep' = [sweep EXCEPT !.items = @ \ {i}, !.item = IF InFlight(i) THEN 0 ELSE i]
  /\ UNCHANGED <<rows, image, pruned, disk, place, asked, deleting, hook, raced>>

CheckOrphan(i) == TakeItem("orphans", i)

RemoveOrphan ==
  /\ sweep.phase = "orphans" /\ sweep.item # 0
  /\ \/ ~InUse(sweep.item) /\ host' = host \ {sweep.item}
     \/ InUse(sweep.item) /\ host' = host
  /\ sweep' = [sweep EXCEPT !.item = 0]
  /\ UNCHANGED <<rows, image, pruned, canon, work, place, asked, deleting, hook, raced>>

ReadWorkDir ==
  /\ sweep.phase = "orphans" /\ sweep.items = {} /\ sweep.item = 0
  /\ sweep' = [sweep EXCEPT !.phase = "dirs", !.items = work]
  /\ UNCHANGED <<rows, image, pruned, disk, place, asked, deleting, hook, raced>>

CheckDir(i) == TakeItem("dirs", i)

RemoveDir ==
  /\ sweep.phase = "dirs" /\ sweep.item # 0
  /\ work' = work \ {sweep.item}
  /\ sweep' = [sweep EXCEPT !.item = 0]
  /\ UNCHANGED <<rows, image, pruned, host, canon, place, asked, deleting, hook, raced>>

SweepDone ==
  /\ sweep.phase = "dirs" /\ sweep.items = {} /\ sweep.item = 0
  /\ sweep' = NoSweep
  /\ UNCHANGED <<rows, image, pruned, disk, place, asked, deleting, hook, raced>>

\* The process dies and the next one boots: images, containers and checkouts stay.
Crash ==
  /\ Crashes
  /\ Recover
  /\ place' = [d \in Dep |-> "none"]
  /\ asked' = [a \in App |-> 0] /\ deleting' = {}
  /\ todo' = [p \in Pruner |-> {}] /\ removed' = [p \in Pruner |-> 0]
  /\ sweep' = NoSweep
  /\ raced' = raced \cup UNION {Recorded(a) : a \in deleting}
  /\ UNCHANGED <<image, pruned, disk>>

-----------------------------------------------------------------------------

Pipeline(d) ==
  \/ Clone(d) \/ Build(d) \/ SetImage(d) \/ Advance(d) \/ Cut(d) \/ Ship(d) \/ Fail(d)
  \/ SupersedeOthers(d) \/ PruneAfterDeploy(d) \/ PruneDone(d)

Prune(p) == MarkImagePruned(p) \/ \E i \in Dep : RemoveImage(p, i)

DailySweep ==
  \/ SweepStart \/ ListImages \/ RetainedImages \/ RemoveOrphan
  \/ ReadWorkDir \/ RemoveDir \/ SweepDone \/ Prune(Sweep)
  \/ \E a \in App : PruneSwept(a)
  \/ \E i \in Dep : CheckOrphan(i) \/ CheckDir(i)

RetNext ==
  \/ \E a \in App : Deploy(a) \/ CreateRollback(a) \/ DeleteImages(a) \/ DeleteRows(a)
  \/ \E d \in Dep : Rollback(d) \/ Cancel(d) \/ Start(d) \/ Pipeline(d) \/ Prune(d)
  \/ DailySweep
  \/ Crash

RetSpec == RetInit /\ [][RetNext]_retVars

\* Goroutines run when they can, the sweep comes every day, and the process does not
\* crash for ever before it is through.
RetFairSpec ==
  /\ RetSpec
  /\ <>[][~Crash]_retVars
  /\ WF_retVars(DailySweep)
  /\ \A a \in App : WF_retVars(DeleteRows(a))
  /\ \A d \in Dep : WF_retVars(Start(d)) /\ WF_retVars(Pipeline(d)) /\ WF_retVars(Prune(d))

-----------------------------------------------------------------------------

RetTypeOK ==
  /\ TypeOK
  /\ image \in [Dep -> 0..MaxDep] /\ pruned \in [Dep -> BOOLEAN]
  /\ host \subseteq Dep /\ canon \in [App -> 0..MaxDep] /\ work \subseteq Dep
  /\ place \in [Dep -> {"none", "clone", "build", "record", "advance", "ship", "cut",
                        "retire", "prune", "pruning"}]
  /\ asked \in [App -> 0..MaxDep] /\ deleting \subseteq App
  /\ todo \in [Pruner -> SUBSET Dep] /\ removed \in [Pruner -> 0..MaxDep]
  /\ sweep \in [phase : {"idle", "apps", "retained", "orphans", "dirs"}, apps : SUBSET App,
                items : SUBSET Dep, item : 0..MaxDep]
  /\ raced \subseteq Dep

\* A row says its image is pruned only when it is: "the image column keeps its value
\* so history stays truthful", and a removal Docker refused leaves the row alone.
PrunedIsGone == \A d \in Dep : status[d] # "absent" /\ pruned[d] => image[d] \notin host

\* An attempt that is still on its way never loses the image it has just built, nor
\* the checkout it builds from, to a sweep that listed the host at a bad moment.
FreshBuildSurvives ==
  \A d \in Dep :
    /\ IsActive(status[d]) /\ owner[d] \notin deleting
    => /\ place[d] = "record" \/ (place[d] \in {"advance", "ship", "cut"} /\ image[d] = d) => d \in host
       /\ place[d] = "build" => d \in work

\* A rollback on its way keeps its image, unless it was asked for while a pruner
\* already had that image in hand.
RollbackKeepsImage ==
  \A d \in Dep :
    /\ d \in Rows(owner[d]) /\ owner[d] \notin deleting
    /\ ~IsTerminal(status[d]) /\ image[d] \notin {0, d}
    => image[d] \in host \cup raced

\* The image of the last attempt that went live outlives any shrinking of the window,
\* with a container or without.
LiveImageKept ==
  \A d \in Dep :
    /\ status[d] = "running" /\ owner[d] \notin deleting /\ image[d] \notin raced
    /\ \A e \in Rows(owner[d]) : e > d => status[e] \notin {"running", "superseded"}
    => image[d] \in host

\* Reconciliation converges: an image whose attempt has no row, or settled without
\* one that retains it, does not stay on the host for ever.
Orphan(i) ==
  /\ i \in host /\ ~InUse(i)
  /\ status[i] = "absent" \/ IsTerminal(status[i])
  /\ \A d \in Dep : status[d] # "absent" /\ image[d] = i => pruned[d]
  /\ place[i] = "none"
OrphansReclaimed == \A i \in Dep : Orphan(i) ~> ~Orphan(i)

\* What retention promises of the images that rows record, at every moment of a prune,
\* a sweep, a delete and a rollback (prune/pruner.go).
RetInv == RetTypeOK /\ PrunedIsGone /\ RollbackKeepsImage /\ LiveImageKept

=============================================================================

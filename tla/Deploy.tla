------------------------------- MODULE Deploy -------------------------------
(***************************************************************************)
(* The deploy worker (internal/deploy) with the guarded writes of the      *)
(* deployments table (internal/store), the HTTP handlers that enqueue,     *)
(* cancel, stop and delete (internal/server), the server's own shutdown,   *)
(* crash and boot (main.go), and the containers the Docker daemon holds.   *)
(*                                                                         *)
(* One dispatcher goroutine claims rows; each claimed row gets a pipeline  *)
(* goroutine, whose place in the code is pc[d].  Every store or daemon     *)
(* call is a step, so handlers, other pipelines, a shutdown or a crash     *)
(* come between any two of them.  A call made with a cancelled context     *)
(* fails, but one in flight when the context was cancelled may have been   *)
(* carried out by the daemon all the same.                                 *)
(***************************************************************************)
EXTENDS DeployStatus, Naturals, FiniteSets

CONSTANTS
  App,            \* the apps that exist at the start
  NoApp,          \* the owner of an id that was never inserted
  Stack,          \* the apps of kind compose
  Volumed,        \* the single-container apps whose volumes the operator edits
  MaxDep,         \* bound: deployment rows ever inserted
  MaxConcurrent,  \* pipelines the worker runs at once (maxConcurrent)
  MaxRestarts,    \* bound: shutdowns and crashes of the server process
  DaemonFails,    \* may a create or remove call to the Docker daemon fail?
  StoreFails      \* may a call of the worker to SQLite fail?

ASSUME AppAssumption == NoApp \notin App
ASSUME KindAssumption == Stack \subseteq App /\ Volumed \subseteq App \ Stack
ASSUME BoundAssumption ==
  MaxDep \in Nat /\ MaxRestarts \in Nat /\ MaxConcurrent \in Nat \ {0}
ASSUME FaultAssumption == DaemonFails \in BOOLEAN /\ StoreFails \in BOOLEAN

VARIABLES
  apps,        \* the apps that have a row
  vols,        \* the apps that have a row in the volumes table
  owner,       \* deployments.app_id, by deployment id
  status,      \* deployments.status, by deployment id
  image,       \* deployments.image: the attempt that built it, 0 for none
  next,        \* the id the next insert gets (AUTOINCREMENT: never reused)
  server,      \* the process: "up", "stopping" (SIGTERM received) or "down"
  restarts,    \* how often the process has been stopped or has crashed
  crashed,     \* whether one of those was a crash
  at,          \* the dispatcher's place: "idle", "claim" or "launch"
  cand,        \* the row the dispatcher picked
  pc,          \* each pipeline's place in runPipeline, "idle" without one
  cancels,     \* the pipelines whose cancel function is registered
  done,        \* the pipelines whose context is cancelled
  canon,       \* by app, the container named outhaul-app-<name>, or its stack
  temp,        \* by deployment, the container named outhaul-deploy-<id>
  cancelling,  \* by deployment, the progress of an operator's cancel request
  deleting     \* by app, the progress of an operator's delete request

store   == <<apps, vols, owner, status, image, next>>
process == <<server, restarts, crashed>>
worker  == <<at, cand, pc, cancels, done>>
docker  == <<canon, temp>>
handler == <<cancelling, deleting>>
vars    == <<store, process, worker, docker, handler>>

Dep == 1..MaxDep

\* A container: the attempt it was created for, whether it runs, and whether it
\* mounts the app's volume.  "stopped" covers created and exited.
Container == [by : 0..MaxDep, state : {"none", "stopped", "running"}, vol : BOOLEAN]
NoContainer == [by |-> 0, state |-> "none", vol |-> FALSE]

Exists(c) == c.state # "none"
Stopped(c) == IF Exists(c) THEN [c EXCEPT !.state = "stopped"] ELSE c
Running(c) == [c EXCEPT !.state = "running"]

\* Where a pipeline works on the app's containers, or is about to.
Building  == {"load", "build", "advance", "failB"}
BlueGreen == {"mkTemp", "stTemp", "probe", "recheck", "cut",
              "mkCanon", "stCanon", "drop", "verify", "clean"}
StopFirst == {"sfCut", "sfApp", "sfMk", "sfSt", "sfVerify"}
Compose   == {"stack", "up"}
Deploying == BlueGreen \cup StopFirst \cup Compose \cup {"choose", "record", "failD"}
Place     == Building \cup Deploying \cup {"idle", "retire", "settle"}

Init ==
  /\ apps = App /\ vols = {}
  /\ owner = [d \in Dep |-> NoApp]
  /\ status = [d \in Dep |-> "absent"]
  /\ image = [d \in Dep |-> 0]
  /\ next = 1
  /\ server = "up" /\ restarts = 0 /\ crashed = FALSE
  /\ at = "idle" /\ cand = 0
  /\ pc = [d \in Dep |-> "idle"]
  /\ cancels = {} /\ done = {}
  /\ canon = [a \in App |-> NoContainer]
  /\ temp = [d \in Dep |-> NoContainer]
  /\ cancelling = [d \in Dep |-> "no"]
  /\ deleting = [a \in App |-> "no"]

-----------------------------------------------------------------------------
(* The store's guarded writes. *)

\* Mutant of SetStatus: the write is not conditional on the row's status.
SetStatusBlindly(d, from, to) == status' = [status EXCEPT ![d] = to]

\* The row's status after SetStatus(d, from, to): the move is made only if it is
\* legal and the row is still in "from".
SetStatus(d, from, to) ==
  status' = IF CanTransition(from, to) /\ status[d] = from
            THEN [status EXCEPT ![d] = to]
            ELSE status

\* A status write of a pipeline, whose error is logged and otherwise ignored.
Write(d, from, to) ==
  \/ SetStatus(d, from, to)
  \/ StoreFails /\ status' = status

\* Mutant of Claimable: without the NOT EXISTS on the app's active rows.
AllQueued == {d \in Dep : status[d] = "queued"}

\* The queued rows whose app has no active row.
Claimable ==
  {d \in Dep : /\ status[d] = "queued"
               /\ \A e \in Dep : owner[e] = owner[d] => ~IsActive(status[e])}

\* Mutant of NextClaimable: the newest of them.
NewestClaimable(d) == d \in Claimable /\ \A e \in Claimable : e <= d

\* NextClaimable: the oldest of them.
NextClaimable(d) == d \in Claimable /\ \A e \in Claimable : d <= e

Insert(a, img) ==
  /\ next \in Dep
  /\ owner' = [owner EXCEPT ![next] = a]
  /\ status' = [status EXCEPT ![next] = "queued"]
  /\ image' = [image EXCEPT ![next] = img]
  /\ next' = next + 1
  /\ UNCHANGED <<apps, vols>>

-----------------------------------------------------------------------------
(* HTTP handlers.  They are served until the process is gone: a shutdown     *)
(* stops the worker first and drains HTTP last.                              *)

Serving == server # "down"

\* A deploy click, a webhook push, a git push, a preview's redeploy.
Enqueue(a) ==
  /\ Serving
  /\ a \in apps
  /\ Insert(a, 0)
  /\ UNCHANGED <<process, worker, docker, handler>>

\* A rollback is a new attempt with the image of an old one pre-set.
Rollback(d) ==
  /\ Serving
  /\ status[d] # "absent" /\ image[d] # 0
  /\ owner[d] \in apps \ Stack
  /\ Insert(owner[d], image[d])
  /\ UNCHANGED <<process, worker, docker, handler>>

AddVolume(a) ==
  /\ Serving
  /\ a \in apps \cap Volumed
  /\ vols' = vols \cup {a}
  /\ UNCHANGED <<apps, owner, status, image, next, process, worker, docker, handler>>

DeleteVolume(a) ==
  /\ Serving
  /\ a \in apps
  /\ vols' = vols \ {a}
  /\ UNCHANGED <<apps, owner, status, image, next, process, worker, docker, handler>>

\* Worker.Cancel reads the row, then writes from the status it read, then
\* interrupts the pipeline if one is registered by then.
CancelRead(d) ==
  /\ Serving
  /\ cancelling[d] = "no"
  /\ CanCancel(status[d])
  /\ cancelling' = [cancelling EXCEPT ![d] = status[d]]
  /\ UNCHANGED <<store, process, worker, docker, deleting>>

CancelWrite(d) ==
  /\ cancelling[d] \in {"queued", "building"}
  /\ SetStatus(d, cancelling[d], "cancelled")
  /\ cancelling' = [cancelling EXCEPT ![d] =
                      IF status[d] = cancelling[d] THEN "interrupt" ELSE "no"]
  /\ UNCHANGED <<apps, vols, owner, image, next, process, worker, docker, deleting>>

Interrupt(d) ==
  /\ cancelling[d] = "interrupt"
  /\ done' = IF d \in cancels THEN done \cup {d} ELSE done
  /\ cancelling' = [cancelling EXCEPT ![d] = "no"]
  /\ UNCHANGED <<store, process, at, cand, pc, cancels, docker, deleting>>

\* Stop and Restart act on whatever container has the app's name.
StopApp(a) ==
  /\ Serving
  /\ a \in apps /\ Exists(canon[a])
  /\ canon' = [canon EXCEPT ![a] = Stopped(@)]
  /\ UNCHANGED <<store, process, worker, temp, handler>>

RestartApp(a) ==
  /\ Serving
  /\ a \in apps /\ Exists(canon[a])
  /\ canon' = [canon EXCEPT ![a] = Running(@)]
  /\ UNCHANGED <<store, process, worker, temp, handler>>

\* Deleting an app removes its container, best-effort, and then its rows.
DeleteContainer(a) ==
  /\ Serving
  /\ a \in apps /\ deleting[a] = "no"
  /\ \/ canon' = [canon EXCEPT ![a] = NoContainer]
     \/ DaemonFails /\ canon' = [canon EXCEPT ![a] = Stopped(@)]
  /\ deleting' = [deleting EXCEPT ![a] = "rows"]
  /\ UNCHANGED <<store, process, worker, temp, cancelling>>

DeleteRows(a) ==
  /\ deleting[a] = "rows"
  /\ apps' = apps \ {a}
  /\ vols' = vols \ {a}
  /\ status' = [d \in Dep |-> IF owner[d] = a THEN "absent" ELSE status[d]]
  /\ deleting' = [deleting EXCEPT ![a] = "no"]
  /\ UNCHANGED <<owner, image, next, process, worker, docker, cancelling>>

-----------------------------------------------------------------------------
(* The dispatcher. *)

Busy == {d \in Dep : pc[d] # "idle"}

\* With a free slot in hand the dispatcher reads the next claimable row.  While
\* an update holds dispatch it simply does not take this step.
Pick(d) ==
  /\ server = "up" /\ at = "idle"
  /\ Cardinality(Busy) < MaxConcurrent
  /\ NextClaimable(d)
  /\ at' = "claim" /\ cand' = d
  /\ UNCHANGED <<store, process, pc, cancels, done, docker, handler>>

\* The claim is a guarded write; it is lost if the row was cancelled or deleted
\* since, and fails if the worker's context was cancelled.
ClaimDeployment ==
  /\ at = "claim"
  /\ \/ /\ server = "up" /\ status[cand] = "queued"
        /\ status' = [status EXCEPT ![cand] = "building"]
        /\ at' = "launch" /\ cand' = cand
     \/ /\ server # "up" \/ status[cand] # "queued" \/ StoreFails
        /\ at' = "idle" /\ cand' = 0 /\ status' = status
  /\ UNCHANGED <<apps, vols, owner, image, next, process, pc, cancels, done,
                 docker, handler>>

\* Register the pipeline's cancel function and start its goroutine.
Launch ==
  /\ at = "launch"
  /\ pc' = [pc EXCEPT ![cand] = "load"]
  /\ cancels' = cancels \cup {cand}
  /\ done' = IF server = "up" THEN done ELSE done \cup {cand}
  /\ at' = "idle" /\ cand' = 0
  /\ UNCHANGED <<store, process, docker, handler>>

-----------------------------------------------------------------------------
(* runPipeline, up to the advance to deploying. *)

Goto(d, place) == pc' = [pc EXCEPT ![d] = place]
Mine(d) == canon[owner[d]]
SetMine(d, c) == canon' = [canon EXCEPT ![owner[d]] = c]
SetTemp(d, c) == temp' = [temp EXCEPT ![d] = c]

OnlyPipeline == UNCHANGED <<process, at, cand, cancels, done, handler>>
OnlyStatus == UNCHANGED <<apps, vols, owner, image, next, docker>> /\ OnlyPipeline
OnlyDocker == UNCHANGED store /\ OnlyPipeline

\* A call with the pipeline's context: once that is cancelled it cannot succeed.
Ctx(d) == d \notin done

\* A create or remove call that returns an error.
CallFails(d) == DaemonFails \/ ~Ctx(d)

\* A look at the store, here for whether the app still has a row.
GetApp(d, readable, found, missing) ==
  \/ readable /\ owner[d] \in apps /\ Goto(d, found)
  \/ (~readable \/ owner[d] \notin apps \/ StoreFails) /\ Goto(d, missing)

\* Load the app and its environment; a rollback has nothing to clone or build.
Load(d) ==
  /\ pc[d] = "load"
  /\ \/ /\ Ctx(d) /\ owner[d] \in apps
        /\ Goto(d, IF image[d] = 0 THEN "build" ELSE "advance")
     \/ Goto(d, "failB")
  /\ UNCHANGED docker /\ OnlyDocker

\* A tag event whose tag is no longer newer than the live one is cancelled.
SkipTag(d) ==
  /\ pc[d] = "load" /\ image[d] = 0
  /\ Ctx(d) /\ owner[d] \in apps
  /\ Write(d, "building", "cancelled")
  /\ Goto(d, "settle")
  /\ OnlyStatus

\* Clone and build, and record the image (compose keeps none).
Build(d) ==
  /\ pc[d] = "build"
  /\ \/ /\ Goto(d, "advance")
        /\ image' = IF owner[d] \in Stack \/ status[d] = "absent"
                    THEN image ELSE [image EXCEPT ![d] = d]
     \/ Goto(d, "failB") /\ image' = image
  /\ UNCHANGED <<apps, vols, owner, status, next, docker>> /\ OnlyPipeline

\* Mutant of AfterAdvance: goes on whether or not the write was applied.
AfterAdvanceUnchecked(d) == IF owner[d] \in Stack THEN "stack" ELSE "choose"

\* Not applied means the attempt was cancelled, or its app deleted, during the
\* build: stop without touching the live container.
AfterAdvance(d) ==
  IF status[d] # "building" THEN "settle"
  ELSE IF owner[d] \in Stack THEN "stack" ELSE "choose"

\* building -> deploying.
Advance(d) ==
  /\ pc[d] = "advance"
  /\ \/ /\ SetStatus(d, "building", "deploying")
        /\ Goto(d, AfterAdvance(d))
     \/ StoreFails /\ status' = status /\ Goto(d, "failB")
  /\ OnlyStatus

\* fail: a guarded transition to failed, never forced over another status.
FailBuilding(d) ==
  /\ pc[d] = "failB"
  /\ Write(d, "building", "failed")
  /\ Goto(d, "settle")
  /\ OnlyStatus

\* Mutant of FailDeploying: only logs the failure.
FailDeployingUnrecorded(d) ==
  /\ pc[d] = "failD"
  /\ status' = status
  /\ Goto(d, "settle")
  /\ OnlyStatus

FailDeploying(d) ==
  /\ pc[d] = "failD"
  /\ Write(d, "deploying", "failed")
  /\ Goto(d, "settle")
  /\ OnlyStatus

-----------------------------------------------------------------------------
(* The cutover.  A container created for d mounts the app's volume if the    *)
(* volumes table has one when it is created.                                 *)

NewContainer(d) == [by |-> d, state |-> "stopped", vol |-> owner[d] \in vols]

\* An app with a volume deploys stop-first, any other blue-green.
Choose(d) ==
  /\ pc[d] = "choose"
  /\ \/ Ctx(d) /\ Goto(d, IF owner[d] \in vols THEN "sfCut" ELSE "mkTemp")
     \/ (~Ctx(d) \/ StoreFails) /\ Goto(d, "failD")
  /\ UNCHANGED docker /\ OnlyDocker

(* Blue-green: a temporary container first. *)

MakeTemp(d) ==
  /\ pc[d] = "mkTemp"
  /\ \/ Ctx(d) /\ SetTemp(d, NewContainer(d)) /\ Goto(d, "stTemp")
     \/ CallFails(d) /\ temp' = temp /\ Goto(d, "failD")
     \/ ~Ctx(d) /\ SetTemp(d, NewContainer(d)) /\ Goto(d, "failD")
  /\ UNCHANGED canon /\ OnlyDocker

\* A failed start leaves the created container behind: createContainer returns
\* no id, so nothing cleans it up.
StartTemp(d) ==
  /\ pc[d] = "stTemp"
  /\ \/ Ctx(d) /\ SetTemp(d, Running(temp[d])) /\ Goto(d, "probe")
     \/ temp' = temp /\ Goto(d, "failD")
     \/ ~Ctx(d) /\ SetTemp(d, Running(temp[d])) /\ Goto(d, "failD")
  /\ UNCHANGED canon /\ OnlyDocker

\* Mutant of Probe: the early return forgets the cleanup.
ProbeNoCleanup(d) ==
  /\ pc[d] = "probe"
  /\ \/ Ctx(d) /\ Goto(d, "recheck")
     \/ Goto(d, "failD")
  /\ UNCHANGED docker /\ OnlyDocker

\* Resolve the address, poll for health, and abort if a shutdown has begun.
Probe(d) ==
  /\ pc[d] = "probe"
  /\ \/ Ctx(d) /\ Goto(d, "recheck")
     \/ Goto(d, "clean")
  /\ UNCHANGED docker /\ OnlyDocker

\* The app may have been deleted meanwhile.  From here on the calls are made
\* without the pipeline's cancellation.
Recheck(d) ==
  /\ pc[d] = "recheck"
  /\ GetApp(d, TRUE, "cut", "clean")
  /\ UNCHANGED docker /\ OnlyDocker

\* removeContainerByName: look it up, stop it, remove it; finding none is fine.
Cut(d) ==
  /\ pc[d] = "cut"
  /\ \/ SetMine(d, NoContainer) /\ Goto(d, "mkCanon")
     \/ /\ DaemonFails
        /\ canon' = canon \/ SetMine(d, Stopped(Mine(d)))
        /\ Goto(d, "clean")
  /\ UNCHANGED temp /\ OnlyDocker

\* Mutant of MakeCanonical: the create keeps the pipeline's cancellation.
MakeCanonicalWithCtx(d) ==
  /\ pc[d] = "mkCanon"
  /\ \/ Ctx(d) /\ SetMine(d, NewContainer(d)) /\ Goto(d, "stCanon")
     \/ CallFails(d) /\ canon' = canon /\ Goto(d, "clean")
  /\ UNCHANGED temp /\ OnlyDocker

MakeCanonical(d) ==
  /\ pc[d] = "mkCanon"
  /\ \/ SetMine(d, NewContainer(d)) /\ Goto(d, "stCanon")
     \/ (DaemonFails \/ StoreFails) /\ canon' = canon /\ Goto(d, "clean")
  /\ UNCHANGED temp /\ OnlyDocker

\* The start fails if the image cannot run, or the container is gone.
StartCanonical(d) ==
  /\ pc[d] = "stCanon"
  /\ \/ Exists(Mine(d)) /\ SetMine(d, Running(Mine(d))) /\ Goto(d, "drop")
     \/ canon' = canon /\ Goto(d, "clean")
  /\ UNCHANGED temp /\ OnlyDocker

\* cleanupContainer ignores the daemon's error.
RemoveTemp(d, place) ==
  /\ SetTemp(d, NoContainer) \/ (DaemonFails /\ temp' = temp)
  /\ Goto(d, place)
  /\ UNCHANGED canon /\ OnlyDocker

DropTemp(d) == pc[d] = "drop" /\ RemoveTemp(d, "verify")
CleanTemp(d) == pc[d] = "clean" /\ RemoveTemp(d, "failD")

\* Probe the container that carries the traffic; leave it up if it fails.
Verify(d) ==
  /\ pc[d] = "verify"
  /\ \/ Mine(d).state = "running" /\ Goto(d, "record")
     \/ Goto(d, "failD")
  /\ UNCHANGED docker /\ OnlyDocker

(* Stop-first: one container at a time holds the volume.  Every call keeps   *)
(* the pipeline's context.                                                   *)

StopFirstCut(d) ==
  /\ pc[d] = "sfCut"
  /\ \/ Ctx(d) /\ SetMine(d, NoContainer) /\ Goto(d, "sfApp")
     \/ /\ CallFails(d)
        /\ canon' = canon \/ SetMine(d, Stopped(Mine(d)))
        /\ Goto(d, "failD")
     \/ ~Ctx(d) /\ SetMine(d, NoContainer) /\ Goto(d, "failD")
  /\ UNCHANGED temp /\ OnlyDocker

StopFirstApp(d) ==
  /\ pc[d] = "sfApp"
  /\ GetApp(d, Ctx(d), "sfMk", "failD")
  /\ UNCHANGED docker /\ OnlyDocker

StopFirstCreate(d) ==
  /\ pc[d] = "sfMk"
  /\ \/ Ctx(d) /\ SetMine(d, NewContainer(d)) /\ Goto(d, "sfSt")
     \/ CallFails(d) /\ canon' = canon /\ Goto(d, "failD")
     \/ ~Ctx(d) /\ SetMine(d, NewContainer(d)) /\ Goto(d, "failD")
  /\ UNCHANGED temp /\ OnlyDocker

StopFirstStart(d) ==
  /\ pc[d] = "sfSt"
  /\ \/ Ctx(d) /\ Exists(Mine(d)) /\ SetMine(d, Running(Mine(d))) /\ Goto(d, "sfVerify")
     \/ canon' = canon /\ Goto(d, "failD")
     \/ ~Ctx(d) /\ Exists(Mine(d)) /\ SetMine(d, Running(Mine(d))) /\ Goto(d, "failD")
  /\ UNCHANGED temp /\ OnlyDocker

StopFirstVerify(d) ==
  /\ pc[d] = "sfVerify"
  /\ \/ Ctx(d) /\ Mine(d).state = "running" /\ Goto(d, "record")
     \/ Goto(d, "failD")
  /\ UNCHANGED docker /\ OnlyDocker

(* A compose stack is recreated in place; a failed "up" may leave any of its *)
(* containers replaced, stopped or untouched.                                *)

StackApp(d) ==
  /\ pc[d] = "stack"
  /\ GetApp(d, Ctx(d), "up", "failD")
  /\ UNCHANGED docker /\ OnlyDocker

StackUp(d) ==
  /\ pc[d] = "up"
  /\ \/ Ctx(d) /\ SetMine(d, Running(NewContainer(d))) /\ Goto(d, "record")
     \/ /\ \/ canon' = canon
           \/ SetMine(d, NewContainer(d))
           \/ SetMine(d, Running(NewContainer(d)))
        /\ Goto(d, "failD")
  /\ UNCHANGED temp /\ OnlyDocker

-----------------------------------------------------------------------------
(* The attempt holds the traffic: record it, retire the rows it replaced. *)

Record(d) ==
  /\ pc[d] = "record"
  /\ Write(d, "deploying", "running")
  /\ Goto(d, "retire")
  /\ OnlyStatus

\* Mutants of SupersedeOthers: keepID is not spared; nothing is retired.
SupersedeAll(d) ==
  status' = [e \in Dep |-> IF owner[e] = owner[d] /\ status[e] = "running"
                           THEN "superseded" ELSE status[e]]
SupersedeNone(d) == status' = status

SupersedeOthers(d) ==
  status' = [e \in Dep |->
               IF owner[e] = owner[d] /\ e # d /\ status[e] = "running"
               THEN "superseded" ELSE status[e]]

Retire(d) ==
  /\ pc[d] = "retire"
  /\ SupersedeOthers(d) \/ (StoreFails /\ status' = status)
  /\ Goto(d, "settle")
  /\ OnlyStatus

\* Mutant of Settle: the slot of the semaphore is not given back.
SettleKeepsSlot(d) ==
  /\ pc[d] = "settle"
  /\ cancels' = cancels \ {d}
  /\ done' = done \ {d}
  /\ UNCHANGED <<store, process, at, cand, pc, docker, handler>>

\* The goroutine ends: hooks, unregister, release the slot.
Settle(d) ==
  /\ pc[d] = "settle"
  /\ Goto(d, "idle")
  /\ cancels' = cancels \ {d}
  /\ done' = done \ {d}
  /\ UNCHANGED <<store, process, at, cand, docker, handler>>

Pipeline(d) ==
  \/ Load(d) \/ SkipTag(d) \/ Build(d) \/ Advance(d)
  \/ FailBuilding(d) \/ FailDeploying(d) \/ Choose(d)
  \/ MakeTemp(d) \/ StartTemp(d) \/ Probe(d) \/ Recheck(d) \/ Cut(d)
  \/ MakeCanonical(d) \/ StartCanonical(d) \/ DropTemp(d) \/ CleanTemp(d) \/ Verify(d)
  \/ StopFirstCut(d) \/ StopFirstApp(d) \/ StopFirstCreate(d)
  \/ StopFirstStart(d) \/ StopFirstVerify(d)
  \/ StackApp(d) \/ StackUp(d)
  \/ Record(d) \/ Retire(d) \/ Settle(d)

-----------------------------------------------------------------------------
(* The process. *)

\* SIGTERM cancels the worker's context and with it every pipeline's.
Shutdown ==
  /\ server = "up"
  /\ restarts < MaxRestarts
  /\ server' = "stopping"
  /\ restarts' = restarts + 1
  /\ done' = Busy
  /\ UNCHANGED <<store, crashed, at, cand, pc, cancels, docker, handler>>

\* The worker drained in time: nothing of it is left running.
Exit ==
  /\ server = "stopping"
  /\ at = "idle" /\ Busy = {}
  /\ \A d \in Dep : cancelling[d] = "no"
  /\ \A a \in App : deleting[a] = "no"
  /\ server' = "down"
  /\ UNCHANGED <<store, restarts, crashed, worker, docker, handler>>

\* The process dies; one that is stopping may also run out of the 20 seconds the
\* worker has to drain.
Crash ==
  /\ \/ server = "up" /\ restarts < MaxRestarts /\ restarts' = restarts + 1
     \/ server = "stopping" /\ restarts' = restarts
  /\ server' = "down" /\ crashed' = TRUE
  /\ at' = "idle" /\ cand' = 0
  /\ pc' = [d \in Dep |-> "idle"]
  /\ cancels' = {} /\ done' = {}
  /\ cancelling' = [d \in Dep |-> "no"]
  /\ deleting' = [a \in App |-> "no"]
  /\ UNCHANGED <<store, docker>>

RecoverActive ==
  status' = [d \in Dep |-> IF IsActive(status[d]) THEN "failed" ELSE status[d]]

\* The next process fails what the last one left active before it starts
\* anything; the containers are Docker's and stay as they are.
Boot ==
  /\ server = "down"
  /\ server' = "up"
  /\ RecoverActive
  /\ UNCHANGED <<apps, vols, owner, image, next, restarts, crashed, worker, docker, handler>>

-----------------------------------------------------------------------------

Handlers ==
  \/ \E a \in App : \/ Enqueue(a) \/ AddVolume(a) \/ DeleteVolume(a) \/ StopApp(a)
                    \/ RestartApp(a) \/ DeleteContainer(a) \/ DeleteRows(a)
  \/ \E d \in Dep : Rollback(d) \/ CancelRead(d) \/ CancelWrite(d) \/ Interrupt(d)

Dispatcher == (\E d \in Dep : Pick(d)) \/ ClaimDeployment \/ Launch

Process == Shutdown \/ Exit \/ Crash \/ Boot

Next == Handlers \/ Dispatcher \/ (\E d \in Dep : Pipeline(d)) \/ Process

Spec == Init /\ [][Next]_vars

\* Goroutines run when they can, a handler that has started finishes, and the
\* service manager brings the process back.  Operators, Docker's errors, signals
\* and crashes owe nothing.
Fairness ==
  /\ WF_vars(Dispatcher)
  /\ \A d \in Dep : WF_vars(Pipeline(d)) /\ WF_vars(CancelWrite(d) \/ Interrupt(d))
  /\ \A a \in App : WF_vars(DeleteRows(a))
  /\ WF_vars(Exit) /\ WF_vars(Boot)

FairSpec == Spec /\ Fairness

-----------------------------------------------------------------------------

TypeOK ==
  /\ apps \subseteq App /\ vols \subseteq App
  /\ owner \in [Dep -> App \cup {NoApp}]
  /\ status \in [Dep -> Status \cup {"absent"}]
  /\ image \in [Dep -> 0..MaxDep]
  /\ next \in 1..(MaxDep + 1)
  /\ server \in {"up", "stopping", "down"}
  /\ restarts \in 0..MaxRestarts /\ crashed \in BOOLEAN
  /\ at \in {"idle", "claim", "launch"} /\ cand \in (IF at = "idle" THEN {0} ELSE Dep)
  /\ pc \in [Dep -> Place]
  /\ cancels \subseteq Dep /\ done \subseteq Dep
  /\ canon \in [App -> Container] /\ temp \in [Dep -> Container]
  /\ cancelling \in [Dep -> {"no", "queued", "building", "interrupt"}]
  /\ deleting \in [App -> {"no", "rows"}]

\* The worker, its pipelines and the handlers together keep the promises of the
\* deployments table: legal moves only, one claim at a time per app and in order.
D == INSTANCE Deployments WITH
       App <- App, NoApp <- NoApp, MaxDep <- MaxDep,
       apps <- apps, owner <- owner, status <- status, next <- next
Implements == D!Spec

\* NextClaimable serializes the attempts of an app: no two are ever active.
OneActivePerApp == D!OneActivePerApp

\* Oldest first: a rapid double-click deploys in submission order, whatever is
\* cancelled, deleted or restarted in between.
ClaimsInOrder == D!ClaimsInOrder

\* Where pipeline d may change the app's canonical container or its stack.
MayMutate(d) == pc[d] \in Deploying

\* A pipeline works on containers only while its row says deploying, or after its
\* app's rows are gone: one that lost its row to a cancel stops at the advance.
MutatorOwnsRow ==
  \A d \in Dep : MayMutate(d) => status[d] = "deploying" \/ owner[d] \notin apps

\* Containers are replaced without a lock, so two pipelines of one app must never
\* be replacing them at once, not even one that was cancelled and its successor.
OneMutatorPerApp ==
  \A d, e \in Dep : MayMutate(d) /\ MayMutate(e) /\ owner[d] = owner[e] => d = e

\* While a process is up, every active row has a pipeline working on it, or the
\* dispatcher about to start one: nothing is left for only a restart to repair.
ActiveHasPipeline ==
  server # "down" /\ ~StoreFails =>
    \A d \in Dep : IsActive(status[d]) =>
      pc[d] \in Building \cup Deploying \/ (at = "launch" /\ cand = d)

\* Why that holds.  Ids are handed out in order, and a row outlives neither its
\* app nor its deletion.
RowsInUse ==
  \A d \in Dep :
    /\ d >= next => owner[d] = NoApp /\ pc[d] = "idle"
    /\ d < next => owner[d] \in App
    /\ status[d] # "absent" <=> owner[d] \in apps

\* What the dispatcher read still holds when it writes: only it starts attempts.
DispatcherHolds ==
  /\ at # "idle" => cand \in Dep /\ cand < next /\ pc[cand] = "idle"
  /\ at = "claim" =>
       /\ status[cand] \in {"queued", "cancelled", "absent"}
       /\ \A e \in Dep : owner[e] = owner[cand] =>
             ~IsActive(status[e]) /\ (status[e] = "queued" => cand <= e)
  /\ at = "launch" => status[cand] \in {"building", "cancelled", "absent"}

\* What a pipeline's place says of its row.
PipelineHolds ==
  \A d \in Dep :
    /\ pc[d] \in Building => status[d] \in {"building", "cancelled", "absent"}
    /\ pc[d] \in Deploying => status[d] = "deploying" \/ owner[d] \notin apps
    /\ pc[d] = "retire" => status[d] \in {"deploying", "running", "superseded", "absent"}
    /\ pc[d] = "settle" => status[d] # "queued"
    /\ pc[d] \in {"retire", "settle"} /\ ~StoreFails => ~IsActive(status[d])

\* A process that is down runs nothing.
DownIsIdle == server = "down" => at = "idle" /\ \A d \in Dep : pc[d] = "idle"

\* The inductive invariant of the claim, the advance and the settling of rows.
RowInv ==
  /\ RowsInUse /\ DispatcherHolds /\ PipelineHolds /\ DownIsIdle
  /\ OneActivePerApp /\ OneMutatorPerApp /\ ActiveHasPipeline

\* An operator who cancelled an attempt never sees its container: neither the
\* app's nor a health-check one.
CancelledNeverServes ==
  \A d \in Dep : status[d] = "cancelled" =>
    canon[owner[d]].by # d /\ ~Exists(temp[d])

\* An operator's cancel never interrupts a cutover: only a shutdown does.
CancelSparesCutover ==
  \A d \in done : pc[d] \in Deploying \ {"failD"} => server = "stopping"

\* What the console shows as live is what serves: unless a later attempt has
\* reached the containers, or a delete has begun, the app's container was created
\* for its running row.
LiveRowServes ==
  \A d \in Dep :
    /\ status[d] = "running" /\ deleting[owner[d]] = "no" /\ ~crashed
    /\ \A e \in Dep : owner[e] = owner[d] /\ e > d =>
          status[e] \in {"queued", "building", "cancelled"}
    => canon[owner[d]].by = d

\* At most one row of an app reads as running, once the pipelines that have just
\* recorded theirs have retired the others.
OneRunningRow ==
  ~crashed /\ ~StoreFails =>
    \A d, e \in Dep :
      /\ status[d] = "running" /\ status[e] = "running" /\ owner[d] = owner[e]
      /\ pc[d] # "retire" /\ pc[e] # "retire"
      => d = e

\* With two slots a pipeline that is slow to retire the others still does so after
\* the app's next attempt has shipped.
Overtaken(d) ==
  /\ MaxConcurrent > 1
  /\ \E e \in Dep : /\ owner[e] = owner[d] /\ e < d
                    /\ status[e] \in {"running", "superseded"}

\* A row is retired because its container was already removed at the cutover
\* (ARCHITECTURE.md, "superseded").  Being overtaken is the one way for a retired row
\* to keep its container: nothing else, and with one slot nothing at all, marks the
\* row that serves as history.
SupersededIsGone ==
  \A d \in Dep : status[d] = "superseded" => canon[owner[d]].by # d \/ Overtaken(d)

\* Every way out of the health-check phase takes the temporary container down, as
\* long as no shutdown cuts off the daemon's answer.
NoStrayTemp ==
  restarts = 0 /\ ~DaemonFails =>
    \A d \in Dep : temp[d].state = "running" => pc[d] \in BlueGreen

\* Blue-green never leaves a deployed app without a container, whoever cancels or
\* shuts down in the middle: only the moment between remove and create does.
CutoverCompletes ==
  ~crashed /\ ~DaemonFails /\ ~StoreFails =>
    \A d \in Dep :
      /\ status[d] = "running" /\ owner[d] \notin Volumed \cup Stack
      /\ deleting[owner[d]] = "no"
      /\ \A e \in Dep : owner[e] = owner[d] => pc[e] # "mkCanon"
      => Exists(canon[owner[d]])

\* Every queued attempt is claimed, cancelled or deleted with its app.
QueueDrains ==
  \A d \in Dep : status[d] = "queued" ~> status[d] # "queued"

\* Every active attempt settles, through shutdowns and crashes too.
ActiveSettles ==
  \A d \in Dep : IsActive(status[d]) ~> ~IsActive(status[d])

=============================================================================

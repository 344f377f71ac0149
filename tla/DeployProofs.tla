---------------------------- MODULE DeployProofs ----------------------------
(***************************************************************************)
(* Proofs about Deploy for any number of apps, deployments, slots and      *)
(* restarts, with or without faults of the daemon and the store: first the *)
(* rows and the pipelines, then the containers (what a cancel may reach,   *)
(* what serves, who is retired, no gap in a cutover, no stray container).  *)
(***************************************************************************)
EXTENDS Deploy, FiniteSetTheorems, TLAPS

-----------------------------------------------------------------------------
(* Types. *)

\* What the container operations of the model return is a container.
LEMMA ContainerOps ==
  ASSUME NEW c \in Container
  PROVE  Stopped(c) \in Container /\ Running(c) \in Container
<1>1. PICK b \in 0..MaxDep, t \in {"none", "stopped", "running"}, v \in BOOLEAN :
        c = [by |-> b, state |-> t, vol |-> v]
  BY DEF Container
<1>2. [c EXCEPT !.state = "stopped"] \in Container
  BY <1>1 DEF Container
<1>3. [c EXCEPT !.state = "running"] \in Container
  BY <1>1 DEF Container
<1> QED BY <1>2, <1>3 DEF Stopped, Running

\* The absence of a container.
LEMMA NoContainerType == NoContainer \in Container
BY BoundAssumption DEF NoContainer, Container

\* What an attempt creates is a container.
LEMMA NewContainerType == \A d \in Dep : NewContainer(d) \in Container
BY BoundAssumption DEF NewContainer, Container, Dep

\* Replacing the app's container, or the temporary one, by a container.
LEMMA SetMineType ==
  ASSUME TypeOK, NEW d \in Dep, NEW c, owner[d] \in App => c \in Container, SetMine(d, c)
  PROVE  canon' \in [App -> Container]
BY DEF TypeOK, SetMine

\* A write of an attempt's temporary container.
LEMMA SetTempType ==
  ASSUME TypeOK, NEW d \in Dep, NEW c \in Container, SetTemp(d, c)
  PROVE  temp' \in [Dep -> Container]
BY DEF TypeOK, SetTemp

\* The container under the name of an attempt's app.
LEMMA MineType ==
  ASSUME TypeOK, NEW d \in Dep, owner[d] \in App
  PROVE  Mine(d) \in Container
BY DEF TypeOK, Mine

\* A step of a pipeline to another place.
LEMMA GotoType ==
  ASSUME TypeOK, NEW d \in Dep, NEW place \in Place, Goto(d, place)
  PROVE  pc' \in [Dep -> Place]
BY DEF TypeOK, Goto

\* A guarded write of a row.
LEMMA SetStatusType ==
  ASSUME TypeOK, NEW d \in Dep, NEW from \in Status, NEW to \in Status, SetStatus(d, from, to)
  PROVE  status' \in [Dep -> Status \cup {"absent"}]
BY DEF TypeOK, SetStatus

\* A write of a pipeline that the store may refuse.
LEMMA WriteType ==
  ASSUME TypeOK, NEW d \in Dep, NEW from \in Status, NEW to \in Status, Write(d, from, to)
  PROVE  status' \in [Dep -> Status \cup {"absent"}]
<1>1. CASE SetStatus(d, from, to) BY <1>1, SetStatusType
<1>2. CASE status' = status BY <1>2 DEF TypeOK
<1> QED BY <1>1, <1>2 DEF Write

\* One step of a pipeline keeps the types.
LEMMA PipelineType ==
  ASSUME TypeOK, NEW d \in Dep, Pipeline(d)
  PROVE  TypeOK'
<1> USE BoundAssumption DEF OnlyPipeline, OnlyStatus, OnlyDocker, store, process, worker, docker,
    handler, Place, Building, Deploying, BlueGreen, StopFirst, Compose
<1>a. owner[d] \in App => Mine(d) \in Container /\ Stopped(Mine(d)) \in Container
                        /\ Running(Mine(d)) \in Container
  BY MineType, ContainerOps
<1>b. temp[d] \in Container /\ Running(temp[d]) \in Container
  BY ContainerOps DEF TypeOK
<1>c. /\ NewContainer(d) \in Container /\ NoContainer \in Container
      /\ Running(NewContainer(d)) \in Container
  BY NewContainerType, NoContainerType, ContainerOps
<1>d. ASSUME NEW p \in Place, Goto(d, p) PROVE pc' \in [Dep -> Place]
  BY <1>d, GotoType
<1>e. ASSUME canon' = canon \/ \E c : SetMine(d, c) /\ (owner[d] \in App => c \in Container)
      PROVE  canon' \in [App -> Container]
  BY <1>e, SetMineType DEF TypeOK
<1>f. ASSUME temp' = temp \/ \E c \in Container : SetTemp(d, c)
      PROVE  temp' \in [Dep -> Container]
  BY <1>f, SetTempType DEF TypeOK
<1>1. CASE Load(d)
  BY <1>1, <1>d DEF TypeOK, Load, GetApp
<1>2. CASE Choose(d)
  BY <1>2, <1>d DEF TypeOK, Choose, GetApp
<1>3. CASE Probe(d)
  BY <1>3, <1>d DEF TypeOK, Probe, GetApp
<1>4. CASE Recheck(d)
  BY <1>4, <1>d DEF TypeOK, Recheck, GetApp
<1>5. CASE Verify(d)
  BY <1>5, <1>d DEF TypeOK, Verify, GetApp
<1>6. CASE StopFirstApp(d)
  BY <1>6, <1>d DEF TypeOK, StopFirstApp, GetApp
<1>7. CASE StopFirstVerify(d)
  BY <1>7, <1>d DEF TypeOK, StopFirstVerify, GetApp
<1>8. CASE StackApp(d)
  BY <1>8, <1>d DEF TypeOK, StackApp, GetApp
<1>9. CASE Cut(d)
  BY <1>9, <1>a, <1>c, <1>d, <1>e DEF TypeOK, Cut
<1>10. CASE MakeCanonical(d)
  BY <1>10, <1>a, <1>c, <1>d, <1>e DEF TypeOK, MakeCanonical
<1>11. CASE StartCanonical(d)
  BY <1>11, <1>a, <1>c, <1>d, <1>e DEF TypeOK, StartCanonical
<1>12. CASE StopFirstCut(d)
  BY <1>12, <1>a, <1>c, <1>d, <1>e DEF TypeOK, StopFirstCut
<1>13. CASE StopFirstCreate(d)
  BY <1>13, <1>a, <1>c, <1>d, <1>e DEF TypeOK, StopFirstCreate
<1>14. CASE StopFirstStart(d)
  BY <1>14, <1>a, <1>c, <1>d, <1>e DEF TypeOK, StopFirstStart
<1>15. CASE StackUp(d)
  BY <1>15, <1>a, <1>c, <1>d, <1>e DEF TypeOK, StackUp
<1>16. CASE MakeTemp(d)
  BY <1>16, <1>b, <1>c, <1>d, <1>f DEF TypeOK, MakeTemp
<1>17. CASE StartTemp(d)
  BY <1>17, <1>b, <1>c, <1>d, <1>f DEF TypeOK, StartTemp
<1>18. CASE DropTemp(d)
  BY <1>18, <1>c, <1>d, <1>f DEF TypeOK, DropTemp, RemoveTemp
<1>19. CASE CleanTemp(d)
  BY <1>19, <1>c, <1>d, <1>f DEF TypeOK, CleanTemp, RemoveTemp
<1>20. CASE SkipTag(d)
  BY <1>20, <1>d, WriteType DEF TypeOK, SkipTag, Status
<1>21. CASE FailBuilding(d)
  BY <1>21, <1>d, WriteType DEF TypeOK, FailBuilding, Status
<1>22. CASE FailDeploying(d)
  BY <1>22, <1>d, WriteType DEF TypeOK, FailDeploying, Status
<1>23. CASE Record(d)
  BY <1>23, <1>d, WriteType DEF TypeOK, Record, Status
<1>24. CASE Advance(d)
  BY <1>24, <1>d, SetStatusType DEF TypeOK, Advance, AfterAdvance, Status
<1>25. CASE Retire(d)
  BY <1>25, <1>d DEF TypeOK, Retire, SupersedeOthers, Status
<1>26. CASE Build(d)
  <2>1. image' \in [Dep -> 0..MaxDep]
    BY <1>26 DEF TypeOK, Build, Dep
  <2>2. pc' \in [Dep -> Place]
    BY <1>26, <1>d DEF Build, Place, Building
  <2> QED
    BY <1>26, <2>1, <2>2 DEF TypeOK, Build
<1>27. CASE Settle(d)
  BY <1>27, <1>d DEF TypeOK, Settle
<1> QED
  BY <1>1, <1>2, <1>3, <1>4, <1>5, <1>6, <1>7, <1>8, <1>9, <1>10, <1>11, <1>12, <1>13, <1>14,
       <1>15, <1>16, <1>17, <1>18, <1>19, <1>20, <1>21, <1>22, <1>23, <1>24, <1>25, <1>26,
            <1>27 DEF Pipeline

\* The HTTP handlers keep the types.
LEMMA HandlersType ==
  ASSUME TypeOK, Handlers
  PROVE  TypeOK'
<1> USE BoundAssumption DEF store, process, worker, docker, handler
<1>a. \A c \in Container : Stopped(c) \in Container /\ Running(c) \in Container
  BY ContainerOps
<1>1. ASSUME NEW a \in App, Enqueue(a) PROVE TypeOK'
  BY <1>1 DEF TypeOK, Enqueue, Insert, Status, Dep
<1>2. ASSUME NEW a \in App, AddVolume(a) PROVE TypeOK'
  BY <1>2 DEF TypeOK, AddVolume
<1>3. ASSUME NEW a \in App, DeleteVolume(a) PROVE TypeOK'
  BY <1>3 DEF TypeOK, DeleteVolume
<1>4. ASSUME NEW a \in App, StopApp(a) PROVE TypeOK'
  BY <1>4, <1>a DEF TypeOK, StopApp
<1>5. ASSUME NEW a \in App, RestartApp(a) PROVE TypeOK'
  BY <1>5, <1>a DEF TypeOK, RestartApp
<1>6. ASSUME NEW a \in App, DeleteContainer(a) PROVE TypeOK'
  BY <1>6, <1>a, NoContainerType DEF TypeOK, DeleteContainer
<1>7. ASSUME NEW a \in App, DeleteRows(a) PROVE TypeOK'
  BY <1>7 DEF TypeOK, DeleteRows
<1>8. ASSUME NEW d \in Dep, Rollback(d) PROVE TypeOK'
  BY <1>8 DEF TypeOK, Rollback, Insert, Status, Dep
<1>9. ASSUME NEW d \in Dep, CancelRead(d) PROVE TypeOK'
  BY <1>9 DEF TypeOK, CancelRead, CanCancel
<1>10. ASSUME NEW d \in Dep, CancelWrite(d) PROVE TypeOK'
  BY <1>10, SetStatusType DEF TypeOK, CancelWrite, Status
<1>11. ASSUME NEW d \in Dep, Interrupt(d) PROVE TypeOK'
  BY <1>11 DEF TypeOK, Interrupt
<1> QED
  BY <1>1, <1>2, <1>3, <1>4, <1>5, <1>6, <1>7, <1>8, <1>9, <1>10, <1>11 DEF Handlers

\* The dispatcher keeps the types.
LEMMA DispatcherType ==
  ASSUME TypeOK, Dispatcher
  PROVE  TypeOK'
<1> USE BoundAssumption DEF store, process, worker, docker, handler
<1>1. ASSUME NEW d \in Dep, Pick(d) PROVE TypeOK'
  BY <1>1 DEF TypeOK, Pick, Dep
<1>2. CASE ClaimDeployment
  BY <1>2 DEF TypeOK, ClaimDeployment, Status, Dep
<1>3. CASE Launch
  BY <1>3 DEF TypeOK, Launch, Dep, Place, Building
<1> QED
  BY <1>1, <1>2, <1>3 DEF Dispatcher

\* Shutdown, exit, crash and boot keep the types.
LEMMA ProcessType ==
  ASSUME TypeOK, Process
  PROVE  TypeOK'
<1> USE BoundAssumption DEF store, process, worker, docker, handler
<1>1. CASE Shutdown
  BY <1>1 DEF TypeOK, Shutdown, Busy
<1>2. CASE Exit
  BY <1>2 DEF TypeOK, Exit
<1>3. CASE Crash
  BY <1>3 DEF TypeOK, Crash, Place, Serving
<1>4. CASE Boot
  BY <1>4 DEF TypeOK, Boot, RecoverActive, Status, IsActive
<1> QED
  BY <1>1, <1>2, <1>3, <1>4 DEF Process

\* Every variable keeps the type TypeOK gives it.
THEOREM TypeCorrect == Spec => []TypeOK
<1>1. Init => TypeOK
  <2> SUFFICES ASSUME Init PROVE TypeOK
    OBVIOUS
  <2>1. next \in 1..(MaxDep + 1) /\ restarts \in 0..MaxRestarts
    BY BoundAssumption DEF Init
  <2>2. canon \in [App -> Container] /\ temp \in [Dep -> Container]
    BY NoContainerType DEF Init
  <2>3. image \in [Dep -> 0..MaxDep] /\ pc \in [Dep -> Place]
    BY BoundAssumption DEF Init, Place
  <2>4. owner \in [Dep -> App \cup {NoApp}] /\ status \in [Dep -> Status \cup {"absent"}]
    BY DEF Init
  <2> QED
    BY <2>1, <2>2, <2>3, <2>4 DEF Init, TypeOK
<1>2. TypeOK /\ [Next]_vars => TypeOK'
  <2>1. ASSUME TypeOK, UNCHANGED vars PROVE TypeOK'
    BY <2>1 DEF TypeOK, vars, store, process, worker, docker, handler
  <2> QED
    BY <2>1, HandlersType, DispatcherType, PipelineType, ProcessType DEF Next
<1> QED
  BY <1>1, <1>2, PTL DEF Spec

-----------------------------------------------------------------------------
(* The rows and the pipelines that own them.  RowInv is inductive given the  *)
(* types.                                                                    *)

\* OneActivePerApp, without the abstract module's names.
LEMMA OneActiveMeans ==
  /\ OneActivePerApp <=> \A d, e \in Dep :
       owner[d] = owner[e] /\ IsActive(status[d]) /\ IsActive(status[e]) => d = e
  /\ OneActivePerApp' <=> \A d, e \in Dep :
       owner'[d] = owner'[e] /\ IsActive(status'[d]) /\ IsActive(status'[e]) => d = e
BY DEF OneActivePerApp, D!OneActivePerApp, D!IsActive, D!Dep, IsActive, Dep

\* Inserting a queued row, whoever asks for it, keeps RowInv.
LEMMA InsertKeepsRows ==
  ASSUME TypeOK, RowInv, NEW a \in apps, NEW img, Insert(a, img),
         UNCHANGED <<process, worker, docker, handler>>
  PROVE  RowInv'
<1> USE BoundAssumption, AppAssumption, OneActiveMeans
    DEF TypeOK, Insert, IsActive, process, worker, docker, handler
<1>1. next \in Dep /\ next' = next + 1 /\ a \in App /\ pc[next] = "idle"
  BY DEF RowInv, RowsInUse, Dep
<1>2. RowsInUse'
  BY <1>1 DEF RowInv, RowsInUse, Dep
<1>3. DispatcherHolds'
  BY <1>1 DEF RowInv, DispatcherHolds, Dep
<1>4. PipelineHolds'
  BY <1>1 DEF RowInv, PipelineHolds, Building, Deploying, BlueGreen, StopFirst, Compose
<1>5. DownIsIdle' /\ OneActivePerApp'
  BY <1>1 DEF RowInv, DownIsIdle
<1>6. OneMutatorPerApp' /\ ActiveHasPipeline'
  BY <1>1 DEF RowInv, OneMutatorPerApp, ActiveHasPipeline, MayMutate, Building, Deploying,
       BlueGreen, StopFirst, Compose
<1> QED
  BY <1>2, <1>3, <1>4, <1>5, <1>6 DEF RowInv

\* The HTTP handlers keep RowInv.
LEMMA HandlersKeepRows ==
  ASSUME TypeOK, RowInv, Handlers
  PROVE  RowInv'
<1> USE BoundAssumption, AppAssumption, OneActiveMeans DEF TypeOK, RowInv, RowsInUse,
     DispatcherHolds, PipelineHolds, DownIsIdle, OneMutatorPerApp, ActiveHasPipeline,
          MayMutate, IsActive, store, process, worker, docker, handler
<1>1. ASSUME NEW a \in App, Enqueue(a) PROVE RowInv'
  BY <1>1, InsertKeepsRows DEF Enqueue
<1>2. ASSUME NEW a \in App, AddVolume(a) PROVE RowInv'
  BY <1>2 DEF AddVolume
<1>3. ASSUME NEW a \in App, DeleteVolume(a) PROVE RowInv'
  BY <1>3 DEF DeleteVolume
<1>4. ASSUME NEW a \in App, StopApp(a) PROVE RowInv'
  BY <1>4 DEF StopApp
<1>5. ASSUME NEW a \in App, RestartApp(a) PROVE RowInv'
  BY <1>5 DEF RestartApp
<1>6. ASSUME NEW a \in App, DeleteContainer(a) PROVE RowInv'
  BY <1>6 DEF DeleteContainer
<1>7. ASSUME NEW a \in App, DeleteRows(a) PROVE RowInv'
  BY <1>7 DEF DeleteRows
<1>8. ASSUME NEW d \in Dep, Rollback(d) PROVE RowInv'
  BY <1>8, InsertKeepsRows DEF Rollback
<1>9. ASSUME NEW d \in Dep, CancelRead(d) PROVE RowInv'
  BY <1>9 DEF CancelRead
<1>10. ASSUME NEW d \in Dep, CancelWrite(d) PROVE RowInv'
  BY <1>10 DEF CancelWrite, SetStatus, CanTransition, transitions, Building, Deploying,
       BlueGreen, StopFirst, Compose
<1>11. ASSUME NEW d \in Dep, Interrupt(d) PROVE RowInv'
  BY <1>11 DEF Interrupt
<1> QED
  BY <1>1, <1>2, <1>3, <1>4, <1>5, <1>6, <1>7, <1>8, <1>9, <1>10, <1>11 DEF Handlers

\* The dispatcher keeps RowInv.
LEMMA DispatcherKeepsRows ==
  ASSUME TypeOK, RowInv, Dispatcher
  PROVE  RowInv'
<1> USE BoundAssumption, AppAssumption, OneActiveMeans DEF TypeOK, RowInv, RowsInUse,
     DispatcherHolds, PipelineHolds, DownIsIdle, OneMutatorPerApp, ActiveHasPipeline,
          MayMutate, IsActive, store, process, worker, docker, handler
<1>1. ASSUME NEW d \in Dep, Pick(d) PROVE RowInv'
  <2>1. status[d] = "queued" /\ d < next
    BY <1>1 DEF Pick, NextClaimable, Claimable, Dep
  <2>2. pc[d] = "idle"
    BY <2>1 DEF Place, Building, Deploying, BlueGreen, StopFirst, Compose
  <2>3. \A e \in Dep : owner[e] = owner[d] =>
          ~IsActive(status[e]) /\ (status[e] = "queued" => d <= e)
    BY <1>1 DEF Pick, NextClaimable, Claimable
  <2> QED
    BY <1>1, <2>1, <2>2, <2>3 DEF Pick
<1>2. CASE ClaimDeployment
  BY <1>2 DEF ClaimDeployment, Building, Deploying, BlueGreen, StopFirst, Compose
<1>3. CASE Launch
  BY <1>3 DEF Launch, Building, Deploying, BlueGreen, StopFirst, Compose
<1> QED
  BY <1>1, <1>2, <1>3 DEF Dispatcher

\* Shutdown, exit, crash and boot keep RowInv.
LEMMA ProcessKeepsRows ==
  ASSUME TypeOK, RowInv, Process
  PROVE  RowInv'
<1> USE BoundAssumption, AppAssumption, OneActiveMeans DEF TypeOK, RowInv, RowsInUse,
     DispatcherHolds, PipelineHolds, DownIsIdle, OneMutatorPerApp, ActiveHasPipeline,
          MayMutate, IsActive, store, process, worker, docker, handler
<1>1. CASE Shutdown
  BY <1>1 DEF Shutdown
<1>2. CASE Exit
  BY <1>2 DEF Exit, Busy
<1>3. CASE Crash
  BY <1>3 DEF Crash, Serving, Building, Deploying, BlueGreen, StopFirst, Compose
<1>4. CASE Boot
  BY <1>4 DEF Boot, RecoverActive, Building, Deploying, BlueGreen, StopFirst, Compose
<1> QED
  BY <1>1, <1>2, <1>3, <1>4 DEF Process

\* A step of a pipeline that touches no row, within the build or the cutover.
LEMMA MoveKeepsRows ==
  ASSUME TypeOK, RowInv, NEW d \in Dep, NEW from, NEW to, pc[d] = from, Goto(d, to),
         UNCHANGED <<apps, owner, status, next, server, at, cand>>,
         (from \in Building /\ to \in Building) \/ (from \in Deploying /\ to \in Deploying)
  PROVE  RowInv'
<1> USE OneActiveMeans DEF TypeOK, Goto, Building, Deploying, BlueGreen, StopFirst, Compose
<1>1. RowsInUse' /\ DispatcherHolds' /\ DownIsIdle' /\ OneActivePerApp'
  BY DEF RowInv, RowsInUse, DispatcherHolds, DownIsIdle
<1>2. PipelineHolds'
  BY DEF RowInv, PipelineHolds
<1>3. OneMutatorPerApp' /\ ActiveHasPipeline'
  BY DEF RowInv, OneMutatorPerApp, ActiveHasPipeline, MayMutate
<1> QED
  BY <1>1, <1>2, <1>3 DEF RowInv

\* A pipeline keeps RowInv: the steps that write a row one by one, the others as
\* moves.
LEMMA PipelineKeepsRows ==
  ASSUME TypeOK, RowInv, NEW d \in Dep, Pipeline(d)
  PROVE  RowInv'
<1> USE DEF OnlyPipeline, OnlyStatus, OnlyDocker, store, process, worker, docker, handler
<1>1. CASE Load(d)
  BY <1>1, MoveKeepsRows DEF Load, Building
<1>2. CASE Build(d)
  BY <1>2, MoveKeepsRows DEF Build, Building
<1>3. CASE Choose(d)
  BY <1>3, MoveKeepsRows DEF Choose, Deploying, BlueGreen, StopFirst, Compose
<1>4. CASE MakeTemp(d)
  BY <1>4, MoveKeepsRows DEF MakeTemp, Deploying, BlueGreen, StopFirst, Compose
<1>5. CASE StartTemp(d)
  BY <1>5, MoveKeepsRows DEF StartTemp, Deploying, BlueGreen, StopFirst, Compose
<1>6. CASE Probe(d)
  BY <1>6, MoveKeepsRows DEF Probe, Deploying, BlueGreen, StopFirst, Compose
<1>7. CASE Recheck(d)
  BY <1>7, MoveKeepsRows DEF Recheck, GetApp, Deploying, BlueGreen, StopFirst, Compose
<1>8. CASE Cut(d)
  BY <1>8, MoveKeepsRows DEF Cut, Deploying, BlueGreen, StopFirst, Compose
<1>9. CASE MakeCanonical(d)
  BY <1>9, MoveKeepsRows DEF MakeCanonical, Deploying, BlueGreen, StopFirst, Compose
<1>10. CASE StartCanonical(d)
  BY <1>10, MoveKeepsRows DEF StartCanonical, Deploying, BlueGreen, StopFirst, Compose
<1>11. CASE DropTemp(d)
  BY <1>11, MoveKeepsRows DEF DropTemp, RemoveTemp, Deploying, BlueGreen, StopFirst, Compose
<1>12. CASE CleanTemp(d)
  BY <1>12, MoveKeepsRows DEF CleanTemp, RemoveTemp, Deploying, BlueGreen, StopFirst, Compose
<1>13. CASE Verify(d)
  BY <1>13, MoveKeepsRows DEF Verify, Deploying, BlueGreen, StopFirst, Compose
<1>14. CASE StopFirstCut(d)
  BY <1>14, MoveKeepsRows DEF StopFirstCut, Deploying, BlueGreen, StopFirst, Compose
<1>15. CASE StopFirstApp(d)
  BY <1>15, MoveKeepsRows DEF StopFirstApp, GetApp, Deploying, BlueGreen, StopFirst, Compose
<1>16. CASE StopFirstCreate(d)
  BY <1>16, MoveKeepsRows DEF StopFirstCreate, Deploying, BlueGreen, StopFirst, Compose
<1>17. CASE StopFirstStart(d)
  BY <1>17, MoveKeepsRows DEF StopFirstStart, Deploying, BlueGreen, StopFirst, Compose
<1>18. CASE StopFirstVerify(d)
  BY <1>18, MoveKeepsRows DEF StopFirstVerify, Deploying, BlueGreen, StopFirst, Compose
<1>19. CASE StackApp(d)
  BY <1>19, MoveKeepsRows DEF StackApp, GetApp, Deploying, BlueGreen, StopFirst, Compose
<1>20. CASE StackUp(d)
  BY <1>20, MoveKeepsRows DEF StackUp, Deploying, BlueGreen, StopFirst, Compose
<1> USE BoundAssumption, AppAssumption, OneActiveMeans
    DEF TypeOK, Goto, Write, SetStatus, CanTransition, transitions, IsActive, RowInv,
        RowsInUse, DispatcherHolds, PipelineHolds, DownIsIdle, OneMutatorPerApp,
        ActiveHasPipeline, MayMutate, Building, Deploying, BlueGreen, StopFirst, Compose
<1>21. CASE SkipTag(d)
  BY <1>21 DEF SkipTag
<1>22. CASE Advance(d)
  BY <1>22 DEF Advance, AfterAdvance
<1>23. CASE FailBuilding(d)
  BY <1>23 DEF FailBuilding
<1>24. CASE FailDeploying(d)
  BY <1>24 DEF FailDeploying
<1>25. CASE Record(d)
  BY <1>25 DEF Record
<1>26. CASE Retire(d)
  BY <1>26 DEF Retire, SupersedeOthers
<1>27. CASE Settle(d)
  BY <1>27 DEF Settle
<1> QED
  BY <1>1, <1>2, <1>3, <1>4, <1>5, <1>6, <1>7, <1>8, <1>9, <1>10, <1>11, <1>12, <1>13, <1>14,
       <1>15, <1>16, <1>17, <1>18, <1>19, <1>20, <1>21, <1>22, <1>23, <1>24, <1>25, <1>26,
            <1>27 DEF Pipeline

\* The rows, the dispatcher and the pipelines stay in step.
THEOREM RowInvariant == Spec => []RowInv
<1>1. Init => RowInv
  BY AppAssumption, BoundAssumption, OneActiveMeans
     DEF Init, RowInv, RowsInUse, DispatcherHolds, PipelineHolds, DownIsIdle, IsActive, Dep,
         OneMutatorPerApp, ActiveHasPipeline, MayMutate, Building, Deploying, BlueGreen,
              StopFirst, Compose
<1>2. TypeOK /\ RowInv /\ [Next]_vars => RowInv'
  <2>1. ASSUME TypeOK, RowInv, UNCHANGED vars PROVE RowInv'
    BY <2>1, OneActiveMeans
       DEF RowInv, RowsInUse, DispatcherHolds, PipelineHolds, DownIsIdle, OneMutatorPerApp,
           ActiveHasPipeline, MayMutate, vars, store, process, worker, docker, handler
  <2> QED
    BY <2>1, HandlersKeepRows, DispatcherKeepsRows, PipelineKeepsRows, ProcessKeepsRows DEF Next
<1> QED
  BY <1>1, <1>2, TypeCorrect, PTL DEF Spec

\* NextClaimable serializes the attempts of an app: no two are ever active.
THEOREM OneActive == Spec => []OneActivePerApp
<1>1. RowInv => OneActivePerApp
  BY DEF RowInv
<1> QED
  BY <1>1, RowInvariant, PTL

\* A pipeline that lost its row to a cancel never touches a container.
THEOREM MutatorOwns == Spec => []MutatorOwnsRow
<1>1. RowInv => MutatorOwnsRow
  BY DEF RowInv, PipelineHolds, MutatorOwnsRow, MayMutate
<1> QED
  BY <1>1, RowInvariant, PTL

\* Two pipelines of one app never replace its containers at once.
THEOREM OneMutator == Spec => []OneMutatorPerApp
<1>1. RowInv => OneMutatorPerApp
  BY DEF RowInv
<1> QED
  BY <1>1, RowInvariant, PTL

\* No attempt is left active without a pipeline while a process is up.
THEOREM NoneOrphaned == Spec => []ActiveHasPipeline
<1>1. RowInv => ActiveHasPipeline
  BY DEF RowInv
<1> QED
  BY <1>1, RowInvariant, PTL

-----------------------------------------------------------------------------
(* Deploy implements Deployments: every step of the worker, the handlers and *)
(* the process is a step of the table's specification or leaves it alone.    *)

Unseen == UNCHANGED <<apps, owner, status, next>>

\* The HTTP handlers' writes are steps of the table or stutter.
LEMMA HandlersImplement ==
  ASSUME TypeOK, RowInv, Handlers
  PROVE  D!Next \/ Unseen
<1> USE DEF Unseen, TypeOK, store, process, worker, docker, handler, D!Next, D!Dep, Dep
<1>1. ASSUME NEW a \in App, Enqueue(a) PROVE D!Enqueue(a)
  BY <1>1 DEF Enqueue, Insert, D!Enqueue
<1>2. ASSUME NEW d \in Dep, Rollback(d) PROVE owner[d] \in App /\ D!Enqueue(owner[d])
  BY <1>2 DEF Rollback, Insert, D!Enqueue
<1>3. ASSUME NEW a \in App, AddVolume(a) \/ DeleteVolume(a) \/ StopApp(a)
                            \/ RestartApp(a) \/ DeleteContainer(a)
      PROVE  Unseen
  BY <1>3 DEF AddVolume, DeleteVolume, StopApp, RestartApp, DeleteContainer
<1>4. ASSUME NEW a \in App, DeleteRows(a) PROVE D!DeleteApp(a) \/ Unseen
  <2>1. CASE a \in apps
    BY <1>4, <2>1 DEF DeleteRows, D!DeleteApp
  <2>2. CASE a \notin apps
    BY <1>4, <2>2 DEF DeleteRows, RowInv, RowsInUse
  <2> QED
    BY <2>1, <2>2
<1>5. ASSUME NEW d \in Dep, CancelRead(d) \/ Interrupt(d) PROVE Unseen
  BY <1>5 DEF CancelRead, Interrupt
<1>6. ASSUME NEW d \in Dep, CancelWrite(d) PROVE D!Move(d, "cancelled") \/ Unseen
  <2>1. CASE status' = status
    BY <1>6, <2>1 DEF CancelWrite
  <2>2. CASE status[d] \in {"queued", "building"} /\ status' = [status EXCEPT ![d] = "cancelled"]
    BY <1>6, <2>2 DEF CancelWrite, D!Move, D!Status, D!transitions
  <2> QED
    BY <1>6, <2>1, <2>2 DEF CancelWrite, SetStatus
<1> QED
  BY <1>1, <1>2, <1>3, <1>4, <1>5, <1>6 DEF Handlers, D!Status

\* The claim is the table's, the rest of the dispatcher stutters.
LEMMA DispatcherImplements ==
  ASSUME TypeOK, RowInv, Dispatcher
  PROVE  D!Next \/ Unseen
<1> USE DEF Unseen, TypeOK, store, process, worker, docker, handler
<1>1. ASSUME NEW d \in Dep, Pick(d) PROVE Unseen
  BY <1>1 DEF Pick
<1>2. CASE ClaimDeployment
  <2>1. CASE status' = status
    BY <1>2, <2>1 DEF ClaimDeployment
  <2>2. CASE status' = [status EXCEPT ![cand] = "building"] /\ status[cand] = "queued"
    <3>1. cand \in Dep /\ D!Claim(cand)
      BY <1>2, <2>2 DEF ClaimDeployment, RowInv, DispatcherHolds, D!Claim, D!Rows, D!Dep, Dep,
                        IsActive, D!IsActive
    <3> QED BY <3>1 DEF D!Next, D!Dep, Dep
  <2> QED BY <1>2, <2>1, <2>2 DEF ClaimDeployment
<1>3. CASE Launch
  BY <1>3 DEF Launch
<1> QED
  BY <1>1, <1>2, <1>3 DEF Dispatcher

\* A pipeline's writes are steps of the table, its calls stutter.
LEMMA PipelineImplements ==
  ASSUME TypeOK, RowInv, NEW d \in Dep, Pipeline(d)
  PROVE  D!Next \/ Unseen
<1> USE DEF Unseen, TypeOK, OnlyPipeline, OnlyStatus, OnlyDocker,
            store, process, worker, docker, handler
<1>1. CASE \E from, to \in Status : /\ to \notin {"building", "superseded"}
                                    /\ Write(d, from, to) \/ SetStatus(d, from, to)
                                    /\ UNCHANGED <<apps, owner, next>>
  BY <1>1 DEF Write, SetStatus, CanTransition, transitions, Status,
              D!Next, D!Dep, Dep, D!Move, D!Status, D!transitions
<1>2. CASE SkipTag(d) \/ FailBuilding(d) \/ FailDeploying(d) \/ Record(d)
  BY <1>1, <1>2 DEF SkipTag, FailBuilding, FailDeploying, Record, Status
<1>3. CASE Advance(d)
  BY <1>1, <1>3 DEF Advance, Status
<1>4. CASE Retire(d)
  <2>1. CASE status' = status
    BY <1>4, <2>1 DEF Retire
  <2>2. CASE SupersedeOthers(d) /\ status[d] = "absent"
    <3>1. \A e \in Dep : owner[e] = owner[d] => status[e] # "running"
      BY <2>2 DEF RowInv, RowsInUse
    <3> QED BY <1>4, <2>2, <3>1 DEF Retire, SupersedeOthers
  <2>3. CASE SupersedeOthers(d) /\ status[d] # "absent"
    <3>1. D!Retire(d)
      BY <1>4, <2>3 DEF Retire, SupersedeOthers, RowInv, PipelineHolds, D!Retire, D!Rows,
                        D!Dep, Dep
    <3> QED BY <3>1 DEF D!Next, D!Dep, Dep
  <2> QED BY <1>4, <2>1, <2>2, <2>3 DEF Retire
<1>5. CASE Load(d) \/ Build(d) \/ Choose(d) \/ Settle(d) \/ StackApp(d) \/ StackUp(d)
  BY <1>5 DEF Load, Build, Choose, Settle, StackApp, StackUp
<1>6. CASE MakeTemp(d) \/ StartTemp(d) \/ Probe(d) \/ Recheck(d) \/ Cut(d) \/ MakeCanonical(d)
  BY <1>6 DEF MakeTemp, StartTemp, Probe, Recheck, Cut, MakeCanonical
<1>7. CASE StartCanonical(d) \/ DropTemp(d) \/ CleanTemp(d) \/ Verify(d)
  BY <1>7 DEF StartCanonical, DropTemp, CleanTemp, RemoveTemp, Verify
<1>8. CASE \/ StopFirstCut(d) \/ StopFirstApp(d) \/ StopFirstCreate(d)
           \/ StopFirstStart(d) \/ StopFirstVerify(d)
  BY <1>8 DEF StopFirstCut, StopFirstApp, StopFirstCreate, StopFirstStart, StopFirstVerify
<1> QED
  BY <1>2, <1>3, <1>4, <1>5, <1>6, <1>7, <1>8 DEF Pipeline

\* Boot recovers the active rows; the rest of the process stutters.
LEMMA ProcessImplements ==
  ASSUME TypeOK, RowInv, Process
  PROVE  D!Next \/ Unseen
<1> USE DEF Unseen, TypeOK, store, process, worker, docker, handler
<1>1. CASE Shutdown \/ Exit \/ Crash
  BY <1>1 DEF Shutdown, Exit, Crash
<1>2. CASE Boot
  <2>1. D!Recover
    BY <1>2 DEF Boot, RecoverActive, D!Recover, IsActive, D!IsActive, D!Dep, Dep
  <2> QED BY <2>1 DEF D!Next
<1> QED
  BY <1>1, <1>2 DEF Process

\* The worker, the handlers and the process, with every interleaving, crash and
\* fault the model has, implement the deployments table's specification.
THEOREM Refinement == Spec => Implements
<1>1. Init => D!Init
  BY DEF Init, D!Init, D!Dep, Dep
<1>2. TypeOK /\ RowInv /\ [Next]_vars => [D!Next]_(D!vars)
  <2>1. ASSUME UNCHANGED vars PROVE Unseen
    BY <2>1 DEF vars, store, Unseen
  <2> QED
    BY <2>1, HandlersImplement, DispatcherImplements, PipelineImplements, ProcessImplements
       DEF Next, Unseen, D!vars
<1> QED
  BY <1>1, <1>2, TypeCorrect, RowInvariant, PTL DEF Spec, Implements, D!Spec

\* An attempt is claimed only once every older attempt of its app has settled.
THEOREM InOrder == Spec => ClaimsInOrder
<1>1. ASSUME TypeOK, D!Next, NEW d \in Dep, status[d] = "queued", status'[d] = "building",
             NEW e \in D!Rows(owner[d]), e < d
      PROVE  D!IsTerminal(status[e])
  <2> USE DEF D!Dep, Dep, TypeOK
  <2>1. PICK c \in Dep : D!Claim(c)
    BY <1>1 DEF D!Next, D!Enqueue, D!DeleteApp, D!Retire, D!Move, D!Recover, D!IsActive, D!Rows
  <2>2. c = d
    BY <1>1, <2>1 DEF D!Claim
  <2>3. ~D!IsActive(status[e]) /\ status[e] # "queued" /\ status[e] \in Status
    BY <1>1, <2>1, <2>2 DEF D!Claim, D!Rows
  <2> QED
    BY <2>3 DEF D!IsActive, D!IsTerminal, Status
<1>2. TypeOK /\ [D!Next]_(D!vars) =>
        [\A d \in D!Dep : status[d] = "queued" /\ status'[d] = "building" =>
           \A e \in D!Rows(owner[d]) : e < d => D!IsTerminal(status[e])]_(D!vars)
  BY <1>1 DEF D!vars, D!Dep, Dep
<1> QED
  BY <1>2, TypeCorrect, Refinement, PTL DEF Implements, D!Spec, ClaimsInOrder, D!ClaimsInOrder


-----------------------------------------------------------------------------
(* A cancel never interrupts a cutover.                                      *)

\* The pipelines at work are those whose cancel function is registered.  A cancel
\* interrupts only what its guarded write took out of the build, which never reaches
\* the containers any more.
CancelInv ==
  /\ cancels = Busy /\ done \subseteq Busy
  /\ \A d \in Dep : cancelling[d] # "no" => d < next
  /\ \A d \in Dep : cancelling[d] = "interrupt" =>
       status[d] \in {"cancelled", "absent"} /\ pc[d] \notin Deploying
  /\ \A d \in done : server = "stopping" \/
       (status[d] \in {"cancelled", "absent"} /\ pc[d] \notin Deploying)

\* The HTTP handlers keep CancelInv.
LEMMA HandlersKeepCancels ==
  ASSUME TypeOK, RowInv, CancelInv, Handlers
  PROVE  CancelInv'
<1> USE BoundAssumption, AppAssumption DEF TypeOK, CancelInv, Busy, store, process, worker,
        docker, handler
<1>1. ASSUME NEW a \in apps, NEW img, Insert(a, img), UNCHANGED <<process, worker, docker, handler>>
      PROVE  CancelInv'
  <2>1. next \in Dep /\ next' = next + 1 /\ pc[next] = "idle"
    BY <1>1 DEF Insert, RowInv, RowsInUse, Dep
  <2> QED
    BY <1>1, <2>1 DEF Insert, Dep
<1>2. ASSUME NEW a \in App, Enqueue(a) PROVE CancelInv'
  BY <1>1, <1>2 DEF Enqueue
<1>3. ASSUME NEW a \in App, AddVolume(a) \/ DeleteVolume(a) \/ StopApp(a) \/ RestartApp(a)
                            \/ DeleteContainer(a)
      PROVE  CancelInv'
  BY <1>3 DEF AddVolume, DeleteVolume, StopApp, RestartApp, DeleteContainer
<1>4. ASSUME NEW a \in App, DeleteRows(a) PROVE CancelInv'
  BY <1>4 DEF DeleteRows
<1>5. ASSUME NEW d \in Dep, Rollback(d) PROVE CancelInv'
  BY <1>1, <1>5 DEF Rollback
<1>6. ASSUME NEW d \in Dep, CancelRead(d) PROVE CancelInv'
  <2>1. d < next
    BY <1>6 DEF CancelRead, CanCancel, RowInv, RowsInUse, Dep
  <2> QED
    BY <1>6, <2>1 DEF CancelRead, CanCancel
<1>7. ASSUME NEW d \in Dep, CancelWrite(d) PROVE CancelInv'
  <2>1. status[d] = cancelling[d] => pc[d] \notin Deploying
    BY <1>7 DEF CancelWrite, RowInv, RowsInUse, PipelineHolds
  <2> QED
    BY <1>7, <2>1 DEF CancelWrite, SetStatus, CanTransition, transitions
<1>8. ASSUME NEW d \in Dep, Interrupt(d) PROVE CancelInv'
  BY <1>8 DEF Interrupt
<1> QED
  BY <1>2, <1>3, <1>4, <1>5, <1>6, <1>7, <1>8 DEF Handlers

\* The dispatcher keeps CancelInv.
LEMMA DispatcherKeepsCancels ==
  ASSUME TypeOK, RowInv, CancelInv, Dispatcher
  PROVE  CancelInv'
<1> USE BoundAssumption DEF TypeOK, CancelInv, Busy, store, process, worker, docker, handler
<1>1. ASSUME NEW d \in Dep, Pick(d) PROVE CancelInv'
  BY <1>1 DEF Pick
<1>2. CASE ClaimDeployment
  BY <1>2 DEF ClaimDeployment
<1>3. CASE Launch
  <2>1. cand \in Dep /\ pc[cand] = "idle"
    BY <1>3 DEF Launch, RowInv, DispatcherHolds
  <2>2. server \in {"up", "stopping"}
    BY <1>3 DEF Launch, RowInv, DownIsIdle
  <2> QED
    BY <1>3, <2>1, <2>2 DEF Launch, Deploying, BlueGreen, StopFirst, Compose
<1> QED
  BY <1>1, <1>2, <1>3 DEF Dispatcher

\* Shutdown, exit, crash and boot keep CancelInv.
LEMMA ProcessKeepsCancels ==
  ASSUME TypeOK, RowInv, CancelInv, Process
  PROVE  CancelInv'
<1> USE BoundAssumption DEF TypeOK, CancelInv, Busy, store, process, worker, docker, handler
<1>1. CASE Shutdown
  BY <1>1 DEF Shutdown
<1>2. CASE Exit
  BY <1>2 DEF Exit
<1>3. CASE Crash
  BY <1>3 DEF Crash
<1>4. CASE Boot
  BY <1>4 DEF Boot, RecoverActive, IsActive
<1> QED
  BY <1>1, <1>2, <1>3, <1>4 DEF Process

\* A step of a pipeline that writes no row and stays on its side of the advance.
LEMMA MoveKeepsCancels ==
  ASSUME TypeOK, CancelInv, NEW d \in Dep, NEW to, Goto(d, to),
         pc[d] # "idle", to # "idle", to \in Deploying => pc[d] \in Deploying,
         UNCHANGED <<status, next, server, cancels, done, cancelling>>
  PROVE  CancelInv'
BY DEF TypeOK, CancelInv, Goto, Busy

\* A pipeline keeps CancelInv.
LEMMA PipelineKeepsCancels ==
  ASSUME TypeOK, RowInv, CancelInv, NEW d \in Dep, Pipeline(d)
  PROVE  CancelInv'
<1> USE MoveKeepsCancels DEF OnlyPipeline, OnlyStatus, OnlyDocker, store, process, worker,
        docker, handler, Building, Deploying, BlueGreen, StopFirst, Compose
<1>1. CASE Load(d)
  BY <1>1 DEF Load
<1>2. CASE Build(d)
  BY <1>2 DEF Build
<1>3. CASE Choose(d) \/ Recheck(d) \/ StopFirstApp(d) \/ StackApp(d)
  BY <1>3 DEF Choose, Recheck, StopFirstApp, StackApp, GetApp
<1>4. CASE MakeTemp(d) \/ StartTemp(d) \/ Probe(d) \/ DropTemp(d) \/ CleanTemp(d)
  BY <1>4 DEF MakeTemp, StartTemp, Probe, DropTemp, CleanTemp, RemoveTemp
<1>5. CASE Cut(d) \/ MakeCanonical(d) \/ StartCanonical(d) \/ Verify(d)
  BY <1>5 DEF Cut, MakeCanonical, StartCanonical, Verify
<1>6. CASE StopFirstCut(d) \/ StopFirstCreate(d)
  BY <1>6 DEF StopFirstCut, StopFirstCreate
<1>7. CASE StopFirstStart(d) \/ StopFirstVerify(d) \/ StackUp(d)
  BY <1>7 DEF StopFirstStart, StopFirstVerify, StackUp
<1> USE BoundAssumption DEF TypeOK, CancelInv, Busy, Goto, Write, SetStatus, CanTransition,
        transitions
<1>8. CASE SkipTag(d)
  BY <1>8 DEF SkipTag
<1>9. CASE Advance(d)
  BY <1>9 DEF Advance, AfterAdvance
<1>10. CASE FailBuilding(d)
  BY <1>10 DEF FailBuilding
<1>11. CASE FailDeploying(d)
  BY <1>11 DEF FailDeploying
<1>12. CASE Record(d)
  BY <1>12 DEF Record
<1>13. CASE Retire(d)
  BY <1>13 DEF Retire, SupersedeOthers
<1>14. CASE Settle(d)
  BY <1>14 DEF Settle
<1> QED
  BY <1>1, <1>2, <1>3, <1>4, <1>5, <1>6, <1>7, <1>8, <1>9, <1>10, <1>11, <1>12, <1>13, <1>14
     DEF Pipeline

\* Cancels and interrupts stay with the attempts that were still building.
THEOREM CancelInvariant == Spec => []CancelInv
<1>1. Init => CancelInv
  BY DEF Init, CancelInv, Busy
<1>2. TypeOK /\ RowInv /\ CancelInv /\ [Next]_vars => CancelInv'
  <2>1. ASSUME CancelInv, UNCHANGED vars PROVE CancelInv'
    BY <2>1 DEF CancelInv, Busy, vars, store, process, worker, docker, handler
  <2> QED
    BY <2>1, HandlersKeepCancels, DispatcherKeepsCancels, PipelineKeepsCancels,
       ProcessKeepsCancels DEF Next
<1> QED
  BY <1>1, <1>2, TypeCorrect, RowInvariant, PTL DEF Spec

\* An operator's cancel never interrupts a cutover: only a shutdown does.
THEOREM CancelsSpareCutovers == Spec => []CancelSparesCutover
<1>1. CancelInv => CancelSparesCutover
  BY DEF CancelInv, CancelSparesCutover
<1> QED
  BY <1>1, CancelInvariant, PTL

-----------------------------------------------------------------------------
(* A cancelled attempt never serves.                                         *)

\* An attempt that has not got past the advance has no container.
Untouched ==
  \A d \in Dep :
    d >= next \/ status[d] \in {"queued", "building", "cancelled"}
    => (\A a \in App : canon[a].by # d) /\ ~Exists(temp[d])

\* Stopping and starting a container leaves it the attempt's it was created for.
LEMMA SameMaker ==
  ASSUME NEW c \in Container
  PROVE  Stopped(c).by = c.by /\ Running(c).by = c.by /\ (Exists(Stopped(c)) <=> Exists(c))
BY DEF Container, Stopped, Running, Exists

\* Removing containers, and nothing else, keeps Untouched.
LEMMA RemovalKeepsUntouched ==
  ASSUME Untouched, UNCHANGED <<status, next, temp>>,
         \A b \in App : canon'[b].by \in {0, canon[b].by}
  PROVE  Untouched'
<1>1. ASSUME NEW d \in Dep, NEW a \in App, canon[a].by # d PROVE canon'[a].by # d
  BY <1>1, d # 0 DEF Dep
<1> QED
  BY <1>1 DEF Untouched

\* The HTTP handlers keep Untouched.
LEMMA HandlersKeepUntouched ==
  ASSUME TypeOK, RowInv, Untouched, Handlers
  PROVE  Untouched'
<1> USE BoundAssumption, AppAssumption DEF TypeOK, Untouched, store, process, worker, docker,
        handler
<1>1. ASSUME NEW a \in apps, NEW img, Insert(a, img), UNCHANGED <<process, worker, docker, handler>>
      PROVE  Untouched'
  BY <1>1 DEF Insert, Dep
<1>2. ASSUME NEW a \in App, Enqueue(a) PROVE Untouched'
  BY <1>1, <1>2 DEF Enqueue
<1>3. ASSUME NEW a \in App, AddVolume(a) \/ DeleteVolume(a) PROVE Untouched'
  BY <1>3 DEF AddVolume, DeleteVolume
<1>4. ASSUME NEW a \in App, StopApp(a) \/ RestartApp(a) PROVE Untouched'
  <2>1. CASE StopApp(a)
    BY <2>1, SameMaker DEF StopApp
  <2>2. CASE RestartApp(a)
    BY <2>2, SameMaker DEF RestartApp
  <2> QED
    BY <1>4, <2>1, <2>2
<1>5. ASSUME NEW a \in App, DeleteContainer(a) PROVE Untouched'
  <2>1. \A b \in App : canon'[b] \in {NoContainer, Stopped(canon[b]), canon[b]}
    BY <1>5 DEF DeleteContainer
  <2>2. UNCHANGED <<status, next, temp>>
    BY <1>5 DEF DeleteContainer
  <2>3. \A b \in App : canon'[b].by \in {0, canon[b].by}
    BY <2>1, SameMaker DEF NoContainer
  <2> QED
    BY <2>2, <2>3, RemovalKeepsUntouched
<1>6. ASSUME NEW a \in App, DeleteRows(a) PROVE Untouched'
  BY <1>6 DEF DeleteRows
<1>7. ASSUME NEW d \in Dep, Rollback(d) PROVE Untouched'
  BY <1>1, <1>7 DEF Rollback
<1>8. ASSUME NEW d \in Dep, CancelRead(d) \/ Interrupt(d) PROVE Untouched'
  BY <1>8 DEF CancelRead, Interrupt
<1>9. ASSUME NEW d \in Dep, CancelWrite(d) PROVE Untouched'
  BY <1>9 DEF CancelWrite, SetStatus, CanTransition, transitions
<1> QED
  BY <1>2, <1>3, <1>4, <1>5, <1>6, <1>7, <1>8, <1>9 DEF Handlers

\* The dispatcher and the process keep Untouched.
LEMMA OthersKeepUntouched ==
  ASSUME TypeOK, Untouched, Dispatcher \/ Process
  PROVE  Untouched'
<1> USE DEF TypeOK, Untouched, IsActive, store, process, worker, docker, handler
<1>1. CASE Dispatcher
  BY <1>1 DEF Dispatcher, Pick, ClaimDeployment, Launch
<1>2. CASE Process
  BY <1>2 DEF Process, Shutdown, Exit, Crash, Boot, RecoverActive
<1> QED
  BY <1>1, <1>2

\* A step that replaces containers of a deploying attempt, or touches none.
LEMMA WorkKeepsUntouched ==
  ASSUME TypeOK, RowInv, Untouched, NEW d \in Dep, UNCHANGED <<owner, status, next>>,
         pc[d] \in Deploying,
         \/ UNCHANGED canon
         \/ \E c : SetMine(d, c) /\ c.by \in {0, d, Mine(d).by},
         UNCHANGED temp \/ \E c : SetTemp(d, c)
  PROVE  Untouched'
<1>1. d < next /\ status[d] \in {"deploying", "absent"} /\ owner[d] \in App
  BY BoundAssumption
     DEF TypeOK, RowInv, RowsInUse, PipelineHolds, Deploying, BlueGreen, StopFirst, Compose, Dep
<1>2. \A e \in Dep : e # d => temp'[e] = temp[e]
  BY DEF TypeOK, SetTemp
<1>3. \A a \in App : canon'[a].by \in {0, d, canon[a].by}
  BY DEF TypeOK, SetMine, Mine
<1>4. ASSUME NEW e \in Dep, e >= next' \/ status'[e] \in {"queued", "building", "cancelled"}
      PROVE  (\A a \in App : canon'[a].by # e) /\ ~Exists(temp'[e])
  <2>1. e # d /\ e # 0
    BY <1>1, <1>4, BoundAssumption DEF Dep, TypeOK
  <2>2. (\A a \in App : canon[a].by # e) /\ ~Exists(temp[e])
    BY <1>4 DEF Untouched
  <2> QED
    BY <1>2, <1>3, <2>1, <2>2
<1> QED
  BY <1>4 DEF Untouched, Exists

\* A pipeline keeps Untouched.
LEMMA PipelineKeepsUntouched ==
  ASSUME TypeOK, RowInv, Untouched, NEW d \in Dep, Pipeline(d)
  PROVE  Untouched'
<1> USE DEF OnlyPipeline, OnlyStatus, OnlyDocker, store, process, worker, docker, handler
<1>1. CASE Load(d) \/ Build(d)
  BY <1>1 DEF Load, Build, Untouched
<1>2. ASSUME pc[d] \in Deploying PROVE owner[d] \in App /\ Mine(d) \in Container
  <2>1. owner[d] \in App
    BY <1>2, BoundAssumption
       DEF TypeOK, RowInv, RowsInUse, Deploying, BlueGreen, StopFirst, Compose, Dep
  <2> QED
    BY <2>1, MineType
<1>3. ASSUME pc[d] \in Deploying
      PROVE  /\ NoContainer.by = 0 /\ NewContainer(d).by = d
             /\ Stopped(Mine(d)).by = Mine(d).by /\ Running(Mine(d)).by = Mine(d).by
             /\ Running(NewContainer(d)).by = d
  BY <1>2, <1>3, SameMaker, NewContainerType DEF NoContainer, NewContainer
<1>4. CASE Choose(d) \/ Recheck(d) \/ StopFirstApp(d) \/ StackApp(d) \/ Verify(d) \/ StopFirstVerify(d)
           \/ Probe(d)
  BY <1>4 DEF Choose, Recheck, StopFirstApp, StackApp, GetApp, Verify, StopFirstVerify, Probe,
     Untouched
<1> USE WorkKeepsUntouched, <1>3 DEF Deploying, BlueGreen, StopFirst, Compose
<1>5. CASE MakeTemp(d) \/ StartTemp(d)
  BY <1>5 DEF MakeTemp, StartTemp
<1>6. CASE DropTemp(d) \/ CleanTemp(d)
  BY <1>6 DEF DropTemp, CleanTemp, RemoveTemp
<1>7. CASE Cut(d) \/ StopFirstCut(d)
  BY <1>7 DEF Cut, StopFirstCut
<1>8. CASE MakeCanonical(d) \/ StopFirstCreate(d)
  BY <1>8 DEF MakeCanonical, StopFirstCreate
<1>9. CASE StartCanonical(d) \/ StopFirstStart(d)
  BY <1>9 DEF StartCanonical, StopFirstStart
<1>10. CASE StackUp(d)
  BY <1>10 DEF StackUp
<1>11. CASE SkipTag(d) \/ Advance(d) \/ FailBuilding(d) \/ FailDeploying(d) \/ Record(d)
            \/ Retire(d) \/ Settle(d)
  BY <1>11 DEF SkipTag, Advance, FailBuilding, FailDeploying, Record, Retire, SupersedeOthers,
     Settle, Write, SetStatus, CanTransition, transitions, TypeOK, Untouched
<1> QED
  BY <1>1, <1>4, <1>5, <1>6, <1>7, <1>8, <1>9, <1>10, <1>11 DEF Pipeline

\* Containers belong to attempts that have been deploying.
THEOREM UntouchedInvariant == Spec => []Untouched
<1>1. Init => Untouched
  BY BoundAssumption DEF Init, Untouched, NoContainer, Exists, Dep
<1>2. TypeOK /\ RowInv /\ Untouched /\ [Next]_vars => Untouched'
  <2>1. ASSUME Untouched, UNCHANGED vars PROVE Untouched'
    BY <2>1 DEF Untouched, vars, store, process, worker, docker, handler
  <2> QED
    BY <2>1, HandlersKeepUntouched, OthersKeepUntouched, PipelineKeepsUntouched DEF Next
<1> QED
  BY <1>1, <1>2, TypeCorrect, RowInvariant, PTL DEF Spec

\* An operator who cancelled an attempt never sees its container.
THEOREM CancelledNeverServed == Spec => []CancelledNeverServes
<1>1. RowInv /\ Untouched /\ TypeOK => CancelledNeverServes
  BY DEF RowInv, RowsInUse, Untouched, CancelledNeverServes, TypeOK
<1> QED
  BY <1>1, TypeCorrect, RowInvariant, UntouchedInvariant, PTL

-----------------------------------------------------------------------------
(* One running row.  The property is inductive by itself.                    *)

\* Whatever writes no "running" and takes nothing out of "retire" keeps it.
LEMMA OthersKeepRunning ==
  ASSUME OneRunningRow,
         ~crashed' /\ ~StoreFails => ~crashed,
         \A d \in Dep : status'[d] = "running" => status[d] = "running" /\ owner'[d] = owner[d],
         \A d \in Dep : ~crashed' /\ pc[d] = "retire" => pc'[d] = "retire"
  PROVE  OneRunningRow'
BY DEF OneRunningRow

\* At most one row of an app reads as running, once pipelines have retired the others.
THEOREM OneRunning == Spec => []OneRunningRow
<1>1. Init => OneRunningRow
  BY DEF Init, OneRunningRow
<1>2. TypeOK /\ RowInv /\ OneRunningRow /\ [Next]_vars => OneRunningRow'
  <2> SUFFICES ASSUME TypeOK, RowInv, OneRunningRow, [Next]_vars PROVE OneRunningRow'
    OBVIOUS
  <2> USE OthersKeepRunning DEF TypeOK, store, process, worker, docker, handler
  <2>1. CASE UNCHANGED vars
    BY <2>1 DEF vars
  <2>2. ASSUME NEW a \in apps, NEW img, Insert(a, img), UNCHANGED <<process, worker, docker, handler>>
        PROVE  OneRunningRow'
    BY <2>2 DEF Insert
  <2>3. CASE Handlers
    BY <2>2, <2>3 DEF Handlers, Enqueue, Rollback, AddVolume, DeleteVolume, CancelRead, CancelWrite,
       SetStatus, Interrupt, StopApp, RestartApp, DeleteContainer, DeleteRows
  <2>4. CASE Dispatcher
    BY <2>4 DEF Dispatcher, Pick, ClaimDeployment, Launch, RowInv, DispatcherHolds
  <2>5. CASE Process
    BY <2>5 DEF Process, Shutdown, Exit, Crash, Boot, RecoverActive
  <2>6. ASSUME NEW d \in Dep, Record(d) PROVE OneRunningRow'
    BY <2>6 DEF Record, Write, SetStatus, Goto, OnlyStatus, OnlyPipeline, OneRunningRow
  <2>7. ASSUME NEW d \in Dep, Retire(d) PROVE OneRunningRow'
    BY <2>7 DEF Retire, SupersedeOthers, Goto, OnlyStatus, OnlyPipeline, OneRunningRow
  <2>8. ASSUME NEW d \in Dep, Pipeline(d), ~Record(d), ~Retire(d) PROVE OneRunningRow'
    BY <2>8 DEF Pipeline, Load, Build, Choose, Recheck, StopFirstApp, StackApp, GetApp, MakeTemp,
       StartTemp, Probe, DropTemp, CleanTemp, RemoveTemp, Cut, MakeCanonical, StartCanonical,
       Verify, StopFirstCut, StopFirstCreate, StopFirstStart, StopFirstVerify, StackUp, SkipTag,
       Advance, FailBuilding, FailDeploying, Settle, Write, SetStatus, Goto, OnlyStatus,
       OnlyPipeline, OnlyDocker
  <2> QED
    BY <2>1, <2>3, <2>4, <2>5, <2>6, <2>7, <2>8 DEF Next
<1> QED
  BY <1>1, <1>2, TypeCorrect, RowInvariant, PTL DEF Spec

-----------------------------------------------------------------------------
(* The live row is the one whose container has the app's name.               *)

\* An attempt that is queued or at work has only attempts behind it that have not
\* begun, or never will.
SettlesInOrder ==
  \A d, e \in Dep :
    owner[d] = owner[e] /\ d < e /\ status[d] \in {"queued", "building", "deploying"}
    => status[e] \in {"queued", "cancelled", "absent"}

\* The places at which the app's container is the pipeline's own, or has been removed
\* by a delete of the app.
Replaced == {"stCanon", "drop", "verify", "sfSt", "sfVerify", "record"}
Placed ==
  \A d \in Dep : pc[d] \in Replaced =>
    \/ Mine(d).by = d
    \/ Mine(d).by = 0 /\ (deleting[owner[d]] = "rows" \/ owner[d] \notin apps)

\* The inductive invariant of LiveRowServes, given the rows'.
ServingInv == SettlesInOrder /\ Placed /\ LiveRowServes

\* A row that has been live or has a pipeline is an app's.
LEMMA OwnerKnown ==
  ASSUME TypeOK, RowInv, NEW d \in Dep, pc[d] \in Place \ {"idle"} \/ status[d] # "absent"
  PROVE  owner[d] \in App /\ Mine(d) \in Container
<1>1. next \in Nat /\ d \in Nat /\ apps \subseteq App
  BY BoundAssumption DEF TypeOK, Dep
<1>2. owner[d] \in App
  BY <1>1 DEF RowInv, RowsInUse
<1> QED
  BY <1>2, MineType

\* The HTTP handlers keep ServingInv.
LEMMA HandlersKeepServing ==
  ASSUME TypeOK, RowInv, ServingInv, Handlers
  PROVE  ServingInv'
<1> USE BoundAssumption, AppAssumption DEF TypeOK, Mine, store, process, worker, docker, handler
<1>1. ASSUME NEW a \in apps, NEW img, Insert(a, img), UNCHANGED <<process, worker, docker, handler>>
      PROVE  ServingInv'
  <2>1. /\ next \in Dep /\ a \in App /\ status[next] = "absent" /\ pc[next] = "idle"
        /\ \A e \in Dep : e >= next => owner[e] = NoApp
    BY <1>1 DEF Insert, RowInv, RowsInUse, Dep
  <2>a. /\ owner' = [owner EXCEPT ![next] = a] /\ status' = [status EXCEPT ![next] = "queued"]
        /\ apps' = apps /\ pc' = pc /\ canon' = canon /\ deleting' = deleting
        /\ crashed' = crashed
    BY <1>1 DEF Insert
  <2>2. SettlesInOrder'
    BY <2>1, <2>a DEF ServingInv, SettlesInOrder, Dep
  <2>3. Placed'
    <3> SUFFICES ASSUME NEW d \in Dep, pc[d] \in Replaced
                 PROVE  \/ canon[owner'[d]].by = d
                        \/ /\ canon[owner'[d]].by = 0
                           /\ deleting[owner'[d]] = "rows" \/ owner'[d] \notin apps
      BY <2>a DEF Placed
    <3>1. d # next
      BY <2>1 DEF Replaced
    <3>2. owner'[d] = owner[d]
      BY <2>1, <2>a, <3>1
    <3> QED
      BY <3>2 DEF ServingInv, Placed
  <2>4. LiveRowServes'
    <3> SUFFICES ASSUME NEW d \in Dep, status'[d] = "running", deleting[owner'[d]] = "no", ~crashed,
                        \A e \in Dep : owner'[e] = owner'[d] /\ e > d =>
                          status'[e] \in {"queued", "building", "cancelled"}
                 PROVE  canon[owner'[d]].by = d
      BY <2>a DEF LiveRowServes
    <3>1. d # next /\ status[d] = "running" /\ owner'[d] = owner[d] /\ owner[d] \in App
      BY <2>1, <2>a, OwnerKnown
    <3>2. \A e \in Dep : owner[e] = owner[d] /\ e > d =>
            status[e] \in {"queued", "building", "cancelled"}
      BY <2>1, <2>a, <3>1
    <3> QED
      BY <3>1, <3>2 DEF ServingInv, LiveRowServes
  <2> QED
    BY <2>2, <2>3, <2>4 DEF ServingInv
<1>2. ASSUME NEW a \in App, Enqueue(a) PROVE ServingInv'
  BY <1>1, <1>2 DEF Enqueue
<1>3. ASSUME NEW d \in Dep, Rollback(d) PROVE ServingInv'
  BY <1>1, <1>3 DEF Rollback
<1>4. ASSUME NEW a \in App, AddVolume(a) \/ DeleteVolume(a) PROVE ServingInv'
  BY <1>4 DEF AddVolume, DeleteVolume, ServingInv, SettlesInOrder, Placed, LiveRowServes
<1>5. ASSUME NEW a \in App, StopApp(a) \/ RestartApp(a) PROVE ServingInv'
  <2>1. /\ UNCHANGED <<store, process, worker, handler>>
        /\ canon' \in [App -> Container] /\ \A b \in App : canon'[b].by = canon[b].by
    <3>1. canon[a] \in Container
      OBVIOUS
    <3> QED
      BY <1>5, <3>1, SameMaker, ContainerOps DEF StopApp, RestartApp
  <2>2. \A d \in Dep : pc[d] \in Replaced \/ status[d] = "running" => owner[d] \in App
    BY OwnerKnown DEF Replaced, Place, Deploying, BlueGreen, StopFirst
  <2>3. Placed' /\ LiveRowServes'
    BY <2>1, <2>2 DEF ServingInv, Placed, LiveRowServes
  <2>4. SettlesInOrder'
    BY <2>1 DEF ServingInv, SettlesInOrder
  <2> QED
    BY <2>3, <2>4 DEF ServingInv
<1>6. ASSUME NEW a \in App, DeleteContainer(a) PROVE ServingInv'
  <2>1. /\ UNCHANGED <<store, process, worker>>
        /\ \A b \in App : b # a => canon'[b] = canon[b] /\ deleting'[b] = deleting[b]
        /\ canon'[a].by \in {0, canon[a].by} /\ deleting'[a] = "rows"
    BY <1>6, SameMaker DEF DeleteContainer, NoContainer
  <2>2. \A d \in Dep : pc[d] \in Replaced \/ status[d] = "running" => owner[d] \in App
    BY OwnerKnown DEF Replaced, Place, Deploying, BlueGreen, StopFirst
  <2>3. SettlesInOrder' /\ LiveRowServes'
    BY <2>1, <2>2 DEF ServingInv, LiveRowServes, SettlesInOrder
  <2>4. Placed'
    <3> SUFFICES ASSUME NEW d \in Dep, pc[d] \in Replaced
                 PROVE  \/ canon'[owner[d]].by = d
                        \/ /\ canon'[owner[d]].by = 0
                           /\ deleting'[owner[d]] = "rows" \/ owner[d] \notin apps
      BY <2>1 DEF Placed
    <3>1. /\ owner[d] \in App
          /\ \/ canon[owner[d]].by = d
             \/ /\ canon[owner[d]].by = 0
                /\ deleting[owner[d]] = "rows" \/ owner[d] \notin apps
      BY <2>2 DEF ServingInv, Placed
    <3> QED
      BY <2>1, <3>1
  <2> QED
    BY <2>3, <2>4 DEF ServingInv
<1>7. ASSUME NEW a \in App, DeleteRows(a) PROVE ServingInv'
  <2>1. SettlesInOrder' /\ LiveRowServes'
    BY <1>7 DEF DeleteRows, ServingInv, SettlesInOrder, LiveRowServes
  <2>2. Placed'
    BY <1>7 DEF DeleteRows, ServingInv, Placed
  <2> QED
    BY <2>1, <2>2 DEF ServingInv
<1>8. ASSUME NEW d \in Dep, CancelRead(d) \/ Interrupt(d) PROVE ServingInv'
  BY <1>8 DEF CancelRead, Interrupt, ServingInv, SettlesInOrder, Placed, LiveRowServes
<1>9. ASSUME NEW d \in Dep, CancelWrite(d) PROVE ServingInv'
  BY <1>9 DEF CancelWrite, SetStatus, CanTransition, transitions, ServingInv, SettlesInOrder,
       Placed, LiveRowServes
<1> QED
  BY <1>2, <1>3, <1>4, <1>5, <1>6, <1>7, <1>8, <1>9 DEF Handlers

\* The dispatcher and the process keep ServingInv.
LEMMA OthersKeepServing ==
  ASSUME TypeOK, RowInv, ServingInv, Dispatcher \/ Process
  PROVE  ServingInv'
<1> USE BoundAssumption DEF TypeOK, Mine, store, process, worker, docker, handler
<1>1. ASSUME NEW d \in Dep, Pick(d) PROVE ServingInv'
  BY <1>1 DEF Pick, ServingInv, SettlesInOrder, Placed, LiveRowServes
<1>2. CASE ClaimDeployment
  <2>1. cand \in Dep /\ \A e \in Dep : owner[e] = owner[cand] =>
          ~IsActive(status[e]) /\ (status[e] = "queued" => cand <= e)
    BY <1>2 DEF ClaimDeployment, RowInv, DispatcherHolds
  <2>2. /\ UNCHANGED <<apps, owner, crashed, pc, canon, deleting>>
        /\ \/ status' = status
           \/ status[cand] = "queued" /\ status' = [status EXCEPT ![cand] = "building"]
    BY <1>2 DEF ClaimDeployment
  <2>3. SettlesInOrder'
    <3> SUFFICES ASSUME NEW d \in Dep, NEW e \in Dep, owner[d] = owner[e], d < e,
                        status'[d] \in {"queued", "building", "deploying"}
                 PROVE  status'[e] \in {"queued", "cancelled", "absent"}
      BY <2>2 DEF SettlesInOrder
    <3>1. status[e] \in {"queued", "cancelled", "absent"}
      BY <2>1, <2>2 DEF ServingInv, SettlesInOrder
    <3>2. CASE e = cand /\ status' # status
      <4>1. d # cand /\ ~IsActive(status[d]) /\ ~(status[d] = "queued" /\ d < cand)
        BY <2>1, <3>2 DEF Dep
      <4>2. status'[d] = status[d]
        BY <2>2, <4>1
      <4> QED
        BY <3>2, <4>1, <4>2 DEF IsActive
    <3>3. CASE ~(e = cand /\ status' # status)
      <4>1. status'[e] = status[e]
        BY <2>2, <3>3
      <4> QED
        BY <3>1, <4>1
    <3> QED
      BY <3>2, <3>3
  <2>4. Placed'
    BY <2>2 DEF ServingInv, Placed
  <2>5. LiveRowServes'
    <3> SUFFICES ASSUME NEW d \in Dep, status'[d] = "running", deleting[owner[d]] = "no", ~crashed,
                        \A e \in Dep : owner[e] = owner[d] /\ e > d =>
                          status'[e] \in {"queued", "building", "cancelled"}
                 PROVE  canon[owner[d]].by = d
      BY <2>2 DEF LiveRowServes
    <3>1. status[d] = "running"
      BY <2>1, <2>2
    <3>2. \A e \in Dep : owner[e] = owner[d] /\ e > d =>
            status[e] \in {"queued", "building", "cancelled"}
      BY <2>1, <2>2
    <3> QED
      BY <3>1, <3>2 DEF ServingInv, LiveRowServes
  <2> QED
    BY <2>3, <2>4, <2>5 DEF ServingInv
<1>3. CASE Launch
  BY <1>3 DEF Launch, ServingInv, SettlesInOrder, Placed, Replaced, LiveRowServes
<1>4. CASE Shutdown \/ Exit
  BY <1>4 DEF Shutdown, Exit, ServingInv, SettlesInOrder, Placed, LiveRowServes
<1>5. CASE Crash
  BY <1>5 DEF Crash, ServingInv, SettlesInOrder, Placed, Replaced, LiveRowServes
<1>6. CASE Boot
  BY <1>6 DEF Boot, RecoverActive, IsActive, ServingInv, SettlesInOrder, Placed, LiveRowServes
<1> QED
  BY <1>1, <1>2, <1>3, <1>4, <1>5, <1>6 DEF Dispatcher, Process

\* A step of a deploying pipeline that writes no row: no row of its app is live but
\* for attempts that it, or a later one, has made history.
LEMMA WorkKeepsServing ==
  ASSUME TypeOK, RowInv, ServingInv, NEW d \in Dep, NEW to, pc[d] \in Deploying, Goto(d, to),
         UNCHANGED <<apps, owner, status, next, crashed, deleting>>,
         \/ /\ UNCHANGED canon
            /\ to \in Replaced => pc[d] \in Replaced
         \/ \E c : /\ SetMine(d, c)
                   /\ to \in Replaced => c.by = d \/ (pc[d] \in Replaced /\ c.by = Mine(d).by)
  PROVE  ServingInv'
<1> USE BoundAssumption DEF TypeOK, Mine, SetMine, Goto
<1>1. /\ owner[d] \in App
      /\ status[d] = "deploying" \/ owner[d] \notin apps
      /\ pc[d] # "idle"
  <2>1. pc[d] # "idle" /\ (status[d] = "deploying" \/ owner[d] \notin apps)
    BY DEF RowInv, PipelineHolds, Deploying, BlueGreen, StopFirst, Compose
  <2> QED
    BY <2>1, OwnerKnown
<1>o. \A b \in App : b # owner[d] => canon'[b] = canon[b]
  BY <1>1
<1>2. SettlesInOrder'
  BY DEF ServingInv, SettlesInOrder
<1>3. ASSUME NEW e \in Dep, pc'[e] \in Replaced
      PROVE  \/ canon'[owner[e]].by = e
             \/ /\ canon'[owner[e]].by = 0
                /\ deleting[owner[e]] = "rows" \/ owner[e] \notin apps
  <2>1. CASE e = d
    BY <1>1, <1>3, <2>1 DEF ServingInv, Placed
  <2>2. CASE e # d
    <3>1. pc[e] \in Replaced /\ MayMutate(e) /\ MayMutate(d)
      BY <1>3, <2>2 DEF MayMutate, Replaced, Deploying, BlueGreen, StopFirst
    <3>2. owner[e] # owner[d]
      BY <2>2, <3>1 DEF RowInv, OneMutatorPerApp
    <3>3. canon'[owner[e]] = canon[owner[e]]
      BY <1>o, <3>1, <3>2, OwnerKnown DEF Replaced, Place, Deploying, BlueGreen, StopFirst
    <3> QED
      BY <3>1, <3>3 DEF ServingInv, Placed
  <2> QED
    BY <2>1, <2>2
<1>4. Placed'
  BY <1>3 DEF Placed
<1>5. ASSUME NEW e \in Dep, status[e] = "running", deleting[owner[e]] = "no", ~crashed,
             \A f \in Dep : owner[f] = owner[e] /\ f > e =>
               status[f] \in {"queued", "building", "cancelled"}
      PROVE  canon'[owner[e]].by = e
  <2>1. owner[e] \in apps
    BY <1>5 DEF RowInv, RowsInUse
  <2>2. owner[e] # owner[d]
    <3> SUFFICES ASSUME owner[e] = owner[d] PROVE FALSE
      OBVIOUS
    <3>1. status[d] = "deploying" /\ e # d
      BY <1>1, <1>5, <2>1
    <3>2. ~(e < d)
      BY <1>5, <3>1
    <3>3. ~(d < e)
      BY <1>5, <3>1 DEF ServingInv, SettlesInOrder
    <3> QED
      BY <3>1, <3>2, <3>3 DEF Dep
  <2>3. canon'[owner[e]] = canon[owner[e]]
    BY <1>o, <2>1, <2>2
  <2> QED
    BY <1>5, <2>3 DEF ServingInv, LiveRowServes
<1>6. LiveRowServes'
  BY <1>5 DEF LiveRowServes
<1> QED
  BY <1>2, <1>4, <1>6 DEF ServingInv

\* A step of a pipeline elsewhere, that leaves the containers alone.
LEMMA RowStepKeepsServing ==
  ASSUME TypeOK, RowInv, ServingInv, NEW d \in Dep, NEW to, Goto(d, to),
         UNCHANGED <<apps, owner, next, crashed, deleting, canon>>,
         to \notin Replaced,
         \A e \in Dep :
           \/ status'[e] = status[e]
           \/ /\ status[e] \in {"building", "deploying"}
              /\ status'[e] \notin {"queued", "absent", "running"}
              /\ status'[e] \in {"building", "deploying"} => status[e] = "building"
              /\ status'[e] = "cancelled" => status[e] = "building"
           \/ status[e] = "running" /\ status'[e] = "superseded"
  PROVE  ServingInv'
<1> USE BoundAssumption DEF TypeOK, Mine, Goto
<1>1. SettlesInOrder'
  BY DEF ServingInv, SettlesInOrder
<1>2. Placed'
  BY DEF ServingInv, Placed
<1>3. LiveRowServes'
  <2> SUFFICES ASSUME NEW e \in Dep, status'[e] = "running", deleting[owner[e]] = "no", ~crashed,
                      \A f \in Dep : owner[f] = owner[e] /\ f > e =>
                        status'[f] \in {"queued", "building", "cancelled"}
               PROVE  canon[owner[e]].by = e
    BY DEF LiveRowServes
  <2>1. status[e] = "running"
    OBVIOUS
  <2>2. \A f \in Dep : owner[f] = owner[e] /\ f > e =>
          status[f] \in {"queued", "building", "cancelled"}
    OBVIOUS
  <2> QED
    BY <2>1, <2>2 DEF ServingInv, LiveRowServes
<1> QED
  BY <1>1, <1>2, <1>3 DEF ServingInv

\* A pipeline keeps ServingInv.
LEMMA PipelineKeepsServing ==
  ASSUME TypeOK, RowInv, ServingInv, NEW d \in Dep, Pipeline(d)
  PROVE  ServingInv'
<1> USE DEF OnlyPipeline, OnlyStatus, OnlyDocker, store, process, worker, docker, handler
<1>1. CASE Load(d) \/ Build(d) \/ Settle(d)
  BY <1>1, RowStepKeepsServing DEF Load, Build, Settle, Replaced
<1>2. CASE SkipTag(d) \/ FailBuilding(d)
  BY <1>2, RowStepKeepsServing
     DEF SkipTag, FailBuilding, Write, SetStatus, CanTransition, transitions, Replaced, TypeOK
<1>3. CASE Advance(d)
  BY <1>3, RowStepKeepsServing
     DEF Advance, AfterAdvance, SetStatus, CanTransition, transitions, Replaced, TypeOK
<1>4. CASE FailDeploying(d) \/ Retire(d)
  BY <1>4, RowStepKeepsServing
     DEF FailDeploying, Retire, SupersedeOthers, Write, SetStatus, CanTransition, transitions,
         Replaced, TypeOK
<1>5. CASE Record(d)
  <2> USE BoundAssumption DEF TypeOK, Mine, Goto, ServingInv
  <2>1. /\ pc[d] = "record" /\ pc' = [pc EXCEPT ![d] = "retire"]
        /\ UNCHANGED <<apps, owner, next, crashed, deleting, canon>>
        /\ \/ status' = status
           \/ status[d] = "deploying" /\ status' = [status EXCEPT ![d] = "running"]
    BY <1>5 DEF Record, Write, SetStatus
  <2>2. owner[d] \in App
    BY <2>1, OwnerKnown DEF Place, Deploying
  <2>3. SettlesInOrder' /\ Placed'
    BY <2>1 DEF SettlesInOrder, Placed, Replaced
  <2>4. status[d] = "deploying" /\ deleting[owner[d]] = "no" => canon[owner[d]].by = d
    BY <2>1 DEF Placed, Replaced, RowInv, RowsInUse
  <2>5. \A e \in Dep : e # d /\ status[e] = "running" /\ status[d] = "deploying"
                       /\ owner[e] = owner[d] => e < d
    <3> SUFFICES ASSUME NEW e \in Dep, e # d, status[e] = "running", status[d] = "deploying",
                        owner[e] = owner[d], ~(e < d)
                 PROVE  FALSE
      OBVIOUS
    <3>1. d < e
      BY DEF Dep
    <3> QED
      BY <3>1 DEF SettlesInOrder
  <2>6. LiveRowServes'
    BY <2>1, <2>4, <2>5 DEF LiveRowServes
  <2> QED
    BY <2>3, <2>6
<1> USE WorkKeepsServing DEF Replaced, Deploying, BlueGreen, StopFirst, Compose
<1>6. ASSUME pc[d] \in Deploying
      PROVE  /\ owner[d] \in App
             /\ NewContainer(d).by = d /\ Running(NewContainer(d)).by = d
             /\ Running(Mine(d)).by = Mine(d).by
  <2>1. owner[d] \in App /\ Mine(d) \in Container
    BY <1>6, MineType, BoundAssumption DEF TypeOK, RowInv, RowsInUse, Dep
  <2> QED
    BY <2>1, SameMaker, NewContainerType DEF NewContainer
<1>7. CASE Choose(d) \/ Recheck(d) \/ StopFirstApp(d) \/ StackApp(d)
  BY <1>7 DEF Choose, Recheck, StopFirstApp, StackApp, GetApp
<1>8. CASE MakeTemp(d) \/ StartTemp(d) \/ Probe(d) \/ DropTemp(d) \/ CleanTemp(d)
  BY <1>8 DEF MakeTemp, StartTemp, Probe, DropTemp, CleanTemp, RemoveTemp
<1>9. CASE Verify(d) \/ StopFirstVerify(d)
  BY <1>9 DEF Verify, StopFirstVerify
<1>10. CASE Cut(d) \/ StopFirstCut(d)
  BY <1>10 DEF Cut, StopFirstCut
<1>11. CASE MakeCanonical(d) \/ StopFirstCreate(d)
  BY <1>6, <1>11 DEF MakeCanonical, StopFirstCreate
<1>12. CASE StartCanonical(d) \/ StopFirstStart(d)
  BY <1>6, <1>12 DEF StartCanonical, StopFirstStart
<1>13. CASE StackUp(d)
  BY <1>6, <1>13 DEF StackUp
<1> QED
  BY <1>1, <1>2, <1>3, <1>4, <1>5, <1>7, <1>8, <1>9, <1>10, <1>11, <1>12, <1>13 DEF Pipeline

\* The order in which attempts settle, and whose container an app has meanwhile.
THEOREM ServingInvariant == Spec => []ServingInv
<1>1. Init => ServingInv
  BY DEF Init, ServingInv, SettlesInOrder, Placed, Replaced, LiveRowServes
<1>2. TypeOK /\ RowInv /\ ServingInv /\ [Next]_vars => ServingInv'
  <2>1. ASSUME ServingInv, UNCHANGED vars PROVE ServingInv'
    BY <2>1 DEF ServingInv, SettlesInOrder, Placed, LiveRowServes, Mine, vars, store, process,
         worker, docker, handler
  <2> QED
    BY <2>1, HandlersKeepServing, OthersKeepServing, PipelineKeepsServing DEF Next
<1> QED
  BY <1>1, <1>2, TypeCorrect, RowInvariant, PTL DEF Spec

\* While no later attempt has reached the containers and no delete has begun, the row
\* the console calls live is the one whose container has the app's name, whatever
\* fails, is cancelled or is stopped (pipeline.go:140-170).
THEOREM LiveServes == Spec => []LiveRowServes
<1>1. ServingInv => LiveRowServes
  BY DEF ServingInv
<1> QED
  BY <1>1, ServingInvariant, PTL

-----------------------------------------------------------------------------
(* A row is retired by the attempt that replaced it.                         *)

\* With one slot there is at most one pipeline, and none while the dispatcher holds a
\* row.
SlotInv ==
  MaxConcurrent = 1 =>
    /\ at # "idle" => Busy = {}
    /\ \A d, e \in Busy : d = e

\* Whose container an app has when the attempt that recorded itself comes to retire the
\* others: its own, none, or that of an attempt which has overtaken it.
Retiring ==
  \A d \in Dep : pc[d] = "retire" =>
    \/ Mine(d).by \in {0, d}
    \/ owner[d] \notin apps
    \/ /\ MaxConcurrent > 1 /\ Mine(d).by > d
       /\ status[d] \in {"running", "superseded"}

\* The inductive invariant of SupersededIsGone, given the rows' and ServingInv.
RetireInv == SlotInv /\ Retiring /\ SupersededIsGone

\* What a pipeline's step never touches.
LEMMA PipelineFrame ==
  ASSUME TypeOK, NEW d \in Dep, Pipeline(d)
  PROVE  /\ pc[d] # "idle" /\ \A e \in Dep : e # d => pc'[e] = pc[e]
         /\ UNCHANGED <<apps, owner, next, process, at, cand, handler>>
<1> USE DEF OnlyPipeline, OnlyStatus, OnlyDocker, store, process, worker, docker, handler,
        Goto, TypeOK
<1>1. CASE Load(d) \/ SkipTag(d) \/ Build(d) \/ Advance(d) \/ FailBuilding(d) \/ Settle(d)
  BY <1>1 DEF Load, SkipTag, Build, Advance, FailBuilding, Settle
<1>2. CASE FailDeploying(d) \/ Choose(d) \/ Recheck(d) \/ StopFirstApp(d) \/ StackApp(d)
  BY <1>2 DEF FailDeploying, Choose, Recheck, StopFirstApp, StackApp, GetApp
<1>3. CASE MakeTemp(d) \/ StartTemp(d) \/ Probe(d) \/ DropTemp(d) \/ CleanTemp(d)
  BY <1>3 DEF MakeTemp, StartTemp, Probe, DropTemp, CleanTemp, RemoveTemp
<1>4. CASE Cut(d) \/ MakeCanonical(d) \/ StartCanonical(d) \/ Verify(d)
  BY <1>4 DEF Cut, MakeCanonical, StartCanonical, Verify
<1>5. CASE StopFirstCut(d) \/ StopFirstCreate(d) \/ StopFirstStart(d) \/ StopFirstVerify(d)
  BY <1>5 DEF StopFirstCut, StopFirstCreate, StopFirstStart, StopFirstVerify
<1>6. CASE StackUp(d) \/ Record(d) \/ Retire(d)
  BY <1>6 DEF StackUp, Record, Retire
<1> QED
  BY <1>1, <1>2, <1>3, <1>4, <1>5, <1>6 DEF Pipeline

\* The steps of a pipeline that leave the containers of the apps alone.
LEMMA RowSteps ==
  ASSUME NEW d \in Dep,
         \/ Load(d) \/ SkipTag(d) \/ Build(d) \/ Advance(d) \/ FailBuilding(d) \/ Settle(d)
         \/ FailDeploying(d) \/ Record(d) \/ Retire(d)
  PROVE  UNCHANGED canon
BY DEF OnlyStatus, OnlyDocker, store, docker, Load, SkipTag, Build, Advance, FailBuilding, Settle,
       FailDeploying, Record, Retire

\* The others are steps of a cutover: they write no row, and the app's container is
\* afterwards the one there was, the pipeline's, or none.
LEMMA CutoverSteps ==
  ASSUME TypeOK, RowInv, NEW d \in Dep, Pipeline(d),
         ~ \/ Load(d) \/ SkipTag(d) \/ Build(d) \/ Advance(d) \/ FailBuilding(d) \/ Settle(d)
           \/ FailDeploying(d) \/ Record(d) \/ Retire(d)
  PROVE  /\ pc[d] \in Deploying /\ pc'[d] \in Deploying /\ UNCHANGED status
         /\ \A b \in App : \/ canon'[b].by = canon[b].by
                           \/ b = owner[d] /\ canon'[b].by \in {0, d}
<1> USE DEF OnlyStatus, OnlyDocker, store, docker, Deploying, BlueGreen, StopFirst, Compose, Goto
<1>0. pc \in [Dep -> Place]
  BY DEF TypeOK
<1>c. \A c : SetMine(d, c) => \A b \in App :
        canon'[b] = canon[b] \/ (b = owner[d] /\ canon'[b] = c)
  BY DEF TypeOK, SetMine
<1>a. ASSUME pc[d] \in Deploying
      PROVE  /\ NoContainer.by = 0 /\ NewContainer(d).by = d /\ Running(NewContainer(d)).by = d
             /\ Running(Mine(d)).by = Mine(d).by /\ Stopped(Mine(d)).by = Mine(d).by
  <2>1. Mine(d) \in Container
    BY <1>a, OwnerKnown DEF Place
  <2> QED
    BY <2>1, SameMaker, NewContainerType DEF NewContainer, NoContainer
<1>1. CASE Choose(d) \/ Recheck(d) \/ StopFirstApp(d) \/ StackApp(d)
  BY <1>0, <1>1 DEF Choose, Recheck, StopFirstApp, StackApp, GetApp
<1>2. CASE MakeTemp(d) \/ StartTemp(d) \/ Probe(d) \/ DropTemp(d) \/ CleanTemp(d)
  BY <1>0, <1>2 DEF MakeTemp, StartTemp, Probe, DropTemp, CleanTemp, RemoveTemp
<1>3. CASE Verify(d) \/ StopFirstVerify(d)
  BY <1>0, <1>3 DEF Verify, StopFirstVerify
<1>4. CASE Cut(d) \/ StopFirstCut(d)
  <2>1. /\ pc[d] \in Deploying /\ pc'[d] \in Deploying /\ UNCHANGED status
        /\ canon' = canon \/ SetMine(d, NoContainer) \/ SetMine(d, Stopped(Mine(d)))
    BY <1>0, <1>4 DEF Cut, StopFirstCut
  <2> QED
    BY <1>c, <1>a, <2>1 DEF Mine
<1>5. CASE MakeCanonical(d) \/ StopFirstCreate(d)
  <2>1. /\ pc[d] \in Deploying /\ pc'[d] \in Deploying /\ UNCHANGED status
        /\ canon' = canon \/ SetMine(d, NewContainer(d))
    BY <1>0, <1>5 DEF MakeCanonical, StopFirstCreate
  <2> QED
    BY <1>c, <1>a, <2>1
<1>6. CASE StartCanonical(d) \/ StopFirstStart(d)
  <2>1. /\ pc[d] \in Deploying /\ pc'[d] \in Deploying /\ UNCHANGED status
        /\ canon' = canon \/ SetMine(d, Running(Mine(d)))
    BY <1>0, <1>6 DEF StartCanonical, StopFirstStart
  <2> QED
    BY <1>c, <1>a, <2>1 DEF Mine
<1>7. CASE StackUp(d)
  <2>1. /\ pc[d] \in Deploying /\ pc'[d] \in Deploying /\ UNCHANGED status
        /\ canon' = canon \/ SetMine(d, NewContainer(d)) \/ SetMine(d, Running(NewContainer(d)))
    BY <1>0, <1>7 DEF StackUp
  <2> QED
    BY <1>c, <1>a, <2>1
<1> QED
  BY <1>1, <1>2, <1>3, <1>4, <1>5, <1>6, <1>7 DEF Pipeline

\* The slots: what is busy is a finite set, of at most one element when there is one slot.
THEOREM SlotInvariant == Spec => []SlotInv
<1> USE DEF SlotInv, Busy
<1>1. Init => SlotInv
  BY DEF Init
<1>2. TypeOK /\ RowInv /\ SlotInv /\ [Next]_vars => SlotInv'
  <2> SUFFICES ASSUME TypeOK, RowInv, SlotInv, [Next]_vars, MaxConcurrent = 1
               PROVE  /\ at' # "idle" => Busy' = {}
                      /\ \A d, e \in Busy' : d = e
    OBVIOUS
  <2> USE BoundAssumption DEF TypeOK, store, process, worker, docker, handler
  <2>1. CASE UNCHANGED vars \/ Handlers
    BY <2>1 DEF vars, Handlers, Enqueue, Rollback, Insert, AddVolume, DeleteVolume, StopApp,
         RestartApp, DeleteContainer, DeleteRows, CancelRead, CancelWrite, Interrupt
  <2>2. ASSUME NEW d \in Dep, Pick(d) PROVE pc' = pc /\ Busy = {}
    <3>1. IsFiniteSet(Busy)
      BY FS_Interval, FS_Subset DEF Dep
    <3>2. Cardinality(Busy) = 0
      BY <2>2, <3>1, FS_CardinalityType DEF Pick
    <3>3. Busy = {}
      BY <3>1, <3>2, FS_EmptySet
    <3> QED
      BY <2>2, <3>3 DEF Pick
  <2>3. CASE ClaimDeployment \/ Launch
    BY <2>3 DEF ClaimDeployment, Launch
  <2>4. ASSUME NEW d \in Dep, Pipeline(d) PROVE at' = at /\ Busy' \subseteq Busy
    BY <2>4, PipelineFrame
  <2>5. CASE Process
    BY <2>5 DEF Process, Shutdown, Exit, Crash, Boot
  <2> QED
    BY <2>1, <2>2, <2>3, <2>4, <2>5 DEF Next, Dispatcher
<1> QED
  BY <1>1, <1>2, TypeCorrect, RowInvariant, PTL DEF Spec

\* A step that changes whose containers there are by removing some at most, and retires
\* no row, keeps what has been retired.
LEMMA RestKeepsRetired ==
  ASSUME TypeOK, RowInv, Retiring, SupersededIsGone, RowInv', apps' \subseteq apps,
         \A e \in Dep : /\ pc'[e] = "retire" => pc[e] = "retire"
                        /\ owner[e] \in App => owner'[e] = owner[e]
                        /\ status'[e] = "superseded" => status[e] = "superseded"
                        /\ status[e] \in {"running", "superseded"} =>
                             status'[e] = status[e] \/ owner[e] \notin apps',
         \A b \in App : canon'[b].by \in {0, canon[b].by}
  PROVE  Retiring' /\ SupersededIsGone'
<1> USE BoundAssumption DEF TypeOK, Place
<1>1. ASSUME NEW d \in Dep, pc'[d] = "retire"
      PROVE  \/ canon'[owner'[d]].by \in {0, d}
             \/ owner'[d] \notin apps'
             \/ /\ MaxConcurrent > 1 /\ canon'[owner'[d]].by > d
                /\ status'[d] \in {"running", "superseded"}
  <2>1. pc[d] = "retire" /\ owner[d] \in App /\ owner'[d] = owner[d]
    BY <1>1, OwnerKnown
  <2>2. \/ canon[owner[d]].by \in {0, d}
        \/ owner[d] \notin apps
        \/ /\ MaxConcurrent > 1 /\ canon[owner[d]].by > d
           /\ status[d] \in {"running", "superseded"}
    BY <2>1 DEF Retiring, Mine
  <2> QED
    BY <2>1, <2>2
<1>2. ASSUME NEW d \in Dep, status'[d] = "superseded"
      PROVE  canon'[owner'[d]].by # d \/ Overtaken(d)'
  <2>1. /\ status[d] = "superseded" /\ owner[d] \in App /\ owner'[d] = owner[d]
        /\ owner'[d] \in apps'
    BY <1>2, OwnerKnown DEF RowInv, RowsInUse
  <2>2. CASE canon[owner[d]].by # d
    <3>1. d # 0
      BY DEF Dep
    <3> QED
      BY <2>1, <2>2, <3>1
  <2>3. CASE Overtaken(d)
    <3>1. PICK e \in Dep : owner[e] = owner[d] /\ e < d /\ status[e] \in {"running", "superseded"}
      BY <2>3 DEF Overtaken
    <3>2. owner'[e] = owner'[d] /\ status'[e] \in {"running", "superseded"}
      BY <2>1, <3>1
    <3> QED
      BY <2>3, <3>1, <3>2 DEF Overtaken
  <2> QED
    BY <2>1, <2>2, <2>3 DEF SupersededIsGone
<1> QED
  BY <1>1, <1>2 DEF Retiring, SupersededIsGone, Mine

\* The handlers, the dispatcher and the process retire nothing.
LEMMA OthersKeepRetired ==
  ASSUME TypeOK, RowInv, Retiring, SupersededIsGone, RowInv', Handlers \/ Dispatcher \/ Process
  PROVE  Retiring' /\ SupersededIsGone'
<1> USE RestKeepsRetired, BoundAssumption DEF TypeOK, store, process, worker, docker, handler
<1>1. ASSUME NEW a \in App, NEW img, Insert(a, img), UNCHANGED <<process, worker, docker, handler>>
      PROVE  Retiring' /\ SupersededIsGone'
  <2>1. next \in Dep /\ owner[next] \notin App
    BY <1>1, AppAssumption DEF Insert, RowInv, RowsInUse
  <2>2. /\ owner' = [owner EXCEPT ![next] = a] /\ status' = [status EXCEPT ![next] = "queued"]
        /\ apps' = apps /\ pc' = pc /\ canon' = canon
    BY <1>1 DEF Insert
  <2>3. status[next] = "absent"
    BY <2>1 DEF RowInv, RowsInUse
  <2> QED
    BY <2>1, <2>2, <2>3
<1>2. ASSUME NEW a \in App, Enqueue(a) PROVE Retiring' /\ SupersededIsGone'
  BY <1>1, <1>2 DEF Enqueue
<1>3. ASSUME NEW d \in Dep, Rollback(d) PROVE Retiring' /\ SupersededIsGone'
  BY <1>1, <1>3 DEF Rollback
<1>4. ASSUME NEW a \in App, AddVolume(a) \/ DeleteVolume(a) PROVE Retiring' /\ SupersededIsGone'
  BY <1>4 DEF AddVolume, DeleteVolume
<1>5. ASSUME NEW a \in App, StopApp(a) \/ RestartApp(a) PROVE Retiring' /\ SupersededIsGone'
  <2>1. Stopped(canon[a]).by = canon[a].by /\ Running(canon[a]).by = canon[a].by
    BY SameMaker
  <2> QED
    BY <1>5, <2>1 DEF StopApp, RestartApp
<1>6. ASSUME NEW a \in App, DeleteContainer(a) PROVE Retiring' /\ SupersededIsGone'
  <2>1. Stopped(canon[a]).by = canon[a].by /\ NoContainer.by = 0
    BY SameMaker DEF NoContainer
  <2> QED
    BY <1>6, <2>1 DEF DeleteContainer
<1>7. ASSUME NEW a \in App, DeleteRows(a) PROVE Retiring' /\ SupersededIsGone'
  BY <1>7 DEF DeleteRows
<1>8. ASSUME NEW d \in Dep, CancelRead(d) \/ Interrupt(d) PROVE Retiring' /\ SupersededIsGone'
  BY <1>8 DEF CancelRead, Interrupt
<1>9. ASSUME NEW d \in Dep, CancelWrite(d) PROVE Retiring' /\ SupersededIsGone'
  BY <1>9 DEF CancelWrite, SetStatus, CanTransition, transitions
<1>10. ASSUME NEW d \in Dep, Pick(d) PROVE Retiring' /\ SupersededIsGone'
  BY <1>10 DEF Pick
<1>11. CASE ClaimDeployment \/ Launch
  BY <1>11 DEF ClaimDeployment, Launch
<1>12. CASE Process
  BY <1>12 DEF Process, Shutdown, Exit, Crash, Boot, RecoverActive, IsActive
<1> QED
  BY <1>2, <1>3, <1>4, <1>5, <1>6, <1>7, <1>8, <1>9, <1>10, <1>11, <1>12 DEF Handlers, Dispatcher

\* A pipeline's cutover meets a retiring attempt of its app only with a second slot, and
\* then comes after it.
LEMMA CutoverKeepsRetired ==
  ASSUME TypeOK, RowInv, SettlesInOrder, SlotInv, Retiring, SupersededIsGone,
         NEW d \in Dep, Pipeline(d), pc[d] \in Deploying, pc'[d] \in Deploying, UNCHANGED status,
         \A b \in App : \/ canon'[b].by = canon[b].by
                        \/ b = owner[d] /\ canon'[b].by \in {0, d}
  PROVE  Retiring' /\ SupersededIsGone'
<1> USE BoundAssumption DEF TypeOK, Place
<1>1. /\ UNCHANGED <<apps, owner>> /\ \A e \in Dep : e # d => pc'[e] = pc[e]
      /\ owner[d] \in App
  BY PipelineFrame, OwnerKnown
<1>2. status[d] = "deploying" \/ owner[d] \notin apps
  BY DEF RowInv, PipelineHolds
<1>3. ASSUME NEW e \in Dep, pc'[e] = "retire"
      PROVE  \/ canon'[owner[e]].by \in {0, e}
             \/ owner[e] \notin apps
             \/ /\ MaxConcurrent > 1 /\ canon'[owner[e]].by > e
                /\ status[e] \in {"running", "superseded"}
  <2>1. e # d /\ pc[e] = "retire" /\ owner[e] \in App
    BY <1>1, <1>3, OwnerKnown DEF Deploying, BlueGreen, StopFirst, Compose
  <2>2. CASE canon'[owner[e]].by = canon[owner[e]].by
    BY <2>1, <2>2 DEF Retiring, Mine
  <2>3. CASE owner[e] = owner[d] /\ canon'[owner[e]].by = d /\ owner[d] \in apps
    <3>1. status[d] = "deploying" /\ status[e] \in {"deploying", "running", "superseded", "absent"}
      BY <1>2, <2>1, <2>3 DEF RowInv, PipelineHolds
    <3>2. status[e] # "absent"
      BY <2>3 DEF RowInv, RowsInUse
    <3>3. status[e] # "deploying"
      BY <2>1, <2>3, <3>1, OneActiveMeans DEF RowInv, IsActive
    <3>4. ~(d < e)
      BY <2>3, <3>1, <3>2, <3>3 DEF SettlesInOrder
    <3>5. d > e
      BY <2>1, <3>4 DEF Dep
    <3>6. MaxConcurrent # 1
      BY <2>1 DEF SlotInv, Busy, Deploying, BlueGreen, StopFirst, Compose
    <3> QED
      BY <2>3, <3>1, <3>2, <3>3, <3>5, <3>6
  <2> QED
    BY <1>1, <2>1, <2>2, <2>3
<1>4. ASSUME NEW e \in Dep, status[e] = "superseded"
      PROVE  canon'[owner[e]].by # e \/ Overtaken(e)
  <2>1. e # d /\ e # 0 /\ owner[e] \in App
    BY <1>2, <1>4, OwnerKnown DEF RowInv, RowsInUse, Dep
  <2> QED
    BY <1>4, <2>1 DEF SupersededIsGone
<1>5. Retiring'
  BY <1>1, <1>3 DEF Retiring, Mine
<1>6. SupersededIsGone'
  BY <1>1, <1>4 DEF SupersededIsGone, Overtaken
<1> QED
  BY <1>5, <1>6

\* A pipeline retires rows whose containers have gone, or is slower than one that has
\* shipped after it.
LEMMA PipelineKeepsRetired ==
  ASSUME TypeOK, RowInv, ServingInv, SlotInv, Retiring, SupersededIsGone, RowInv',
         NEW d \in Dep, Pipeline(d)
  PROVE  Retiring' /\ SupersededIsGone'
<1> USE BoundAssumption DEF TypeOK
<1>1. CASE Load(d) \/ SkipTag(d) \/ Build(d) \/ Advance(d) \/ FailBuilding(d) \/ Settle(d)
           \/ FailDeploying(d)
  <2>1. UNCHANGED <<apps, owner, canon>>
    BY <1>1, RowSteps, PipelineFrame
  <2>2. \A e \in Dep : pc'[e] = "retire" => pc[e] = "retire"
    BY <1>1 DEF Load, SkipTag, Build, Advance, AfterAdvance, FailBuilding, Settle, FailDeploying, Goto
  <2>3. \A e \in Dep : status'[e] = status[e] \/ (e = d /\ status[d] \in {"building", "deploying"}
                                                  /\ status'[d] # "superseded")
    BY <1>1 DEF Load, SkipTag, Build, Advance, FailBuilding, Settle, FailDeploying, Write,
         SetStatus, OnlyDocker, OnlyPipeline, store
  <2> QED
    BY <2>1, <2>2, <2>3, RestKeepsRetired
<1>2. CASE Record(d)
  <2>1. /\ UNCHANGED <<apps, owner, canon>> /\ pc[d] = "record"
        /\ \A e \in Dep : /\ e # d => pc'[e] = pc[e]
                          /\ status'[e] = status[e] \/ (e = d /\ status[d] = "deploying"
                                                        /\ status'[d] = "running")
    BY <1>2, RowSteps, PipelineFrame DEF Record, Write, SetStatus
  <2>2. canon[owner[d]].by \in {0, d}
    BY <2>1 DEF ServingInv, Placed, Replaced, Mine
  <2>3. Retiring'
    BY <2>1, <2>2 DEF Retiring, Mine
  <2>4. SupersededIsGone'
    BY <2>1 DEF SupersededIsGone, Overtaken
  <2> QED
    BY <2>3, <2>4
<1>3. CASE Retire(d)
  <2>1. /\ UNCHANGED <<apps, owner, canon>> /\ pc[d] = "retire"
        /\ pc' = [pc EXCEPT ![d] = "settle"]
    BY <1>3, RowSteps, PipelineFrame DEF Retire, Goto
  <2>2. \A e \in Dep : \/ status'[e] = status[e]
                       \/ /\ owner[e] = owner[d] /\ e # d /\ status[e] = "running"
                          /\ status'[e] = "superseded"
    BY <1>3 DEF Retire, SupersedeOthers
  <2>3. Retiring'
    BY <2>1, <2>2 DEF Retiring, Mine
  <2>4. ASSUME NEW e \in Dep, Overtaken(e) PROVE Overtaken(e)'
    BY <2>1, <2>2, <2>4 DEF Overtaken
  <2>5. ASSUME NEW e \in Dep, owner[e] = owner[d], e # d, status[e] = "running",
               canon[owner[e]].by = e
        PROVE  Overtaken(e)'
    <3>1. owner[d] \in apps /\ Mine(d).by = e /\ e # 0
      BY <2>5 DEF RowInv, RowsInUse, Mine, Dep
    <3>2. MaxConcurrent > 1 /\ d < e /\ status[d] \in {"running", "superseded"}
      BY <2>1, <2>5, <3>1 DEF Retiring
    <3> QED
      BY <2>1, <2>2, <2>5, <3>2 DEF Overtaken
  <2>6. SupersededIsGone'
    BY <2>1, <2>2, <2>4, <2>5 DEF SupersededIsGone
  <2> QED
    BY <2>3, <2>6
<1>4. CASE ~ \/ Load(d) \/ SkipTag(d) \/ Build(d) \/ Advance(d) \/ FailBuilding(d) \/ Settle(d)
             \/ FailDeploying(d) \/ Record(d) \/ Retire(d)
  BY <1>4, CutoverSteps, CutoverKeepsRetired DEF ServingInv
<1> QED
  BY <1>1, <1>2, <1>3, <1>4

\* A row is marked as history only when its container is gone (statemachine.go:18-21),
\* but for the one an earlier attempt of the app retires with two slots.
THEOREM RetiredIsGone == Spec => []SupersededIsGone
<1>1. Init => Retiring /\ SupersededIsGone
  BY DEF Init, Retiring, SupersededIsGone
<1>2. /\ TypeOK /\ RowInv /\ RowInv' /\ ServingInv /\ SlotInv
      /\ Retiring /\ SupersededIsGone /\ [Next]_vars
      => Retiring' /\ SupersededIsGone'
  <2>1. ASSUME Retiring, SupersededIsGone, UNCHANGED vars PROVE Retiring' /\ SupersededIsGone'
    BY <2>1 DEF Retiring, SupersededIsGone, Overtaken, Mine, vars, store, process, worker,
         docker, handler
  <2> QED
    BY <2>1, OthersKeepRetired, PipelineKeepsRetired DEF Next
<1> QED
  BY <1>1, <1>2, TypeCorrect, RowInvariant, ServingInvariant, SlotInvariant, PTL DEF Spec

-----------------------------------------------------------------------------
(* Blue-green leaves no gap, and no stray container.                         *)

\* Which app takes which road: only one with a volume is stopped first, only a stack is
\* recreated in place.
Strategies ==
  /\ vols \subseteq Volumed
  /\ \A d \in Dep : /\ pc[d] \in StopFirst => owner[d] \in Volumed
                    /\ pc[d] \in Compose => owner[d] \in Stack

\* CutoverCompletes, said already of the attempt that is about to record itself.
Covered ==
  ~crashed /\ ~DaemonFails /\ ~StoreFails =>
    \A d \in Dep :
      /\ status[d] = "running" \/ (status[d] = "deploying" /\ pc[d] = "record")
      /\ owner[d] \notin Volumed \cup Stack
      /\ deleting[owner[d]] = "no"
      /\ \A e \in Dep : owner[e] = owner[d] => pc[e] # "mkCanon"
      => Exists(canon[owner[d]])

\* The places at which a running temporary container is one that will be removed.
Probed == {"probe", "recheck", "cut", "mkCanon", "stCanon", "drop", "clean"}
TempInv ==
  /\ server # "up" \/ crashed => restarts > 0
  /\ restarts = 0 /\ ~DaemonFails =>
       \A d \in Dep : temp[d].state = "running" => pc[d] \in Probed

\* Each app keeps to its road.
THEOREM StrategyInvariant == Spec => []Strategies
<1> USE DEF Strategies, StopFirst, Compose
<1>1. Init => Strategies
  BY DEF Init
<1>2. TypeOK /\ RowInv /\ Strategies /\ [Next]_vars => Strategies'
  <2> SUFFICES ASSUME TypeOK, RowInv, Strategies, [Next]_vars PROVE Strategies'
    OBVIOUS
  <2> USE BoundAssumption DEF TypeOK, store, process, worker, docker, handler
  <2>1. ASSUME NEW a \in App, NEW img, Insert(a, img), UNCHANGED <<process, worker, docker, handler>>
        PROVE  Strategies'
    <3>1. pc[next] = "idle" /\ next \in Dep
      BY <2>1 DEF Insert, RowInv, RowsInUse
    <3>2. owner' = [owner EXCEPT ![next] = a] /\ pc' = pc /\ vols' = vols
      BY <2>1 DEF Insert
    <3> QED
      BY <3>1, <3>2
  <2>2. CASE Handlers
    <3>1. ASSUME NEW a \in App, Enqueue(a) PROVE Strategies'
      BY <2>1, <3>1 DEF Enqueue
    <3>2. ASSUME NEW d \in Dep, Rollback(d) PROVE Strategies'
      BY <2>1, <3>2 DEF Rollback
    <3>3. ASSUME NEW a \in App, \/ AddVolume(a) \/ DeleteVolume(a) \/ StopApp(a) \/ RestartApp(a)
                                \/ DeleteContainer(a) \/ DeleteRows(a)
          PROVE  Strategies'
      BY <3>3 DEF AddVolume, DeleteVolume, StopApp, RestartApp, DeleteContainer, DeleteRows
    <3>4. ASSUME NEW d \in Dep, CancelRead(d) \/ CancelWrite(d) \/ Interrupt(d)
          PROVE  Strategies'
      BY <3>4 DEF CancelRead, CancelWrite, Interrupt
    <3> QED
      BY <2>2, <3>1, <3>2, <3>3, <3>4 DEF Handlers
  <2>3. CASE Dispatcher \/ Process
    BY <2>3 DEF Dispatcher, Pick, ClaimDeployment, Launch, Process, Shutdown, Exit, Crash, Boot
  <2>4. ASSUME NEW d \in Dep, Pipeline(d) PROVE Strategies'
    <3>1. /\ UNCHANGED owner /\ \A e \in Dep : e # d => pc'[e] = pc[e]
      BY <2>4, PipelineFrame
    <3>2. /\ UNCHANGED vols
          /\ pc'[d] \in StopFirst => pc[d] \in StopFirst \/ owner[d] \in vols
          /\ pc'[d] \in Compose => pc[d] \in Compose \/ owner[d] \in Stack
      <4> USE <2>4 DEF OnlyPipeline, OnlyStatus, OnlyDocker, Goto
      <4>1. CASE Load(d) \/ SkipTag(d) \/ Build(d) \/ Advance(d) \/ FailBuilding(d) \/ Settle(d)
        BY <4>1 DEF Load, SkipTag, Build, Advance, AfterAdvance, FailBuilding, Settle
      <4>2. CASE FailDeploying(d) \/ Choose(d) \/ Recheck(d) \/ StopFirstApp(d) \/ StackApp(d)
        BY <4>2 DEF FailDeploying, Choose, Recheck, StopFirstApp, StackApp, GetApp
      <4>3. CASE MakeTemp(d) \/ StartTemp(d) \/ Probe(d) \/ DropTemp(d) \/ CleanTemp(d)
        BY <4>3 DEF MakeTemp, StartTemp, Probe, DropTemp, CleanTemp, RemoveTemp
      <4>4. CASE Cut(d) \/ MakeCanonical(d) \/ StartCanonical(d) \/ Verify(d)
        BY <4>4 DEF Cut, MakeCanonical, StartCanonical, Verify
      <4>5. CASE StopFirstCut(d) \/ StopFirstCreate(d) \/ StopFirstStart(d) \/ StopFirstVerify(d)
        BY <4>5 DEF StopFirstCut, StopFirstCreate, StopFirstStart, StopFirstVerify
      <4>6. CASE StackUp(d) \/ Record(d) \/ Retire(d)
        BY <4>6 DEF StackUp, Record, Retire
      <4> QED
        BY <4>1, <4>2, <4>3, <4>4, <4>5, <4>6 DEF Pipeline
    <3> QED
      BY <3>1, <3>2
  <2> QED
    BY <2>2, <2>3, <2>4 DEF Next, vars
<1> QED
  BY <1>1, <1>2, TypeCorrect, RowInvariant, PTL DEF Spec

\* A pipeline touches no other app's container.
LEMMA CanonFrame ==
  ASSUME TypeOK, RowInv, NEW d \in Dep, Pipeline(d), NEW b \in App, b # owner[d]
  PROVE  canon'[b] = canon[b]
<1> USE DEF OnlyStatus, OnlyDocker, store, docker, SetMine, TypeOK
<1>1. CASE Load(d) \/ SkipTag(d) \/ Build(d) \/ Advance(d) \/ FailBuilding(d) \/ Settle(d)
           \/ FailDeploying(d) \/ Record(d) \/ Retire(d)
  BY <1>1, RowSteps
<1>2. CASE \/ Choose(d) \/ Recheck(d) \/ StopFirstApp(d) \/ StackApp(d) \/ Verify(d)
           \/ StopFirstVerify(d) \/ MakeTemp(d) \/ StartTemp(d) \/ Probe(d) \/ DropTemp(d)
           \/ CleanTemp(d)
  BY <1>2 DEF Choose, Recheck, StopFirstApp, StackApp, Verify, StopFirstVerify, MakeTemp,
       StartTemp, Probe, DropTemp, CleanTemp, RemoveTemp
<1>3. CASE \/ Cut(d) \/ MakeCanonical(d) \/ StartCanonical(d) \/ StopFirstCut(d)
           \/ StopFirstCreate(d) \/ StopFirstStart(d) \/ StackUp(d)
  BY <1>3 DEF Cut, MakeCanonical, StartCanonical, StopFirstCut, StopFirstCreate, StopFirstStart,
       StackUp
<1> QED
  BY <1>1, <1>2, <1>3 DEF Pipeline

\* What keeps an app covered: its container stays, or a delete of the app has begun, or
\* a pipeline is between the remove and the create.
LEMMA RestKeepsCovered ==
  ASSUME TypeOK, RowInv, Covered, crashed => crashed',
         \A e \in Dep : /\ owner[e] \in App => owner'[e] = owner[e]
                        /\ pc'[e] = "record" => pc[e] = "record"
                        /\ pc[e] = "mkCanon" => pc'[e] = "mkCanon" \/ crashed'
                        /\ status'[e] = "running" => status[e] = "running"
                        /\ status'[e] = "deploying" => status[e] = "deploying"
                        /\ status'[e] # "absent" => deleting[owner[e]] = deleting'[owner[e]]
                                                    \/ deleting'[owner[e]] = "rows",
         \A b \in App : Exists(canon[b]) => Exists(canon'[b]) \/ deleting'[b] = "rows"
  PROVE  Covered'
<1> USE BoundAssumption DEF TypeOK, Place
<1> SUFFICES ASSUME ~crashed', ~DaemonFails, ~StoreFails, NEW d \in Dep,
                    status'[d] = "running" \/ (status'[d] = "deploying" /\ pc'[d] = "record"),
                    owner'[d] \notin Volumed \cup Stack, deleting'[owner'[d]] = "no",
                    \A e \in Dep : owner'[e] = owner'[d] => pc'[e] # "mkCanon"
             PROVE  Exists(canon'[owner'[d]])
  BY DEF Covered, Exists
<1>1. /\ status[d] = "running" \/ (status[d] = "deploying" /\ pc[d] = "record")
      /\ owner[d] \in App /\ owner'[d] = owner[d] /\ ~crashed
  BY OwnerKnown
<1>2. deleting[owner[d]] = "no"
  BY <1>1
<1>3. ASSUME NEW e \in Dep, owner[e] = owner[d] PROVE pc[e] # "mkCanon"
  BY <1>1, <1>3
<1> QED
  BY <1>1, <1>2, <1>3 DEF Covered

\* Nothing but a delete takes the container of a live blue-green app away, between any
\* two steps of anybody but for the remove and the create of a cutover.
THEOREM CoveredInvariant == Spec => []Covered
<1>1. Init => Covered
  BY DEF Init, Covered
<1>2. TypeOK /\ RowInv /\ Strategies /\ Covered /\ [Next]_vars => Covered'
  <2> SUFFICES ASSUME TypeOK, RowInv, Strategies, Covered, [Next]_vars PROVE Covered'
    OBVIOUS
  <2>0. CASE UNCHANGED vars
    BY <2>0 DEF Covered, Exists, vars, store, process, worker, docker, handler
  <2> USE RestKeepsCovered, BoundAssumption DEF TypeOK, store, process, worker, docker, handler
  <2>1. ASSUME NEW a \in App, NEW img, Insert(a, img), UNCHANGED <<process, worker, docker, handler>>
        PROVE  Covered'
    <3>1. next \in Dep /\ owner[next] \notin App
      BY <2>1, AppAssumption DEF Insert, RowInv, RowsInUse
    <3>2. /\ owner' = [owner EXCEPT ![next] = a] /\ status' = [status EXCEPT ![next] = "queued"]
          /\ UNCHANGED <<crashed, pc, canon, deleting>>
      BY <2>1 DEF Insert
    <3> QED
      BY <3>1, <3>2
  <2>2. CASE Handlers
    <3>1. ASSUME NEW a \in App, Enqueue(a) PROVE Covered'
      BY <2>1, <3>1 DEF Enqueue
    <3>2. ASSUME NEW d \in Dep, Rollback(d) PROVE Covered'
      BY <2>1, <3>2 DEF Rollback
    <3>3. ASSUME NEW a \in App, AddVolume(a) \/ DeleteVolume(a) PROVE Covered'
      BY <3>3 DEF AddVolume, DeleteVolume
    <3>4. ASSUME NEW a \in App, StopApp(a) \/ RestartApp(a) PROVE Covered'
      <4>1. (Exists(Stopped(canon[a])) <=> Exists(canon[a])) /\ Exists(Running(canon[a]))
        BY SameMaker, ContainerOps DEF Running, Exists, Container
      <4> QED
        BY <3>4, <4>1 DEF StopApp, RestartApp
    <3>5. ASSUME NEW a \in App, DeleteContainer(a) PROVE Covered'
      BY <3>5 DEF DeleteContainer
    <3>6. ASSUME NEW a \in App, DeleteRows(a) PROVE Covered'
      BY <3>6 DEF DeleteRows
    <3>7. ASSUME NEW d \in Dep, CancelRead(d) \/ Interrupt(d) PROVE Covered'
      BY <3>7 DEF CancelRead, Interrupt
    <3>8. ASSUME NEW d \in Dep, CancelWrite(d) PROVE Covered'
      BY <3>8 DEF CancelWrite, SetStatus, CanTransition, transitions
    <3> QED
      BY <2>2, <3>1, <3>2, <3>3, <3>4, <3>5, <3>6, <3>7, <3>8 DEF Handlers
  <2>3. CASE Dispatcher
    <3>1. ASSUME NEW d \in Dep, Pick(d) PROVE Covered'
      BY <3>1 DEF Pick
    <3>2. CASE ClaimDeployment
      BY <3>2 DEF ClaimDeployment
    <3>3. CASE Launch
      <4>1. cand \in Dep /\ pc[cand] = "idle"
        BY <3>3 DEF Launch, RowInv, DispatcherHolds
      <4> QED
        BY <3>3, <4>1 DEF Launch
    <3> QED
      BY <2>3, <3>1, <3>2, <3>3 DEF Dispatcher
  <2>4. CASE Process
    <3>1. CASE Shutdown \/ Exit \/ Boot
      BY <3>1 DEF Shutdown, Exit, Boot, RecoverActive, IsActive
    <3>2. CASE Crash
      BY <3>2 DEF Crash, Covered
    <3> QED
      BY <2>4, <3>1, <3>2 DEF Process
  <2>5. ASSUME NEW d \in Dep, Pipeline(d) PROVE Covered'
    <3>1. /\ UNCHANGED <<owner, crashed, deleting>> /\ \A e \in Dep : e # d => pc'[e] = pc[e]
      BY <2>5, PipelineFrame
    <3>2. CASE \/ Load(d) \/ SkipTag(d) \/ Build(d) \/ Advance(d) \/ FailBuilding(d) \/ Settle(d)
               \/ FailDeploying(d) \/ Retire(d)
      <4>1. UNCHANGED canon
        BY <3>2, RowSteps
      <4>2. pc[d] # "mkCanon" /\ pc'[d] # "record"
        BY <3>2 DEF Load, SkipTag, Build, Advance, AfterAdvance, FailBuilding, Settle,
             FailDeploying, Retire, Goto
      <4>3. \A e \in Dep : /\ status'[e] = "running" => status[e] = "running"
                           /\ status'[e] = "deploying" => status[e] = "deploying" \/ e = d
        BY <3>2 DEF Load, SkipTag, Build, Advance, FailBuilding, Settle, FailDeploying, Retire,
             Write, SetStatus, SupersedeOthers, OnlyDocker, OnlyPipeline
      <4> QED
        BY <3>1, <4>1, <4>2, <4>3 DEF Covered
    <3>3. CASE Record(d)
      <4>1. UNCHANGED canon /\ pc[d] = "record" /\ pc'[d] = "retire"
        BY <3>3, RowSteps DEF Record, Goto
      <4>2. \A e \in Dep : status'[e] = status[e] \/ (e = d /\ status[d] = "deploying")
        BY <3>3 DEF Record, Write, SetStatus
      <4> QED
        BY <3>1, <4>1, <4>2 DEF Covered
    <3>4. CASE ~ \/ Load(d) \/ SkipTag(d) \/ Build(d) \/ Advance(d) \/ FailBuilding(d) \/ Settle(d)
                 \/ FailDeploying(d) \/ Record(d) \/ Retire(d)
      <4>1. /\ pc[d] \in Deploying /\ UNCHANGED status
            /\ owner[d] \in App /\ Mine(d) \in Container
        BY <2>5, <3>4, CutoverSteps, OwnerKnown DEF Place, Deploying, BlueGreen, StopFirst, Compose
      <4>2. /\ (Exists(Stopped(Mine(d))) <=> Exists(Mine(d))) /\ Exists(Running(Mine(d)))
            /\ Exists(NewContainer(d)) /\ Exists(Running(NewContainer(d)))
        BY <4>1, SameMaker, NewContainerType DEF NewContainer, Running, Exists, Container
      <4>3. ~DaemonFails /\ ~StoreFails /\ owner[d] \notin Volumed =>
              /\ \/ canon' = canon
                 \/ \E c : SetMine(d, c) /\ (Exists(c) \/ pc'[d] = "mkCanon")
                 \/ SetMine(d, Stopped(Mine(d)))
              /\ pc[d] = "mkCanon" => Exists(canon'[owner[d]])
              /\ pc'[d] = "record" => Exists(canon'[owner[d]]) \/ owner[d] \in Stack
        <5> SUFFICES ASSUME ~DaemonFails, ~StoreFails, owner[d] \notin Volumed
                     PROVE  /\ \/ canon' = canon
                               \/ \E c : SetMine(d, c) /\ (Exists(c) \/ pc'[d] = "mkCanon")
                               \/ SetMine(d, Stopped(Mine(d)))
                            /\ pc[d] = "mkCanon" => Exists(canon'[owner[d]])
                            /\ pc'[d] = "record" => Exists(canon'[owner[d]]) \/ owner[d] \in Stack
          OBVIOUS
        <5>0. pc[d] \notin StopFirst /\ (pc[d] \in Compose => owner[d] \in Stack)
          BY DEF Strategies
        <5> USE DEF Goto
        <5>1. CASE Choose(d) \/ Recheck(d) \/ StackApp(d)
          BY <5>1 DEF Choose, Recheck, StackApp, GetApp
        <5>2. CASE MakeTemp(d) \/ StartTemp(d) \/ Probe(d) \/ DropTemp(d) \/ CleanTemp(d)
          BY <5>2 DEF MakeTemp, StartTemp, Probe, DropTemp, CleanTemp, RemoveTemp
        <5>3. CASE Cut(d)
          BY <5>3 DEF Cut
        <5>4. CASE MakeCanonical(d)
          BY <5>4, <4>1, <4>2 DEF MakeCanonical, SetMine
        <5>5. CASE StartCanonical(d)
          BY <5>5, <4>1, <4>2 DEF StartCanonical
        <5>6. CASE Verify(d)
          BY <5>6 DEF Verify, Mine, Exists
        <5>7. CASE StackUp(d)
          BY <5>0, <5>7, <4>1, <4>2 DEF StackUp, Compose
        <5> QED
          BY <2>5, <3>4, <5>0, <5>1, <5>2, <5>3, <5>4, <5>5, <5>6, <5>7
             DEF Pipeline, StopFirst, StopFirstApp, StopFirstCut, StopFirstCreate, StopFirstStart,
                 StopFirstVerify
      <4> SUFFICES ASSUME ~crashed, ~DaemonFails, ~StoreFails, NEW e \in Dep,
                          status[e] = "running" \/ (status[e] = "deploying" /\ pc'[e] = "record"),
                          owner[e] \notin Volumed \cup Stack, deleting[owner[e]] = "no",
                          \A f \in Dep : owner[f] = owner[e] => pc'[f] # "mkCanon"
                   PROVE  Exists(canon'[owner[e]])
        BY <3>1, <4>1 DEF Covered, Exists
      <4>4. owner[e] \in App
        BY OwnerKnown
      <4>5. CASE owner[e] # owner[d]
        <5>1. canon'[owner[e]] = canon[owner[e]]
          BY <2>5, <3>4, <4>4, <4>5, CanonFrame
        <5>2. pc'[e] = pc[e] /\ \A f \in Dep : owner[f] = owner[e] => pc[f] # "mkCanon"
          BY <3>1, <4>5
        <5> QED
          BY <5>1, <5>2 DEF Covered
      <4>6. CASE owner[e] = owner[d] /\ pc[d] # "mkCanon" /\ ~(e = d /\ pc'[d] = "record")
        <5>1. \A f \in Dep : owner[f] = owner[e] => pc[f] # "mkCanon"
          BY <3>1, <4>6
        <5>2. status[e] = "running" \/ (status[e] = "deploying" /\ pc[e] = "record")
          BY <3>1, <4>6
        <5>3. Exists(canon[owner[e]])
          BY <5>1, <5>2 DEF Covered
        <5> QED
          BY <4>1, <4>2, <4>3, <4>6, <5>3 DEF SetMine, Mine
      <4>7. CASE owner[e] = owner[d] /\ (pc[d] = "mkCanon" \/ (e = d /\ pc'[d] = "record"))
        BY <4>3, <4>7
      <4> QED
        BY <4>5, <4>6, <4>7
    <3> QED
      BY <2>5, <3>2, <3>3, <3>4
  <2> QED
    BY <2>0, <2>2, <2>3, <2>4, <2>5 DEF Next
<1> QED
  BY <1>1, <1>2, TypeCorrect, RowInvariant, StrategyInvariant, PTL DEF Spec

\* Blue-green never leaves a deployed app without a container, whoever cancels or shuts
\* down in the middle (pipeline.go:226-249).
THEOREM CutoversComplete == Spec => []CutoverCompletes
<1>1. Covered => CutoverCompletes
  BY DEF Covered, CutoverCompletes
<1> QED
  BY <1>1, CoveredInvariant, PTL

\* While nothing has been stopped and the daemon obeys, a running temporary container is
\* on its way to being removed.
THEOREM TempInvariant == Spec => []TempInv
<1>1. Init => TempInv
  BY DEF Init, TempInv, NoContainer
<1>2. TypeOK /\ RowInv /\ CancelInv /\ TempInv /\ [Next]_vars => TempInv'
  <2> SUFFICES ASSUME TypeOK, RowInv, CancelInv, TempInv, [Next]_vars PROVE TempInv'
    OBVIOUS
  <2> USE BoundAssumption DEF TypeOK, store, process, worker, docker, handler
  <2>1. CASE UNCHANGED vars \/ Handlers
    <3>1. UNCHANGED <<server, restarts, crashed, temp, pc>>
      BY <2>1 DEF vars, Handlers, Enqueue, Rollback, Insert, AddVolume, DeleteVolume, StopApp,
           RestartApp, DeleteContainer, DeleteRows, CancelRead, CancelWrite, Interrupt
    <3> QED
      BY <3>1 DEF TempInv
  <2>2. CASE Dispatcher
    <3>1. /\ UNCHANGED <<server, restarts, crashed, temp>>
          /\ \/ pc' = pc
             \/ cand \in Dep /\ pc[cand] = "idle" /\ pc' = [pc EXCEPT ![cand] = "load"]
      BY <2>2 DEF Dispatcher, Pick, ClaimDeployment, Launch, RowInv, DispatcherHolds
    <3> QED
      BY <3>1 DEF TempInv, Probed
  <2>3. CASE Process
    <3>1. CASE Shutdown
      BY <3>1 DEF Shutdown, TempInv
    <3>2. CASE Exit \/ Boot
      BY <3>2 DEF Exit, Boot, TempInv
    <3>3. CASE Crash
      BY <3>3 DEF Crash, TempInv
    <3> QED
      BY <2>3, <3>1, <3>2, <3>3 DEF Process
  <2>4. ASSUME NEW d \in Dep, Pipeline(d) PROVE TempInv'
    <3>1. /\ UNCHANGED <<server, restarts, crashed>>
          /\ \A e \in Dep : e # d => pc'[e] = pc[e]
      BY <2>4, PipelineFrame
    <3>2. ASSUME restarts = 0, ~DaemonFails
          PROVE  /\ temp'[d].state = "running" => pc'[d] \in Probed
                 /\ \A e \in Dep : e # d => temp'[e] = temp[e]
      <4>1. pc[d] \in Deploying \ {"failD"} => Ctx(d)
        BY <3>2 DEF CancelInv, TempInv, Ctx
      <4>2. temp[d].state = "running" => pc[d] \in Probed
        BY <3>2 DEF TempInv
      <4> USE DEF OnlyStatus, OnlyDocker, Goto, Probed, Deploying, BlueGreen, StopFirst, Compose
      <4>3. CASE Load(d) \/ SkipTag(d) \/ Build(d) \/ Advance(d) \/ FailBuilding(d) \/ Settle(d)
        BY <4>2, <4>3 DEF Load, SkipTag, Build, Advance, FailBuilding, Settle
      <4>4. CASE FailDeploying(d) \/ Choose(d) \/ Recheck(d) \/ StopFirstApp(d) \/ StackApp(d)
        BY <4>2, <4>4 DEF FailDeploying, Choose, Recheck, StopFirstApp, StackApp, GetApp
      <4>5. CASE MakeTemp(d) \/ StartTemp(d)
        BY <4>1, <4>2, <4>5 DEF MakeTemp, StartTemp, SetTemp, NewContainer
      <4>6. CASE Probe(d)
        BY <4>2, <4>6 DEF Probe
      <4>7. CASE DropTemp(d) \/ CleanTemp(d)
        BY <3>2, <4>7 DEF DropTemp, CleanTemp, RemoveTemp, SetTemp, NoContainer
      <4>8. CASE Cut(d) \/ MakeCanonical(d) \/ StartCanonical(d) \/ Verify(d)
        BY <4>2, <4>8 DEF Cut, MakeCanonical, StartCanonical, Verify
      <4>9. CASE StopFirstCut(d) \/ StopFirstCreate(d) \/ StopFirstStart(d) \/ StopFirstVerify(d)
        BY <4>2, <4>9 DEF StopFirstCut, StopFirstCreate, StopFirstStart, StopFirstVerify
      <4>10. CASE StackUp(d) \/ Record(d) \/ Retire(d)
        BY <4>2, <4>10 DEF StackUp, Record, Retire
      <4> QED
        BY <2>4, <4>3, <4>4, <4>5, <4>6, <4>7, <4>8, <4>9, <4>10 DEF Pipeline
    <3> QED
      BY <3>1, <3>2 DEF TempInv
  <2> QED
    BY <2>1, <2>2, <2>3, <2>4 DEF Next
<1> QED
  BY <1>1, <1>2, TypeCorrect, RowInvariant, CancelInvariant, PTL DEF Spec

\* Every way out of the health-check phase takes the temporary container down
\* (pipeline.go:195-249), as long as no shutdown cuts off the daemon's answer.
THEOREM NoneStrays == Spec => []NoStrayTemp
<1>1. TempInv => NoStrayTemp
  BY DEF TempInv, NoStrayTemp, Probed, BlueGreen
<1> QED
  BY <1>1, TempInvariant, PTL

=============================================================================

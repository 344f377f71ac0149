--------------------------- MODULE RetentionProofs ---------------------------
(***************************************************************************)
(* Image retention, for any number of apps, attempts, pruners, rollbacks   *)
(* and crashes, and any Keep: what a row records as there is there, and    *)
(* nothing takes the image an attempt on its way, or the last live one,    *)
(* needs.                                                                  *)
(***************************************************************************)
EXTENDS Retention, TLAPS

\* The places of a pipeline before its cutover, at it and behind it.
Working == {"clone", "build", "record", "advance"}
Cutting == {"ship", "cut"}
Live    == {"retire", "prune", "pruning"}

\* What an attempt without a row and one that is over have in common: nobody works on it.
HasNoRow(d) == status[d] = "absent"
Settled(i) == HasNoRow(i) \/ IsTerminal(status[i])

\* The attempts that need their image: those on their way, and the last that went live.
Unsettled(d) == status[d] \in {"queued", "building", "deploying"}
LastLive(d) ==
  /\ status[d] = "running"
  /\ \A e \in Rows(owner[d]) : e > d => status[e] \notin {"running", "superseded"}
Needs(d) == Unsettled(d) \/ LastLive(d)

\* Whoever needs image i came to it while a pruner had it in hand.
Forsaken(i) == \A d \in Dep : image[d] = i /\ Needs(d) => i \in raced

\* The rows are of an app, in the order of their ids, and go with it.
RowsOK ==
  /\ OneActivePerApp
  /\ \A d \in Dep : IF d < next THEN owner[d] \in App /\ (HasNoRow(d) <=> owner[d] \notin apps)
                    ELSE owner[d] = NoApp /\ HasNoRow(d)

\* Where a pipeline may be, by its row; the row of a pipeline may have gone.
PlacesOK ==
  \A d \in Dep :
    /\ status[d] = "queued" => place[d] = "none"
    /\ status[d] = "building" => place[d] \in Working
    /\ status[d] = "deploying" => place[d] \in Cutting
    /\ place[d] \in Working => status[d] \in {"building", "cancelled", "absent"}
    /\ place[d] \in Cutting => status[d] \in {"deploying", "absent"}
    /\ place[d] \in Live => status[d] \in {"running", "superseded", "absent"}
    /\ place[d] # "none" => d < next

\* The image a row bears: its own once it is built, or an older attempt's of its app,
\* which bears itself.
ImagesOK ==
  \A d \in Dep :
    /\ d >= next => image[d] = 0 /\ ~pruned[d]
    /\ image[d] # 0 => image[d] <= d /\ image[image[d]] = image[d] /\ owner[image[d]] = owner[d]
    /\ status[d] = "queued" => image[d] # d
    /\ place[d] \in {"clone", "build", "record"} => image[d] = 0
    /\ place[d] \in {"advance", "ship", "cut"} \/ status[d] = "running" => image[d] # 0 \/ HasNoRow(d)

\* A rollback that was asked for is of an attempt that has an image.
AskedOK ==
  \A a \in App : asked[a] # 0 => asked[a] < next /\ owner[asked[a]] = a /\ image[asked[a]] # 0

\* Images and checkouts are of attempts there were.
HostOK == \A i \in host \cup work : i < next

\* What pruner p is about to remove: the images it has listed, and the one it has removed
\* and is about to record.
InHand(p) == todo[p] \cup ({removed[p]} \ {0})
\* It is forsaken: nobody was in need of it, or came to be while the pruner had it.
HandsOK ==
  \A p \in Pruner :
    /\ \A i \in InHand(p) : image[i] = i /\ Settled(i) /\ Forsaken(i)
    /\ removed[p] \notin host

\* So is what the sweep is about to remove.
SweepOK ==
  /\ \A i \in sweep.items : i < next
  /\ sweep.item # 0 => /\ sweep.item < next /\ Settled(sweep.item)
                        /\ sweep.phase \in {"orphans", "dirs"}
  /\ sweep.phase = "orphans" => \A i \in (sweep.items \cup {sweep.item}) \ {0} : Forsaken(i)

\* A row that says its image is pruned says so of an image that has gone.
PrunedOK ==
  \A d \in Dep : pruned[d] => /\ image[d] # 0
                              /\ HasNoRow(d) \/ image[d] \notin host
                              /\ Needs(d) => image[d] \in raced
                              /\ image[d] = d => Settled(d)

\* Whoever needs an image has it, or came to it too late.
KeptOK ==
  \A d \in Dep :
    Needs(d) /\ image[d] # 0 /\ owner[d] \notin deleting => image[d] \in host \cup raced

\* All of it is needed at once.
IInv ==
  /\ RetTypeOK /\ RowsOK /\ PlacesOK /\ ImagesOK /\ AskedOK /\ HostOK /\ HandsOK /\ SweepOK
  /\ PrunedOK /\ KeptOK /\ FreshBuildSurvives

USE AppAssumption, MaxDepAssumption

-----------------------------------------------------------------------------
(* The rows. *)

\* The rows' statuses, as the deployments module knows them, are the ones named here.
LEMMA StatusFacts ==
  /\ \A s : IsTerminal(s) <=> s \in {"running", "failed", "cancelled", "superseded"}
  /\ \A s : IsActive(s) <=> s \in {"building", "deploying"}
  /\ \A s \in Status : transitions[s] = 
       CASE s = "queued" -> {"building", "cancelled"}
         [] s = "building" -> {"deploying", "failed", "cancelled"}
         [] s = "deploying" -> {"running", "failed"}
         [] s = "running" -> {"superseded"}
         [] OTHER -> {}
BY DEF IsTerminal, IsActive, transitions, Status

\* What a step never takes back, of the rows there are before it.
Follows ==
  /\ next <= next'
  /\ \A d \in Dep : d < next =>
       /\ owner'[d] = owner[d]
       /\ HasNoRow(d) => HasNoRow(d)'
       /\ Settled(d) => Settled(d)'
       /\ Needs(d)' => Needs(d)
  /\ \A d \in Dep : d > next => d >= next'

\* An attempt that is the last live one was so already, or is just going live.
LEMMA LastLiveBack ==
  ASSUME NEW d \in Dep, owner'[d] = owner[d], LastLive(d)', status[d] = "running",
         \A e \in Dep : owner[e] = owner[d] /\ status[e] \in {"running", "superseded"} =>
                          owner'[e] = owner[e] /\ status'[e] \in {"running", "superseded"}
  PROVE  LastLive(d)
<1> SUFFICES ASSUME NEW e \in Rows(owner[d]), e > d, status[e] \in {"running", "superseded"}
             PROVE FALSE
  BY DEF LastLive
<1>1. e \in Dep /\ owner[e] = owner[d]
  BY DEF Rows
<1>2. owner'[e] = owner'[d] /\ status'[e] \in {"running", "superseded"}
  BY <1>1
<1>3. e \in Rows(owner[d])'
  BY <1>1, <1>2 DEF Rows
<1> QED
  BY <1>2, <1>3 DEF LastLive

\* The table keeps its types and its order, whoever writes to it.
LEMMA RowsStep ==
  ASSUME TypeOK, RowsOK, [Next]_vars
  PROVE  TypeOK' /\ RowsOK' /\ Follows
<1> USE StatusFacts DEF TypeOK, Dep
<1>1. ASSUME NEW a \in App, Enqueue(a) PROVE TypeOK' /\ RowsOK' /\ Follows
  <2>1. /\ a \in apps /\ next \in Dep /\ next' = next + 1 /\ apps' = apps
        /\ owner' = [owner EXCEPT ![next] = a] /\ status' = [status EXCEPT ![next] = "queued"]
    BY <1>1 DEF Enqueue
  <2>2. TypeOK'
    BY <2>1 DEF Status
  <2>3. \A d \in Dep : d # next => owner'[d] = owner[d] /\ status'[d] = status[d]
    BY <2>1
  <2>4. owner'[next] = a /\ status'[next] = "queued"
    BY <2>1
  <2>5. OneActivePerApp'
    <3> SUFFICES ASSUME NEW d \in Dep, NEW e \in Dep, owner'[d] = owner'[e],
                        IsActive(status'[d]), IsActive(status'[e])
                 PROVE d = e
      BY DEF OneActivePerApp
    <3>1. d # next /\ e # next
      BY <2>4
    <3> QED
      BY <2>3, <3>1 DEF RowsOK, OneActivePerApp
  <2>6. RowsOK'
    BY <2>1, <2>3, <2>4, <2>5 DEF RowsOK, HasNoRow
  <2>7. ASSUME NEW d \in Dep, d < next
        PROVE  /\ owner'[d] = owner[d] /\ status'[d] = status[d]
               /\ Needs(d)' => Needs(d)
    <3>1. owner'[d] = owner[d] /\ status'[d] = status[d]
      BY <2>3, <2>7
    <3>2. \A e \in Dep : status[e] \in {"running", "superseded"} =>
                           owner'[e] = owner[e] /\ status'[e] \in {"running", "superseded"}
      BY <2>1, <2>3 DEF RowsOK, HasNoRow
    <3>3. LastLive(d)' => LastLive(d)
      BY <3>1, <3>2, LastLiveBack DEF LastLive
    <3> QED
      BY <3>1, <3>3 DEF Needs, Unsettled
  <2>8. Follows
    BY <2>1, <2>7 DEF Follows, HasNoRow, Settled
  <2> QED
    BY <2>2, <2>6, <2>8
<1>2. ASSUME NEW a \in App, DeleteApp(a) PROVE TypeOK' /\ RowsOK' /\ Follows
  <2>1. /\ a \in apps /\ apps' = apps \ {a} /\ owner' = owner /\ next' = next
        /\ status' = [d \in Dep |-> IF owner[d] = a THEN "absent" ELSE status[d]]
    BY <1>2 DEF DeleteApp
  <2>2. TypeOK' /\ RowsOK'
    BY <2>1 DEF RowsOK, HasNoRow, OneActivePerApp
  <2>3. ASSUME NEW d \in Dep
        PROVE  /\ status'[d] \in {status[d], "absent"}
               /\ Needs(d)' => Needs(d)
    <3>1. status'[d] = IF owner[d] = a THEN "absent" ELSE status[d]
      BY <2>1
    <3>2. owner[d] # a => \A e \in Dep : owner[e] = owner[d] => status'[e] = status[e]
      BY <2>1
    <3>3. LastLive(d)' => LastLive(d)
      BY <2>1, <3>1, <3>2, LastLiveBack DEF LastLive
    <3> QED
      BY <3>1, <3>3 DEF Needs, Unsettled
  <2> QED
    BY <2>1, <2>2, <2>3 DEF Follows, HasNoRow, Settled
<1>3. ASSUME NEW d \in Dep, Claim(d) PROVE TypeOK' /\ RowsOK' /\ Follows
  <2>1. /\ status[d] = "queued" /\ owner' = owner /\ next' = next /\ apps' = apps
        /\ status' = [status EXCEPT ![d] = "building"]
    BY <1>3 DEF Claim
  <2>2. TypeOK'
    BY <2>1 DEF Status
  <2>3. \A e \in Rows(owner[d]) : ~IsActive(status[e])
    BY <1>3 DEF Claim
  <2>4. OneActivePerApp'
    BY <2>1, <2>3 DEF RowsOK, OneActivePerApp, Rows
  <2>5. RowsOK'
    BY <2>1, <2>4 DEF RowsOK, HasNoRow
  <2>6. ASSUME NEW e \in Dep PROVE Needs(e)' => Needs(e)
    <3>1. LastLive(e)' => LastLive(e)
      BY <2>1, LastLiveBack DEF LastLive
    <3> QED
      BY <2>1, <3>1 DEF Needs, Unsettled
  <2> QED
    BY <2>1, <2>2, <2>5, <2>6 DEF Follows, HasNoRow, Settled
<1>4. ASSUME NEW d \in Dep, NEW to \in Status, Move(d, to) PROVE TypeOK' /\ RowsOK' /\ Follows
  <2>1. /\ status[d] \in Status /\ to \in transitions[status[d]] /\ to # "building"
        /\ owner' = owner /\ next' = next /\ apps' = apps
        /\ status' = [status EXCEPT ![d] = to]
        /\ to # "superseded"
    BY <1>4 DEF Move
  <2>2. TypeOK'
    BY <2>1
  <2>3. /\ IsActive(to) => IsActive(status[d])
        /\ status[d] \in {"queued", "building", "deploying"} 
        /\ to # "absent"
    BY <2>1 DEF Status
  <2>4. OneActivePerApp'
    BY <2>1, <2>3 DEF RowsOK, OneActivePerApp
  <2>5. RowsOK'
    BY <2>1, <2>3, <2>4 DEF RowsOK, HasNoRow, Status
  <2>6. ASSUME NEW e \in Dep PROVE Needs(e)' => Needs(e)
    <3>1. LastLive(e)' /\ e # d => LastLive(e)
      BY <2>1, <2>3, LastLiveBack DEF LastLive
    <3> QED
      BY <2>1, <2>3, <3>1 DEF Needs, Unsettled
  <2> QED
    BY <2>1, <2>2, <2>3, <2>5, <2>6 DEF Follows, HasNoRow, Settled
<1>5. ASSUME NEW d \in Dep, Retire(d) PROVE TypeOK' /\ RowsOK' /\ Follows
  <2>1. /\ owner' = owner /\ next' = next /\ apps' = apps
        /\ status' = [e \in Dep |-> IF e \in Rows(owner[d]) \ {d} /\ status[e] = "running"
                                    THEN "superseded" ELSE status[e]]
    BY <1>5 DEF Retire
  <2>2. \A e \in Dep : status'[e] = status[e] \/ (status[e] = "running" /\ status'[e] = "superseded")
    BY <2>1
  <2>3. TypeOK'
    BY <2>1 DEF Status
  <2>4. RowsOK'
    BY <2>1, <2>2 DEF RowsOK, HasNoRow, OneActivePerApp
  <2>5. ASSUME NEW e \in Dep PROVE Needs(e)' => Needs(e)
    <3>1. LastLive(e)' => LastLive(e)
      BY <2>1, <2>2, LastLiveBack DEF LastLive
    <3> QED
      BY <2>2, <3>1 DEF Needs, Unsettled
  <2> QED
    BY <2>1, <2>2, <2>3, <2>4, <2>5 DEF Follows, HasNoRow, Settled
<1>6. CASE Recover
  <2>1. /\ owner' = owner /\ next' = next /\ apps' = apps
        /\ status' = [d \in Dep |-> IF IsActive(status[d]) THEN "failed" ELSE status[d]]
    BY <1>6 DEF Recover
  <2>2. \A e \in Dep : status'[e] = status[e] \/ (IsActive(status[e]) /\ status'[e] = "failed")
    BY <2>1
  <2>3. TypeOK'
    BY <2>1 DEF Status
  <2>4. RowsOK'
    BY <2>1, <2>2 DEF RowsOK, HasNoRow, OneActivePerApp
  <2>5. ASSUME NEW e \in Dep PROVE Needs(e)' => Needs(e)
    <3>1. LastLive(e)' => LastLive(e)
      BY <2>1, <2>2, LastLiveBack DEF LastLive
    <3> QED
      BY <2>2, <3>1 DEF Needs, Unsettled
  <2> QED
    BY <2>1, <2>2, <2>3, <2>4, <2>5 DEF Follows, HasNoRow, Settled
<1>7. CASE UNCHANGED vars
  <2>1. owner' = owner /\ next' = next /\ apps' = apps /\ status' = status
    BY <1>7 DEF vars
  <2>2. \A d \in Dep : (HasNoRow(d)' <=> HasNoRow(d)) /\ (Settled(d)' <=> Settled(d))
                         /\ (Needs(d)' <=> Needs(d))
    BY <2>1 DEF HasNoRow, Settled, Needs, Unsettled, LastLive, Rows
  <2>3. Follows
    BY <2>1, <2>2 DEF Follows
  <2> QED
    BY <2>1, <2>2, <2>3 DEF RowsOK, OneActivePerApp
<1> QED
  BY <1>1, <1>2, <1>3, <1>4, <1>5, <1>6, <1>7 DEF Next

-----------------------------------------------------------------------------
(* One step of the host. *)

\* Each step does to the rows what the deployments table allows, or nothing.
LEMMA RowSteps == [RetNext]_retVars => [Next]_vars
<1> SUFFICES ASSUME [RetNext]_retVars PROVE [Next]_vars
  OBVIOUS
<1> USE DEF rows, vars
<1>1. ASSUME NEW a \in App, Deploy(a) \/ CreateRollback(a) \/ DeleteImages(a) \/ DeleteRows(a)
      PROVE  [Next]_vars
  BY <1>1 DEF Deploy, CreateRollback, DeleteImages, DeleteRows, Next
<1>2. ASSUME NEW d \in Dep, Rollback(d) \/ Cancel(d) \/ Start(d) PROVE [Next]_vars
  BY <1>2 DEF Rollback, Cancel, Start, Next, Status
<1>3. ASSUME NEW d \in Dep, NEW from, NEW to \in Status, SetStatus(d, from, to) PROVE [Next]_vars
  BY <1>3 DEF SetStatus, Next
<1>4. ASSUME NEW d \in Dep, Pipeline(d) PROVE [Next]_vars
  <2>1. CASE Clone(d) \/ Build(d) \/ SetImage(d) \/ Cut(d) \/ PruneAfterDeploy(d) \/ PruneDone(d)
    BY <2>1 DEF Clone, Build, SetImage, Cut, PruneAfterDeploy, PruneDone
  <2>2. CASE Advance(d) \/ Fail(d)
    BY <2>2, <1>3 DEF Advance, Fail, Status
  <2>3. CASE Ship(d)
    BY <2>3 DEF Ship, Next, Status
  <2>4. CASE SupersedeOthers(d)
    BY <2>4 DEF SupersedeOthers, Next
  <2> QED
    BY <1>4, <2>1, <2>2, <2>3, <2>4 DEF Pipeline
<1>5. ASSUME NEW p \in Pruner, Prune(p) PROVE [Next]_vars
  BY <1>5 DEF Prune, MarkImagePruned, RemoveImage
<1>6. CASE DailySweep
  <2>1. Sweep \in Pruner
    BY DEF Pruner
  <2> QED
    BY <1>5, <1>6, <2>1 DEF DailySweep, SweepStart, ListImages, RetainedImages, RemoveOrphan,
       ReadWorkDir, RemoveDir, SweepDone, PruneSwept, CheckOrphan, CheckDir, TakeItem
<1>7. CASE Crash
  BY <1>7 DEF Crash, Next
<1>8. CASE UNCHANGED retVars
  BY <1>8 DEF retVars
<1>9. Dep \subseteq Pruner
  BY DEF Pruner
<1> QED
  BY <1>1, <1>2, <1>4, <1>5, <1>6, <1>7, <1>8, <1>9 DEF RetNext

\* So every step keeps the rows in order.
LEMMA RowsFollow ==
  ASSUME IInv, [RetNext]_retVars
  PROVE  TypeOK' /\ RowsOK' /\ Follows
BY RowsStep, RowSteps DEF IInv, RetTypeOK

-----------------------------------------------------------------------------
(* Types. *)

\* What an app has recorded, a prune takes and an attempt bears are attempts' images.
LEMMA ImageTypes ==
  ASSUME RetTypeOK, NEW a
  PROVE  /\ Recorded(a) \subseteq Dep /\ pruneCandidates(a) \subseteq Recorded(a)
         /\ pruneCandidates(a) \subseteq Dep
         /\ \A i \in Recorded(a) : i # 0
<1>1. Recorded(a) \subseteq Dep
  BY MaxDepAssumption DEF Recorded, Bearers, Rows, RetTypeOK, Dep
<1> QED
  BY <1>1 DEF pruneCandidates, Dep

\* Every step keeps the types.
LEMMA TypeStep == IInv /\ [RetNext]_retVars => RetTypeOK'
<1> SUFFICES ASSUME IInv, [RetNext]_retVars PROVE RetTypeOK'
  OBVIOUS
<1>1. /\ TypeOK' /\ TypeOK
      /\ image \in [Dep -> 0..MaxDep] /\ pruned \in [Dep -> BOOLEAN]
      /\ host \subseteq Dep /\ canon \in [App -> 0..MaxDep] /\ work \subseteq Dep
      /\ place \in [Dep -> {"none", "clone", "build", "record", "advance", "ship", "cut",
                            "retire", "prune", "pruning"}]
      /\ asked \in [App -> 0..MaxDep] /\ deleting \subseteq App
      /\ todo \in [Pruner -> SUBSET Dep] /\ removed \in [Pruner -> 0..MaxDep]
      /\ sweep \in [phase : {"idle", "apps", "retained", "orphans", "dirs"}, apps : SUBSET App,
                    items : SUBSET Dep, item : 0..MaxDep]
      /\ raced \subseteq Dep
  BY RowsFollow DEF IInv, RetTypeOK
<1>2. Sweep \in Pruner /\ Dep \subseteq Pruner /\ (\A d \in Dep : d \in 0..MaxDep) /\ 0 \in 0..MaxDep
  BY DEF Pruner, Dep
<1>3. \A a : Recorded(a) \subseteq Dep /\ pruneCandidates(a) \subseteq Dep
  BY ImageTypes DEF IInv
<1>4. \A d \in Dep : status[d] # "absent" => owner[d] \in App
  BY DEF IInv, RowsOK, HasNoRow
<1>5. ASSUME NEW a \in App, Deploy(a) \/ DeleteRows(a) PROVE RetTypeOK'
  BY <1>1, <1>5 DEF Deploy, DeleteRows, RetTypeOK, disk, hook
<1>6. ASSUME NEW a \in App, CreateRollback(a) PROVE RetTypeOK'
  <2>1. image[asked[a]] \in Dep /\ asked[a] \in Dep
    BY <1>1, <1>6 DEF CreateRollback, IInv, AskedOK, Dep
  <2>2. raced' \subseteq Dep
    BY <1>1, <1>6, <2>1 DEF CreateRollback
  <2>3. image' \in [Dep -> 0..MaxDep]
    BY <1>1, <1>2, <1>6, <2>1 DEF CreateRollback, Enqueue
  <2> QED
    BY <1>1, <1>2, <1>6, <2>2, <2>3 DEF CreateRollback, RetTypeOK, disk, hook
<1>7. ASSUME NEW a \in App, DeleteImages(a) PROVE RetTypeOK'
  BY <1>1, <1>2, <1>7 DEF DeleteImages, RetTypeOK, hook
<1>8. ASSUME NEW d \in Dep, Rollback(d) \/ Cancel(d) \/ Start(d) PROVE RetTypeOK'
  BY <1>1, <1>2, <1>8 DEF Rollback, Cancel, Start, Goto, RetTypeOK, disk, hook
<1>9. ASSUME NEW d \in Dep, Clone(d) \/ Build(d) \/ SetImage(d) \/ Advance(d) \/ Cut(d)
      PROVE  RetTypeOK'
  BY <1>1, <1>2, <1>9 DEF Clone, Build, SetImage, Advance, Cut, End, Goto, RetTypeOK, disk, hook
<1>10. ASSUME NEW d \in Dep, Ship(d) \/ Fail(d) PROVE RetTypeOK'
  BY <1>1, <1>2, <1>10 DEF Ship, Fail, End, Goto, RetTypeOK, disk, hook
<1>11. ASSUME NEW d \in Dep, SupersedeOthers(d) \/ PruneAfterDeploy(d) \/ PruneDone(d)
       PROVE  RetTypeOK'
  BY <1>1, <1>2, <1>3, <1>11 DEF SupersedeOthers, PruneAfterDeploy, PruneDone, End, Goto, RetTypeOK,
     disk, hook
<1>12. ASSUME NEW p \in Pruner, Prune(p) PROVE RetTypeOK'
  <2>1. CASE MarkImagePruned(p)
    BY <1>1, <1>2, <2>1 DEF MarkImagePruned, RetTypeOK, disk
  <2>2. ASSUME NEW i \in Dep, RemoveImage(p, i) PROVE RetTypeOK'
    BY <1>1, <1>2, <2>2 DEF RemoveImage, RetTypeOK
  <2> QED
    BY <1>12, <2>1, <2>2 DEF Prune
<1>13. ASSUME NEW a \in App, PruneSwept(a) PROVE RetTypeOK'
  BY <1>1, <1>2, <1>3, <1>13 DEF PruneSwept, RetTypeOK, disk
<1>14. CASE SweepStart \/ ListImages \/ RetainedImages \/ ReadWorkDir \/ SweepDone
  <2>1. PICK f \in {"idle", "apps", "retained", "orphans", "dirs"}, A \in SUBSET App,
             I \in SUBSET Dep, i \in 0..MaxDep :
          sweep = [phase |-> f, apps |-> A, items |-> I, item |-> i]
    BY <1>1
  <2>2. /\ UNCHANGED <<rows, image, pruned, disk, place, asked, deleting, hook, raced>>
        /\ \E K : sweep' \in {[sweep EXCEPT !.phase = "apps", !.apps = apps],
                              [sweep EXCEPT !.phase = "retained", !.items = host],
                              [sweep EXCEPT !.phase = "orphans", !.items = @ \ K],
                              [sweep EXCEPT !.phase = "dirs", !.items = work], NoSweep}
    BY <1>14 DEF SweepStart, ListImages, RetainedImages, ReadWorkDir, SweepDone
  <2>3. PICK K : sweep' \in {[phase |-> "apps", apps |-> apps, items |-> I, item |-> i],
                             [phase |-> "retained", apps |-> A, items |-> host, item |-> i],
                             [phase |-> "orphans", apps |-> A, items |-> I \ K, item |-> i],
                             [phase |-> "dirs", apps |-> A, items |-> work, item |-> i],
                             [phase |-> "idle", apps |-> {}, items |-> {}, item |-> 0]}
    BY <2>1, <2>2 DEF NoSweep
  <2>4. sweep' \in [phase : {"idle", "apps", "retained", "orphans", "dirs"}, apps : SUBSET App,
                   items : SUBSET Dep, item : 0..MaxDep]
    BY <1>1, <1>2, <2>3 DEF TypeOK
  <2> QED
    BY <1>1, <2>2, <2>4 DEF RetTypeOK, disk, hook
<1>15. ASSUME NEW i \in Dep, CheckOrphan(i) \/ CheckDir(i) PROVE RetTypeOK'
  <2>1. /\ UNCHANGED <<rows, image, pruned, disk, place, asked, deleting, hook, raced>>
        /\ sweep' = [sweep EXCEPT !.items = @ \ {i}, !.item = IF InFlight(i) THEN 0 ELSE i]
    BY <1>15 DEF CheckOrphan, CheckDir, TakeItem
  <2>2. PICK I \in SUBSET Dep, j \in 0..MaxDep :
          sweep' = [sweep EXCEPT !.items = I, !.item = j]
    BY <1>1, <1>2, <2>1
  <2> QED
    BY <1>1, <2>1, <2>2 DEF RetTypeOK, disk, hook
<1>16. CASE RemoveOrphan \/ RemoveDir
  <2>1. /\ UNCHANGED <<rows, image, pruned, canon, place, asked, deleting, hook, raced>>
        /\ host' \subseteq host /\ work' \subseteq work
        /\ sweep' = [sweep EXCEPT !.item = 0]
    BY <1>16 DEF RemoveOrphan, RemoveDir
  <2> QED
    BY <1>1, <1>2, <2>1 DEF RetTypeOK, hook
<1>17. CASE Crash
  BY <1>1, <1>2, <1>3, <1>17 DEF Crash, NoSweep, RetTypeOK, disk
<1>18. CASE UNCHANGED retVars
  BY <1>1, <1>18 DEF retVars, RetTypeOK, disk, hook
<1> QED
  BY <1>2, <1>5, <1>6, <1>7, <1>8, <1>9, <1>10, <1>11, <1>12, <1>13, <1>14, <1>15, <1>16, <1>17,
     <1>18 DEF RetNext, Pipeline, DailySweep

-----------------------------------------------------------------------------
(* Where the pipelines are. *)

\* A row that moves on its own leaves the places of the others as they are.
LEMMA MoveKeepsPlaces ==
  ASSUME RetTypeOK, PlacesOK, next' = next, NEW d \in Dep, NEW s, NEW x,
         status' = [status EXCEPT ![d] = s], place' = [place EXCEPT ![d] = x],
         d < next, s # "queued" \/ x = "none",
         s = "building" => x \in Working, s = "deploying" => x \in Cutting,
         x \in Working => s \in {"building", "cancelled", "absent"},
         x \in Cutting => s \in {"deploying", "absent"},
         x \in Live => s \in {"running", "superseded", "absent"}
  PROVE  PlacesOK'
BY DEF PlacesOK, RetTypeOK, TypeOK

\* A pipeline is at a place of its row's status, and every active row has one.
LEMMA PlacesStep == IInv /\ [RetNext]_retVars => PlacesOK'
<1> SUFFICES ASSUME IInv, [RetNext]_retVars PROVE PlacesOK'
  OBVIOUS
<1> USE StatusFacts DEF rows, HasNoRow
<1>1. RetTypeOK /\ PlacesOK /\ RowsOK
  BY DEF IInv
<1>2. \A d \in Dep : status[d] # "absent" => d < next
  BY <1>1 DEF RowsOK
<1>3. \A d \in Dep : place[d] # "none" => d < next
  BY <1>1 DEF PlacesOK
<1> USE <1>1
<1>4. ASSUME UNCHANGED <<status, next, place>> PROVE PlacesOK'
  BY <1>4 DEF PlacesOK
<1>5. ASSUME NEW a \in App, Enqueue(a), place' = place PROVE PlacesOK'
  BY <1>2, <1>3, <1>5 DEF Enqueue, PlacesOK, RetTypeOK, TypeOK, Working, Cutting, Live, Dep
<1>6. ASSUME NEW a \in App, Deploy(a) \/ CreateRollback(a) \/ DeleteImages(a) PROVE PlacesOK'
  BY <1>4, <1>5, <1>6 DEF Deploy, CreateRollback, DeleteImages
<1>7. ASSUME NEW a \in App, DeleteRows(a) PROVE PlacesOK'
  <2>1. /\ place' = place /\ next' = next
        /\ status' = [d \in Dep |-> IF owner[d] = a THEN "absent" ELSE status[d]]
    BY <1>7 DEF DeleteRows, DeleteApp
  <2> QED
    BY <2>1 DEF PlacesOK, Working, Cutting, Live
<1>8. ASSUME NEW d \in Dep, Rollback(d) \/ Cancel(d) \/ Start(d) PROVE PlacesOK'
  <2>1. CASE Rollback(d)
    BY <1>4, <2>1 DEF Rollback
  <2>2. CASE Cancel(d)
    <3>1. /\ status[d] \in {"queued", "building"} /\ next' = next
          /\ status' = [status EXCEPT ![d] = "cancelled"] /\ place' = place
      BY <2>2 DEF Cancel, CanCancel, Move
    <3>2. place[d] = "none" \/ place[d] \in Working
      BY <3>1 DEF PlacesOK
    <3> QED
      BY <1>2, <3>1, <3>2 DEF PlacesOK, RetTypeOK, TypeOK, Working, Cutting, Live
  <2>3. CASE Start(d)
    <3>1. PICK x \in {"clone", "advance"} : place' = [place EXCEPT ![d] = x]
      BY <2>3 DEF Start, Goto
    <3>2. /\ status[d] = "queued" /\ status' = [status EXCEPT ![d] = "building"] /\ next' = next
      BY <2>3 DEF Start, Claim
    <3> QED
      BY <1>2, <3>1, <3>2, MoveKeepsPlaces DEF Working, Cutting, Live
  <2> QED
    BY <1>8, <2>1, <2>2, <2>3
<1>9. ASSUME NEW d \in Dep, NEW x, UNCHANGED <<status, next>>, place' = [place EXCEPT ![d] = x],
             \/ place[d] \in Working /\ x \in Working
             \/ place[d] \in Cutting /\ x \in Cutting
             \/ place[d] \in Live /\ (x \in Live \/ x = "none")
             \/ status[d] \in {"failed", "cancelled", "absent"} /\ x = "none"
      PROVE  PlacesOK'
  BY <1>9 DEF PlacesOK, RetTypeOK, Working, Cutting, Live
<1>10. ASSUME NEW d \in Dep, Clone(d) \/ Build(d) \/ SetImage(d) PROVE PlacesOK'
  BY <1>9, <1>10 DEF Clone, Build, SetImage, Goto, Working, Cutting, Live
<1>11. ASSUME NEW d \in Dep, Advance(d) PROVE PlacesOK'
  <2>1. place[d] = "advance" /\ d < next
    BY <1>3, <1>11 DEF Advance
  <2>2. CASE status[d] = "building"
    <3>1. /\ status' = [status EXCEPT ![d] = "deploying"] /\ place' = [place EXCEPT ![d] = "ship"]
          /\ next' = next
      BY <1>11, <2>2 DEF Advance, SetStatus, Move, Goto
    <3> QED
      BY <2>1, <3>1, MoveKeepsPlaces DEF Working, Cutting, Live
  <2>3. CASE status[d] # "building"
    <3>1. UNCHANGED <<status, next>> /\ place' = [place EXCEPT ![d] = "none"]
      BY <1>11, <2>3 DEF Advance, SetStatus, End, Goto
    <3>2. status[d] \in {"cancelled", "absent"}
      BY <2>1, <2>3 DEF PlacesOK, Working
    <3> QED
      BY <3>1, <3>2, <1>9
  <2> QED
    BY <2>2, <2>3
<1>12. ASSUME NEW d \in Dep, Cut(d) PROVE PlacesOK'
  BY <1>9, <1>12 DEF Cut, Goto, Cutting
<1>13. ASSUME NEW d \in Dep, Ship(d) PROVE PlacesOK'
  <2>1. /\ place[d] = "cut" /\ next' = next
        /\ status' = [status EXCEPT ![d] = "running"] /\ place' = [place EXCEPT ![d] = "retire"]
    BY <1>13 DEF Ship, Goto, Move
  <2> QED
    BY <1>3, <2>1, MoveKeepsPlaces DEF Working, Cutting, Live
<1>14. ASSUME NEW d \in Dep, Fail(d) PROVE PlacesOK'
  <2>1. place[d] \in Working \cup Cutting /\ d < next /\ place' = [place EXCEPT ![d] = "none"]
    BY <1>3, <1>14 DEF Fail, End, Goto, Working, Cutting
  <2>2. \/ status' = [status EXCEPT ![d] = "failed"] /\ next' = next
        \/ UNCHANGED <<status, next>> /\ status[d] \in {"cancelled", "absent"}
    <3>1. place[d] \in {"ship", "cut"} => status[d] \in {"deploying", "absent"}
      BY DEF PlacesOK, Cutting
    <3>2. place[d] \in {"clone", "build", "record"} => status[d] \in {"building", "cancelled", "absent"}
      BY DEF PlacesOK, Working
    <3> QED
      BY <1>14, <3>1, <3>2 DEF Fail, SetStatus, Move
  <2> QED
    BY <1>9, <2>1, <2>2, MoveKeepsPlaces DEF Working, Cutting, Live
<1>15. ASSUME NEW d \in Dep, SupersedeOthers(d) PROVE PlacesOK'
  <2>1. place[d] = "retire" /\ place' = [place EXCEPT ![d] = "prune"] /\ next' = next
    BY <1>15 DEF SupersedeOthers, Retire, Goto
  <2>2. \A e \in Dep : status'[e] = status[e] \/ (status[e] = "running" /\ status'[e] = "superseded")
    BY <1>15 DEF SupersedeOthers, Retire
  <2> QED
    BY <2>1, <2>2 DEF PlacesOK, RetTypeOK, Working, Cutting, Live
<1>16. ASSUME NEW d \in Dep, PruneAfterDeploy(d) \/ PruneDone(d) PROVE PlacesOK'
  BY <1>9, <1>16 DEF PruneAfterDeploy, PruneDone, End, Goto, Live
<1>17. ASSUME NEW p, Prune(p) PROVE PlacesOK'
  BY <1>4, <1>17 DEF Prune, MarkImagePruned, RemoveImage
<1>18. CASE DailySweep
  BY <1>4, <1>17, <1>18 DEF DailySweep, SweepStart, ListImages, RetainedImages, RemoveOrphan,
     ReadWorkDir, RemoveDir, SweepDone, PruneSwept, CheckOrphan, CheckDir, TakeItem
<1>19. CASE Crash
  <2>1. /\ place' = [d \in Dep |-> "none"]
        /\ status' = [d \in Dep |-> IF IsActive(status[d]) THEN "failed" ELSE status[d]]
    BY <1>19 DEF Crash, Recover
  <2> QED
    BY <2>1 DEF PlacesOK, Working, Cutting, Live
<1>20. CASE UNCHANGED retVars
  BY <1>4, <1>20 DEF retVars
<1> QED
  BY <1>6, <1>7, <1>8, <1>10, <1>11, <1>12, <1>13, <1>14, <1>15, <1>16, <1>17, <1>18, <1>19, <1>20
  DEF RetNext, Pipeline

-----------------------------------------------------------------------------
(* Which images the rows bear. *)

\* The places before an attempt bears its image, and from there on.
Unbuilt == {"clone", "build", "record"}
Built   == {"advance", "ship", "cut"}

\* A step that leaves the images alone, and takes pipelines and rows where they may be.
LEMMA SameImages ==
  ASSUME IInv, TypeOK', Follows, image' = image,
         \A d \in Dep : pruned'[d] => pruned[d] \/ image[d] # 0,
         \A d \in Dep : status'[d] = "queued" => status[d] = "queued" \/ d = next,
         \A d \in Dep : place'[d] \in Unbuilt => image[d] = 0,
         \A d \in Dep : place'[d] \in Built \/ status'[d] = "running" =>
                          image[d] # 0 \/ HasNoRow(d)'
  PROVE  ImagesOK'
<1> SUFFICES ASSUME NEW d \in Dep
             PROVE  /\ d >= next' => image[d] = 0 /\ ~pruned'[d]
                    /\ image[d] # 0 => /\ image[d] <= d /\ image[image[d]] = image[d]
                                       /\ owner'[image[d]] = owner'[d]
                    /\ status'[d] = "queued" => image[d] # d
  BY DEF ImagesOK, Unbuilt, Built
<1>1. next \in Nat /\ next' \in Nat /\ next' >= next /\ d \in Nat \ {0}
  BY DEF IInv, RetTypeOK, TypeOK, Follows, Dep
<1>2. d >= next => image[d] = 0 /\ ~pruned[d]
  BY DEF IInv, ImagesOK
<1>3. d >= next' => d >= next
  BY <1>1
<1>4. ASSUME image[d] # 0
      PROVE  image[d] <= d /\ image[image[d]] = image[d] /\ owner'[image[d]] = owner'[d]
  <2>1. d < next /\ image[d] <= d /\ image[image[d]] = image[d] /\ owner[image[d]] = owner[d]
    BY <1>1, <1>2, <1>4 DEF IInv, ImagesOK
  <2>2. image[d] \in Dep /\ image[d] < next
    BY <1>1, <1>4, <2>1 DEF IInv, RetTypeOK, Dep
  <2> QED
    BY <2>1, <2>2 DEF Follows
<1>5. status'[d] = "queued" => image[d] # d
  BY <1>1, <1>2 DEF IInv, ImagesOK
<1> QED
  BY <1>2, <1>3, <1>4, <1>5

\* An image is named by the attempt that built it, and once borne stays so.
LEMMA ImagesStep == IInv /\ [RetNext]_retVars => ImagesOK'
<1> SUFFICES ASSUME IInv, [RetNext]_retVars PROVE ImagesOK'
  OBVIOUS
<1> USE StatusFacts DEF rows, HasNoRow
<1>1. RetTypeOK /\ PlacesOK /\ RowsOK /\ ImagesOK /\ Follows /\ TypeOK'
  BY RowsFollow DEF IInv
<1>91. /\ status \in [Dep -> Status \cup {"absent"}] /\ owner \in [Dep -> App \cup {NoApp}]
      /\ image \in [Dep -> 0..MaxDep] /\ Dep \subseteq Nat \ {0}
  BY <1>1 DEF RetTypeOK, TypeOK, Dep
<1>92. \A d \in Dep : status[d] # "absent" => owner[d] \in App /\ d < next
  BY <1>1 DEF RowsOK
<1>2. /\ \A d \in Dep : place[d] \in Unbuilt => image[d] = 0
      /\ \A d \in Dep : place[d] \in Built \/ status[d] = "running" => image[d] # 0 \/ status[d] = "absent"
      /\ \A d \in Dep : status[d] = "absent" /\ d < next => status'[d] = "absent"
      /\ \A d \in Dep : place[d] # "none" => d < next
  BY <1>1 DEF ImagesOK, Unbuilt, Built, Follows, PlacesOK
<1> USE <1>1
<1>3. ASSUME UNCHANGED <<image, pruned, place>>,
             \A d \in Dep : d # next => status'[d] \in {status[d], "cancelled", "failed", "absent", "superseded"},
             \A d \in Dep : d = next => status'[d] \in {status[d], "queued"}
      PROVE  ImagesOK'
  <2>1. \A d \in Dep : status'[d] = "running" => status[d] = "running"
    BY <1>3
  <2>2. \A d \in Dep : status'[d] = "queued" => status[d] = "queued" \/ d = next
    BY <1>3
  <2>3. \A d \in Dep : place'[d] \in Built => image[d] # 0 \/ status'[d] = "absent"
    BY <1>2, <1>3 DEF Built
  <2>4. \A d \in Dep : status'[d] = "running" => image[d] # 0
    BY <1>2, <2>1
  <2>5. \A d \in Dep : place'[d] \in Unbuilt => image[d] = 0
    BY <1>2, <1>3
  <2> QED
    BY <1>3, <2>2, <2>3, <2>4, <2>5, SameImages
<1>4. ASSUME UNCHANGED <<image, pruned, place, status>> PROVE ImagesOK'
  BY <1>3, <1>4
<1>5. ASSUME NEW a \in App, Deploy(a) PROVE ImagesOK'
  BY <1>3, <1>5 DEF Deploy, Enqueue, RetTypeOK, TypeOK
<1>6. ASSUME NEW a \in App, CreateRollback(a) PROVE ImagesOK'
  <2>1. CASE image' = image
    <3>1. /\ UNCHANGED <<pruned, place>>
          /\ \/ status' = status
             \/ status' = [status EXCEPT ![next] = "queued"]
      BY <1>6 DEF CreateRollback, Enqueue
    <3> QED
      BY <1>3, <2>1, <3>1 DEF RetTypeOK, TypeOK
  <2>2. CASE image' # image
    <3>1. PICK s, i : s = asked[a] /\ i = image[s]
      OBVIOUS
    <3>2. s \in Dep /\ s < next /\ owner[s] = a /\ i # 0
      BY <1>6, <3>1 DEF CreateRollback, IInv, AskedOK, RetTypeOK, Dep
    <3>3. i \in Dep /\ i <= s /\ image[i] = i /\ owner[i] = a
      BY <3>1, <3>2 DEF ImagesOK, RetTypeOK, Dep
    <3>4. /\ next \in Dep /\ next' = next + 1 /\ owner' = [owner EXCEPT ![next] = a]
          /\ status' = [status EXCEPT ![next] = "queued"] /\ image' = [image EXCEPT ![next] = i]
          /\ UNCHANGED <<pruned, place>>
      BY <1>6, <2>2, <3>1 DEF CreateRollback, Enqueue
    <3>5. ASSUME NEW d \in Dep, d # next
          PROVE  image'[d] = image[d] /\ owner'[d] = owner[d] /\ status'[d] = status[d]
      BY <3>4, <3>5, <1>91
    <3>6. image'[next] = i /\ owner'[next] = a /\ status'[next] = "queued"
      BY <3>4, <1>91
    <3>7. i < next /\ next \in Nat
      BY <3>2, <3>3, <3>4 DEF Dep
    <3>8. ASSUME NEW d \in Dep, d # next, image[d] # 0
          PROVE  image[d] \in Dep /\ image[d] # next /\ image[d] <= d /\ owner[image[d]] = owner[d]
                 /\ image[image[d]] = image[d]
      BY <3>7, <3>8 DEF ImagesOK, RetTypeOK, Dep
    <3>9. ASSUME NEW d \in Dep, d # next
          PROVE  /\ d >= next' => image'[d] = 0 /\ ~pruned'[d]
                 /\ image'[d] # 0 => /\ image'[d] <= d /\ image'[image'[d]] = image'[d]
                                     /\ owner'[image'[d]] = owner'[d]
                 /\ status'[d] = "queued" => image'[d] # d
                 /\ place'[d] \in {"clone", "build", "record"} => image'[d] = 0
                 /\ place'[d] \in {"advance", "ship", "cut"} \/ status'[d] = "running" =>
                      image'[d] # 0 \/ status'[d] = "absent"
      BY <3>4, <3>5, <3>7, <3>8, <3>9 DEF ImagesOK, Dep
    <3>10. /\ ~(next >= next') /\ i <= next /\ image'[i] = i /\ owner'[i] = a /\ i # next
           /\ place'[next] = "none"
      BY <3>3, <3>4, <3>5, <3>7, <1>2 DEF PlacesOK, RetTypeOK, Dep
    <3> QED
      BY <3>6, <3>9, <3>10 DEF ImagesOK
  <2> QED
    BY <2>1, <2>2
<1>7. ASSUME NEW a \in App, DeleteImages(a) \/ DeleteRows(a) PROVE ImagesOK'
  <2>1. next \in Dep => status[next] = "absent"
    BY <1>1 DEF RowsOK, RetTypeOK, TypeOK, Dep
  <2>2. CASE DeleteRows(a)
    <3>1. /\ status' = [d \in Dep |-> IF owner[d] = a THEN "absent" ELSE status[d]]
          /\ UNCHANGED <<image, pruned, place>>
      BY <2>2 DEF DeleteRows, DeleteApp
    <3>2. \A d \in Dep : status'[d] \in {status[d], "absent"}
      BY <3>1
    <3> QED
      BY <1>3, <2>1, <3>1, <3>2
  <2> QED
    BY <1>4, <1>7, <2>2 DEF DeleteImages
<1>8. ASSUME NEW d \in Dep, Rollback(d) \/ Cancel(d) PROVE ImagesOK'
  BY <1>91, <1>92, <1>3, <1>4, <1>8 DEF Rollback, Cancel, CanCancel, Move
<1>9. ASSUME UNCHANGED <<image, pruned>>, NEW d \in Dep, NEW x,
             place' = [place EXCEPT ![d] = x],
             x \in Unbuilt => image[d] = 0,
             x \in Built => image[d] # 0 \/ status'[d] = "absent",
             \A e \in Dep : status'[e] = "queued" => status[e] = "queued",
             \A e \in Dep : status'[e] = "running" => status[e] = "running" \/ image[e] # 0
      PROVE  ImagesOK'
  <2>1. \A e \in Dep : place'[e] \in Unbuilt => image[e] = 0
    BY <1>2, <1>9 DEF RetTypeOK
  <2>2. \A e \in Dep : place'[e] \in Built => image[e] # 0 \/ status'[e] = "absent"
    BY <1>2, <1>9 DEF RetTypeOK, Built
  <2>3. \A e \in Dep : status'[e] = "running" => image[e] # 0
    BY <1>2, <1>9
  <2> QED
    BY <1>9, <2>1, <2>2, <2>3, SameImages
<1>10. ASSUME NEW d \in Dep, Start(d) PROVE ImagesOK'
  BY <1>9, <1>10 DEF Start, Goto, Claim, Unbuilt, Built, RetTypeOK, TypeOK
<1>11. ASSUME NEW d \in Dep, Clone(d) \/ Build(d) PROVE ImagesOK'
  BY <1>2, <1>9, <1>11 DEF Clone, Build, Goto, Unbuilt, Built
<1>12. ASSUME NEW d \in Dep, SetImage(d) PROVE ImagesOK'
  <2>1. /\ place[d] = "record" /\ place' = [place EXCEPT ![d] = "advance"] /\ pruned' = pruned
        /\ status' = status /\ owner' = owner /\ next' = next
        /\ image' = IF status[d] = "absent" THEN image ELSE [image EXCEPT ![d] = d]
    BY <1>12 DEF SetImage, Goto
  <2>2. CASE status[d] = "absent"
    BY <1>9, <2>1, <2>2 DEF Unbuilt, Built
  <2>3. CASE status[d] # "absent"
    <3>1. image' = [image EXCEPT ![d] = d] /\ image[d] = 0 /\ d < next /\ status[d] # "queued"
      BY <1>2, <2>1, <2>3 DEF Unbuilt, PlacesOK
    <3>2. \A e \in Dep : image[e] # 0 => image[e] \in Dep /\ image[image[e]] = image[e]
      BY <1>91 DEF ImagesOK, Dep
    <3>3. \A e \in Dep : image[e] # d
      BY <1>91, <3>1, <3>2
    <3>4. image'[d] = d /\ \A e \in Dep : e # d => image'[e] = image[e]
      BY <1>91, <3>1
    <3>5. place'[d] = "advance" /\ \A e \in Dep : e # d => place'[e] = place[e]
      BY <2>1 DEF RetTypeOK
    <3>6. ASSUME NEW e \in Dep, e # d
          PROVE  image'[e] # 0 => /\ image'[e] <= e /\ image'[image'[e]] = image'[e]
                                  /\ owner[image'[e]] = owner[e]
      BY <3>2, <3>3, <3>4, <3>6 DEF ImagesOK
    <3>7. ASSUME NEW e \in Dep, e # d
          PROVE  /\ e >= next => image'[e] = 0 /\ ~pruned[e]
                 /\ status[e] = "queued" => image'[e] # e
                 /\ place'[e] \in {"clone", "build", "record"} => image'[e] = 0
                 /\ place'[e] \in {"advance", "ship", "cut"} \/ status[e] = "running" =>
                      image'[e] # 0 \/ status[e] = "absent"
      BY <3>4, <3>5, <3>7 DEF ImagesOK
    <3>8. d < next /\ d # 0 /\ d \in Nat /\ next \in Nat
      BY <1>91, <3>1 DEF RetTypeOK, TypeOK
    <3> QED
      BY <2>1, <3>1, <3>4, <3>5, <3>6, <3>7, <3>8 DEF ImagesOK
  <2> QED
    BY <2>2, <2>3
<1>13. ASSUME NEW d \in Dep, Advance(d) \/ Cut(d) \/ Ship(d) PROVE ImagesOK'
  <2>1. place[d] \in Built /\ (place' = [place EXCEPT ![d] = "ship"] \/ place' = [place EXCEPT ![d] = "none"]
          \/ place' = [place EXCEPT ![d] = "cut"] \/ place' = [place EXCEPT ![d] = "retire"])
    BY <1>13 DEF Advance, Cut, Ship, Goto, End, Built
  <2>2. image[d] # 0 \/ status'[d] = "absent"
    BY <1>2, <2>1 DEF Built
  <2>3. /\ UNCHANGED <<image, pruned>>
        /\ \/ status' = status
           \/ status' = [status EXCEPT ![d] = "deploying"]
           \/ status' = [status EXCEPT ![d] = "running"]
    BY <1>13 DEF Advance, Cut, Ship, SetStatus, Move
  <2>4. \A e \in Dep : /\ status'[e] = "queued" => status[e] = "queued"
                       /\ status'[e] = "running" => status[e] = "running" \/ e = d
    BY <2>3 DEF RetTypeOK, TypeOK
  <2>5. \A e \in Dep : status'[e] = "running" => status[e] = "running" \/ image[e] # 0
    BY <2>2, <2>4
  <2> QED
    BY <1>9, <2>1, <2>2, <2>3, <2>4, <2>5 DEF Unbuilt
<1>14. ASSUME NEW d \in Dep, Fail(d) \/ SupersedeOthers(d) \/ PruneAfterDeploy(d) \/ PruneDone(d)
       PROVE  ImagesOK'
  <2>1. \/ place' = [place EXCEPT ![d] = "none"] \/ place' = [place EXCEPT ![d] = "prune"]
        \/ place' = [place EXCEPT ![d] = "pruning"]
    BY <1>14 DEF Fail, SupersedeOthers, PruneAfterDeploy, PruneDone, Goto, End
  <2>2. /\ UNCHANGED <<image, pruned>>
        /\ \/ status' = status
           \/ status' = [status EXCEPT ![d] = "failed"]
           \/ Retire(d)
    BY <1>14 DEF Fail, SupersedeOthers, PruneAfterDeploy, PruneDone, SetStatus, Move
  <2>3. \A e \in Dep : /\ status'[e] = "queued" => status[e] = "queued"
                       /\ status'[e] = "running" => status[e] = "running"
    BY <2>2 DEF Retire, RetTypeOK, TypeOK
  <2> QED
    BY <1>9, <2>1, <2>2, <2>3 DEF Unbuilt, Built
<1>15. ASSUME NEW p, Prune(p) PROVE ImagesOK'
  <2>1. CASE MarkImagePruned(p)
    <3>1. /\ pruned' = [d \in Dep |-> pruned[d] \/ (status[d] # "absent" /\ image[d] = removed[p])]
          /\ removed[p] # 0 /\ UNCHANGED <<rows, image, place>>
      BY <2>1 DEF MarkImagePruned
    <3>2. \A d \in Dep : pruned'[d] => pruned[d] \/ image[d] # 0
      BY <3>1
    <3> QED
      BY <1>2, <3>1, <3>2, SameImages
  <2>2. ASSUME NEW i \in Dep, RemoveImage(p, i) PROVE ImagesOK'
    BY <1>4, <2>2 DEF RemoveImage
  <2> QED
    BY <1>15, <2>1, <2>2 DEF Prune
<1>16. CASE DailySweep
  BY <1>4, <1>15, <1>16 DEF DailySweep, SweepStart, ListImages, RetainedImages, RemoveOrphan,
     ReadWorkDir, RemoveDir, SweepDone, PruneSwept, CheckOrphan, CheckDir, TakeItem
<1>17. CASE Crash
  <2>1. /\ place' = [d \in Dep |-> "none"] /\ UNCHANGED <<image, pruned>>
        /\ status' = [d \in Dep |-> IF IsActive(status[d]) THEN "failed" ELSE status[d]]
    BY <1>17 DEF Crash, Recover
  <2> QED
    BY <1>2, <2>1, SameImages DEF Unbuilt, Built
<1>18. CASE UNCHANGED retVars
  BY <1>4, <1>18 DEF retVars
<1> QED
  BY <1>5, <1>6, <1>7, <1>8, <1>10, <1>11, <1>12, <1>13, <1>14, <1>15, <1>16, <1>17, <1>18
  DEF RetNext, Pipeline

-----------------------------------------------------------------------------
(* What else a step never takes back. *)

\* A row that comes to bear an image a pruner has in hand is on record.
Bearing ==
  /\ raced \subseteq raced'
  /\ \A d \in Dep : \/ image'[d] = image[d]
                    \/ /\ image[d] = 0 /\ image'[d] # 0
                       /\ Held(image'[d]) => image'[d] \in raced'

\* An image is given to a row once, and never unnoticed.
LEMMA ImagesFollow ==
  ASSUME IInv, [RetNext]_retVars
  PROVE  Bearing
<1>1. /\ image \in [Dep -> 0..MaxDep] /\ Dep \subseteq Nat \ {0}
      /\ \A d \in Dep : d >= next => image[d] = 0
  BY DEF IInv, RetTypeOK, ImagesOK, Dep
<1>2. CASE image' = image /\ raced' = raced
  BY <1>2 DEF Bearing
<1>3. ASSUME NEW a \in App, CreateRollback(a) PROVE Bearing
  <2>1. CASE a \notin apps /\ UNCHANGED <<image, raced>>
    BY <1>2, <2>1
  <2>2. CASE ~(a \notin apps /\ UNCHANGED <<image, raced>>)
    <3>1. PICK i : i = image[asked[a]]
      OBVIOUS
    <3>2. /\ next \in Dep /\ image' = [image EXCEPT ![next] = i]
          /\ raced' = IF Held(i) \/ i \notin host THEN raced \cup {i} ELSE raced
      BY <1>3, <2>2, <3>1 DEF CreateRollback, Enqueue
    <3>3. i # 0
      BY <1>3, <3>1 DEF CreateRollback, IInv, AskedOK
    <3>4. image[next] = 0
      BY <1>1, <3>2
    <3>5. \A d \in Dep : image'[d] = IF d = next THEN i ELSE image[d]
      BY <1>1, <3>2
    <3> QED
      BY <3>2, <3>3, <3>4, <3>5 DEF Bearing
  <2> QED
    BY <2>1, <2>2
<1>4. ASSUME NEW d \in Dep, SetImage(d) PROVE Bearing
  <2>1. /\ image' = IF status[d] = "absent" THEN image ELSE [image EXCEPT ![d] = d]
        /\ raced' = IF Held(d) THEN raced \cup {d} ELSE raced
        /\ image[d] = 0
    BY <1>4 DEF SetImage, IInv, ImagesOK
  <2> QED
    BY <1>1, <2>1 DEF Bearing
<1>5. CASE Crash
  BY <1>5 DEF Crash, Bearing
<1>6. ASSUME NEW d \in Dep, Pipeline(d), ~SetImage(d) PROVE Bearing
  BY <1>2, <1>6 DEF Pipeline, Clone, Build, Advance, Cut, Ship, Fail, SupersedeOthers,
     PruneAfterDeploy, PruneDone
<1>7. ASSUME NEW p, Prune(p) PROVE Bearing
  BY <1>2, <1>7 DEF Prune, MarkImagePruned, RemoveImage
<1>8. CASE DailySweep
  BY <1>2, <1>7, <1>8 DEF DailySweep, SweepStart, ListImages, RetainedImages, RemoveOrphan,
     ReadWorkDir, RemoveDir, SweepDone, PruneSwept, CheckOrphan, CheckDir, TakeItem
<1>9. ASSUME NEW a \in App, Deploy(a) \/ DeleteImages(a) \/ DeleteRows(a) PROVE Bearing
  BY <1>2, <1>9 DEF Deploy, DeleteImages, DeleteRows
<1>10. ASSUME NEW d \in Dep, Rollback(d) \/ Cancel(d) \/ Start(d) PROVE Bearing
  BY <1>2, <1>10 DEF Rollback, Cancel, Start
<1>11. CASE UNCHANGED retVars
  BY <1>2, <1>11 DEF retVars
<1> QED
  BY <1>3, <1>4, <1>5, <1>6, <1>7, <1>8, <1>9, <1>10, <1>11 DEF RetNext

\* What a rollback's handler has read stays as it was read.
LEMMA AskedStep == IInv /\ [RetNext]_retVars => AskedOK'
<1> SUFFICES ASSUME IInv, [RetNext]_retVars PROVE AskedOK'
  OBVIOUS
<1>1. Follows /\ Bearing /\ RetTypeOK /\ AskedOK /\ TypeOK' /\ RetTypeOK'
  BY RowsFollow, ImagesFollow, TypeStep DEF IInv
<1>2. ASSUME NEW a \in App, asked'[a] # 0, asked'[a] < next, owner[asked'[a]] = a, image[asked'[a]] # 0
      PROVE  asked'[a] < next' /\ owner'[asked'[a]] = a /\ image'[asked'[a]] # 0
  <2>1. asked'[a] \in Dep /\ next' \in Nat /\ next \in Nat
    BY <1>1, <1>2 DEF RetTypeOK, TypeOK, Dep
  <2> QED
    <3>1. next <= next' /\ owner'[asked'[a]] = owner[asked'[a]]
      BY <1>1, <1>2, <2>1 DEF Follows
    <3>2. image'[asked'[a]] = image[asked'[a]]
      BY <1>1, <1>2, <2>1 DEF Bearing
    <3>3. asked'[a] \in Nat
      BY <2>1 DEF Dep
    <3> QED
      BY <1>2, <2>1, <3>1, <3>2, <3>3
<1>3. ASSUME \A a \in App : asked'[a] # asked[a] /\ asked'[a] # 0 =>
               asked'[a] < next /\ owner[asked'[a]] = a /\ image[asked'[a]] # 0
      PROVE  AskedOK'
  BY <1>1, <1>2, <1>3 DEF AskedOK
<1>4. ASSUME asked' = asked PROVE AskedOK'
  BY <1>3, <1>4
<1>5. ASSUME NEW a \in App, CreateRollback(a) PROVE AskedOK'
  BY <1>1, <1>3, <1>5 DEF CreateRollback, RetTypeOK
<1>6. ASSUME NEW d \in Dep, Rollback(d) PROVE AskedOK'
  <2>1. asked' = [asked EXCEPT ![owner[d]] = d] /\ image[d] # 0 /\ d < next
    BY <1>6 DEF Rollback, IInv, RowsOK, HasNoRow
  <2> QED
    BY <1>1, <1>3, <2>1 DEF RetTypeOK
<1>7. CASE Crash
  BY <1>3, <1>7 DEF Crash
<1>8. ASSUME NEW d \in Dep, Pipeline(d) PROVE AskedOK'
  BY <1>4, <1>8 DEF Pipeline, Clone, Build, SetImage, Advance, Cut, Ship, Fail, SupersedeOthers,
     PruneAfterDeploy, PruneDone
<1>9. ASSUME NEW p, Prune(p) PROVE AskedOK'
  BY <1>4, <1>9 DEF Prune, MarkImagePruned, RemoveImage
<1>10. CASE DailySweep
  BY <1>4, <1>9, <1>10 DEF DailySweep, SweepStart, ListImages, RetainedImages, RemoveOrphan,
     ReadWorkDir, RemoveDir, SweepDone, PruneSwept, CheckOrphan, CheckDir, TakeItem
<1>11. ASSUME NEW a \in App, Deploy(a) \/ DeleteImages(a) \/ DeleteRows(a) PROVE AskedOK'
  BY <1>4, <1>11 DEF Deploy, DeleteImages, DeleteRows
<1>12. ASSUME NEW d \in Dep, Cancel(d) \/ Start(d) PROVE AskedOK'
  BY <1>4, <1>12 DEF Cancel, Start
<1>13. CASE UNCHANGED retVars
  BY <1>4, <1>13 DEF retVars
<1> QED
  BY <1>5, <1>6, <1>7, <1>8, <1>9, <1>10, <1>11, <1>12, <1>13 DEF RetNext

\* A step adds to the host and to the checkouts what its pipeline is about, at most.
Building ==
  /\ \A i \in host' \ host : i \in Dep /\ place[i] = "build"
  /\ \A i \in work' \ work : i \in Dep /\ place[i] = "clone"

\* Nobody else adds anything there.
LEMMA HostFollows == [RetNext]_retVars => Building
<1> SUFFICES ASSUME [RetNext]_retVars PROVE Building
  OBVIOUS
<1>1. ASSUME host' \subseteq host, work' \subseteq work PROVE Building
  BY <1>1 DEF Building
<1>2. ASSUME NEW d \in Dep, Pipeline(d) PROVE Building
  <2>1. CASE Clone(d)
    BY <2>1 DEF Clone, Building
  <2>2. CASE Build(d)
    BY <2>2 DEF Build, Building
  <2> QED
    BY <1>1, <1>2, <2>1, <2>2 DEF Pipeline, SetImage, Advance, Cut, Ship, Fail, SupersedeOthers,
       PruneAfterDeploy, PruneDone, End, disk
<1>3. ASSUME NEW p, Prune(p) PROVE Building
  BY <1>1, <1>3 DEF Prune, MarkImagePruned, RemoveImage, disk
<1>4. CASE DailySweep
  BY <1>1, <1>3, <1>4 DEF DailySweep, SweepStart, ListImages, RetainedImages, RemoveOrphan,
     ReadWorkDir, RemoveDir, SweepDone, PruneSwept, CheckOrphan, CheckDir, TakeItem, disk
<1>5. ASSUME NEW a \in App, Deploy(a) \/ CreateRollback(a) \/ DeleteImages(a) \/ DeleteRows(a)
      PROVE  Building
  BY <1>1, <1>5 DEF Deploy, CreateRollback, DeleteImages, DeleteRows, disk
<1>6. ASSUME NEW d \in Dep, Rollback(d) \/ Cancel(d) \/ Start(d) PROVE Building
  BY <1>1, <1>6 DEF Rollback, Cancel, Start, disk
<1>7. CASE Crash \/ UNCHANGED retVars
  BY <1>1, <1>7 DEF Crash, retVars, disk
<1> QED
  BY <1>2, <1>3, <1>4, <1>5, <1>6, <1>7 DEF RetNext

\* Images and checkouts stay those of attempts there were.
LEMMA HostStep == IInv /\ [RetNext]_retVars => HostOK'
<1> SUFFICES ASSUME IInv, [RetNext]_retVars PROVE HostOK'
  OBVIOUS
<1>1. Follows /\ Building /\ RetTypeOK /\ TypeOK'
  BY RowsFollow, HostFollows DEF IInv
<1>2. ASSUME NEW i \in host' \cup work' PROVE i < next /\ i \in Dep
  <2>1. CASE i \in host \cup work
    BY <2>1 DEF IInv, HostOK, RetTypeOK
  <2>2. CASE i \notin host \cup work
    BY <1>1, <1>2, <2>2 DEF Building, IInv, PlacesOK
  <2> QED
    BY <2>1, <2>2
<1>3. next \in Nat /\ next' \in Nat /\ Dep \subseteq Nat
  BY <1>1 DEF RetTypeOK, TypeOK, Dep
<1> QED
  <2>1. next <= next'
    BY <1>1 DEF Follows
  <2>2. ASSUME NEW i \in host' \cup work' PROVE i < next'
    <3>1. i < next /\ i \in Nat
      BY <1>2, <1>3
    <3> QED
      BY <1>3, <2>1, <3>1
  <2> QED
    BY <2>2 DEF HostOK

-----------------------------------------------------------------------------
(* What a pruner has in hand. *)

\* An image nobody needs stays so while it is in hand.
LEMMA ForsakenKept ==
  ASSUME IInv, [RetNext]_retVars, NEW i \in Dep, Forsaken(i), Held(i)
  PROVE  Forsaken(i)'
<1> SUFFICES ASSUME NEW d \in Dep, image'[d] = i, Needs(d)' PROVE i \in raced'
  BY DEF Forsaken
<1>1. Follows /\ Bearing
  BY RowsFollow, ImagesFollow
<1>2. CASE image[d] = i
  <2>1. d < next
    BY <1>2 DEF IInv, ImagesOK, RetTypeOK, TypeOK, Dep
  <2>2. Needs(d)
    BY <1>1, <2>1 DEF Follows
  <2> QED
    BY <1>1, <1>2, <2>2 DEF Forsaken, Bearing
<1>3. CASE image[d] # i
  BY <1>1, <1>3 DEF Bearing
<1> QED
  BY <1>2, <1>3

\* What a prune takes of an app is nobody's.
LEMMA CandidatesForsaken ==
  ASSUME IInv, NEW a \in App, NEW i \in pruneCandidates(a)
  PROVE  i \in Dep /\ image[i] = i /\ Settled(i) /\ Forsaken(i)
<1> USE StatusFacts DEF HasNoRow
<1>1. /\ \A d \in Dep : image[d] # 0 => /\ image[d] \in Dep /\ image[image[d]] = image[d]
                                        /\ owner[image[d]] = owner[d]
      /\ status \in [Dep -> Status \cup {"absent"}] /\ Dep \subseteq Nat \ {0}
      /\ image \in [Dep -> 0..MaxDep]
  BY DEF IInv, ImagesOK, RetTypeOK, TypeOK, Dep
<1>2. /\ i \in Recorded(a)
      /\ \A d \in Bearers(a) : image[d] = i => /\ IsTerminal(status[d])
                                               /\ status[d] = "running" =>
                                                    \E e \in Bearers(a) : status[e] = "running" /\ ~(e <= d)
  BY DEF pruneCandidates, Protected
<1>3. PICK b \in Dep : owner[b] = a /\ image[b] = i /\ i # 0
  BY <1>2 DEF Recorded, Bearers, Rows
<1>4. i \in Dep /\ image[i] = i /\ owner[i] = a
  BY <1>1, <1>3
<1>5. \A d \in Dep : image[d] = i => owner[d] = a
  BY <1>1, <1>4
<1>6. \A d \in Dep : image[d] = i /\ ~pruned[d] /\ status[d] # "absent" => d \in Bearers(a)
  BY <1>1, <1>4, <1>5 DEF Bearers, Rows
<1>7. Settled(i)
  BY <1>2, <1>4, <1>6 DEF Settled, IInv, PrunedOK
<1>8. ASSUME NEW d \in Dep, image[d] = i, Needs(d) PROVE i \in raced
  <2>1. CASE pruned[d]
    BY <1>8, <2>1 DEF IInv, PrunedOK
  <2>2. CASE ~pruned[d]
    <3>1. status[d] # "absent"
      BY <1>8 DEF Needs, Unsettled, LastLive
    <3>2. d \in Bearers(a)
      BY <1>6, <1>8, <2>2, <3>1
    <3>3. LastLive(d)
      BY <1>2, <1>8, <3>2 DEF Needs, Unsettled
    <3>4. PICK e \in Bearers(a) : status[e] = "running" /\ ~(e <= d)
      BY <1>2, <1>8, <3>2, <3>3 DEF LastLive
    <3>5. e \in Rows(owner[d]) /\ e > d
      BY <1>1, <1>5, <1>8, <3>4 DEF Bearers, Rows
    <3> QED
      BY <3>3, <3>4, <3>5 DEF LastLive
  <2> QED
    BY <2>1, <2>2
<1> QED
  BY <1>4, <1>7, <1>8 DEF Forsaken

\* What is in hand stays what it is.
LEMMA HandsKept ==
  ASSUME IInv, [RetNext]_retVars, NEW p \in Pruner, NEW i \in InHand(p)
  PROVE  i \in Dep /\ image'[i] = i /\ Settled(i)' /\ Forsaken(i)'
<1>1. i \in Dep /\ image[i] = i /\ Settled(i) /\ Forsaken(i)
  BY DEF IInv, RetTypeOK, HandsOK, InHand, Dep
<1>2. Held(i)
  BY DEF Held, InHand
<1>3. Follows /\ Bearing
  BY RowsFollow, ImagesFollow
<1>4. i < next /\ i # 0
  BY <1>1 DEF IInv, ImagesOK, RetTypeOK, TypeOK, Dep
<1> QED
  BY <1>1, <1>2, <1>3, <1>4, ForsakenKept DEF Follows, Bearing

\* Every step leaves in a pruner's hands only what nobody needs.
LEMMA HandsStep == IInv /\ [RetNext]_retVars => HandsOK'
<1> SUFFICES ASSUME IInv, [RetNext]_retVars PROVE HandsOK'
  OBVIOUS
<1>1. RetTypeOK /\ HandsOK /\ Building /\ ImagesOK
  BY HostFollows DEF IInv
<1>2. \A p \in Pruner : removed[p] \notin host'
  <2> SUFFICES ASSUME NEW p \in Pruner, removed[p] \in host' PROVE FALSE
    OBVIOUS
  <2>1. removed[p] \in Dep /\ place[removed[p]] = "build" /\ removed[p] # 0
    BY <1>1 DEF HandsOK, Building, Dep
  <2>2. image[removed[p]] = removed[p]
    BY <1>1, <2>1 DEF HandsOK, InHand
  <2> QED
    BY <1>1, <2>1, <2>2 DEF ImagesOK
<1>3. ASSUME \A p \in Pruner : \A i \in InHand(p)' :
               i \in InHand(p) \/ (image'[i] = i /\ Settled(i)' /\ Forsaken(i)'),
             \A p \in Pruner : removed'[p] # removed[p] => removed'[p] \notin host'
      PROVE  HandsOK'
  <2> SUFFICES ASSUME NEW p \in Pruner
               PROVE  /\ \A i \in InHand(p)' : image'[i] = i /\ Settled(i)' /\ Forsaken(i)'
                      /\ removed'[p] \notin host'
    BY DEF HandsOK
  <2> QED
    BY <1>2, <1>3, HandsKept
<1>4. ASSUME todo' = todo, removed' = removed PROVE HandsOK'
  BY <1>3, <1>4 DEF InHand
<1>5. ASSUME NEW p \in Pruner, NEW a \in App,
             todo' = [todo EXCEPT ![p] = pruneCandidates(a)], removed' = removed,
             UNCHANGED <<rows, image, raced>>
      PROVE  HandsOK'
  <2>1. \A i \in pruneCandidates(a) : image'[i] = i /\ Settled(i)' /\ Forsaken(i)'
    BY <1>5, CandidatesForsaken
    DEF Settled, HasNoRow, Forsaken, Needs, Unsettled, LastLive, Rows, rows
  <2>2. \A q \in Pruner : todo'[q] = IF q = p THEN pruneCandidates(a) ELSE todo[q]
    BY <1>1, <1>5 DEF RetTypeOK
  <2> QED
    BY <1>3, <1>5, <2>1, <2>2 DEF InHand
<1>6. ASSUME NEW d \in Dep, Pipeline(d) PROVE HandsOK'
  <2>1. CASE PruneAfterDeploy(d)
    <3>1. place[d] = "prune" /\ d \in Pruner
      BY <2>1 DEF PruneAfterDeploy, Pruner
    <3>2. owner[d] \in App
      BY <3>1 DEF IInv, PlacesOK, RowsOK
    <3> QED
      BY <1>5, <2>1, <3>1, <3>2 DEF PruneAfterDeploy
  <2> QED
    BY <1>4, <1>6, <2>1 DEF Pipeline, Clone, Build, SetImage, Advance, Cut, Ship, Fail,
       SupersedeOthers, PruneDone, hook
<1>7. ASSUME NEW p \in Pruner, Prune(p) PROVE HandsOK'
  <2>1. CASE MarkImagePruned(p)
    <3>1. todo' = todo /\ removed' = [removed EXCEPT ![p] = 0] /\ host' = host
      BY <2>1 DEF MarkImagePruned, disk
    <3>2. 0 \notin host'
      BY <1>1, <3>1 DEF RetTypeOK, Dep
    <3>3. \A q \in Pruner : removed'[q] = IF q = p THEN 0 ELSE removed[q]
      BY <1>1, <3>1 DEF RetTypeOK
    <3> QED
      BY <1>3, <3>1, <3>2, <3>3 DEF InHand
  <2>2. ASSUME NEW i \in Dep, RemoveImage(p, i) PROVE HandsOK'
    <3>1. /\ i \in todo[p] /\ todo' = [todo EXCEPT ![p] = @ \ {i}]
          /\ \/ host' = host \ {i} /\ removed' = [removed EXCEPT ![p] = i]
             \/ host' = host /\ removed' = removed
      BY <2>2 DEF RemoveImage
    <3>2. \A q \in Pruner : todo'[q] \subseteq todo[q]
      BY <1>1, <3>1 DEF RetTypeOK
    <3>3. \A q \in Pruner : removed'[q] = removed[q] \/ (q = p /\ removed'[q] = i /\ i \notin host')
      BY <1>1, <3>1 DEF RetTypeOK
    <3> QED
      BY <1>3, <3>1, <3>2, <3>3 DEF InHand
  <2> QED
    BY <1>7, <2>1, <2>2 DEF Prune
<1>8. CASE DailySweep
  <2>1. Sweep \in Pruner
    BY DEF Pruner
  <2>2. ASSUME NEW a \in App, PruneSwept(a) PROVE HandsOK'
    BY <1>5, <2>1, <2>2 DEF PruneSwept
  <2> QED
    BY <1>4, <1>7, <1>8, <2>1, <2>2 DEF DailySweep, SweepStart, ListImages, RetainedImages,
       RemoveOrphan, ReadWorkDir, RemoveDir, SweepDone, CheckOrphan, CheckDir, TakeItem, hook
<1>9. ASSUME NEW a \in App, Deploy(a) \/ CreateRollback(a) \/ DeleteImages(a) \/ DeleteRows(a)
      PROVE  HandsOK'
  BY <1>4, <1>9 DEF Deploy, CreateRollback, DeleteImages, DeleteRows, hook
<1>10. ASSUME NEW d \in Dep, Rollback(d) \/ Cancel(d) \/ Start(d) PROVE HandsOK'
  BY <1>4, <1>10 DEF Rollback, Cancel, Start, hook
<1>11. CASE Crash
  <2>1. todo' = [p \in Pruner |-> {}] /\ removed' = [p \in Pruner |-> 0] /\ host' = host
    BY <1>11 DEF Crash, disk
  <2> QED
    BY <1>1, <2>1 DEF HandsOK, InHand, RetTypeOK, Dep
<1>12. CASE UNCHANGED retVars
  BY <1>4, <1>12 DEF retVars, hook
<1>13. Dep \subseteq Pruner
  BY DEF Pruner
<1> QED
  BY <1>6, <1>7, <1>8, <1>9, <1>10, <1>11, <1>12, <1>13 DEF RetNext

-----------------------------------------------------------------------------
(* The daily sweep. *)

\* What the sweep has read is still so when it comes to use it.
LEMMA SweepStep == IInv /\ [RetNext]_retVars => SweepOK'
<1> SUFFICES ASSUME IInv, [RetNext]_retVars PROVE SweepOK'
  OBVIOUS
<1> USE StatusFacts
<1>1. RetTypeOK /\ SweepOK /\ HostOK /\ Follows /\ TypeOK'
  BY RowsFollow DEF IInv
<1>2. next \in Nat /\ next' \in Nat /\ next <= next' /\ Dep \subseteq Nat \ {0}
  BY <1>1 DEF RetTypeOK, TypeOK, Follows, Dep
<1>3. /\ sweep.items \subseteq Dep /\ sweep.item \in 0..MaxDep
      /\ sweep \in [phase : {"idle", "apps", "retained", "orphans", "dirs"}, apps : SUBSET App,
                    items : SUBSET Dep, item : 0..MaxDep]
  BY <1>1 DEF RetTypeOK
<1>4. \A i \in Dep : i < next => i < next'
  BY <1>2
<1>5. ASSUME NEW i \in Dep, i < next, Settled(i) PROVE Settled(i)'
  BY <1>1, <1>5 DEF Follows
<1>6. ASSUME NEW i \in Dep, sweep.phase = "orphans", i \in sweep.items \cup {sweep.item}
      PROVE  Forsaken(i)'
  <2>1. Forsaken(i) /\ Held(i)
    BY <1>1, <1>2, <1>6 DEF SweepOK, Held
  <2> QED
    BY <2>1, ForsakenKept
<1>7. ASSUME sweep' = sweep PROVE SweepOK'
  <2>1. \A i \in sweep.items : i < next'
    BY <1>1, <1>3, <1>4 DEF SweepOK
  <2>2. sweep.item # 0 => /\ sweep.item < next' /\ Settled(sweep.item)'
                          /\ sweep.phase \in {"orphans", "dirs"}
    <3> SUFFICES ASSUME sweep.item # 0
                 PROVE  /\ sweep.item < next' /\ Settled(sweep.item)'
                        /\ sweep.phase \in {"orphans", "dirs"}
      OBVIOUS
    <3>1. /\ sweep.item < next /\ Settled(sweep.item)
          /\ sweep.phase \in {"orphans", "dirs"}
      BY <1>1 DEF SweepOK
    <3>2. PICK i \in Dep : i = sweep.item
      BY <1>3 DEF Dep
    <3>3. i < next' /\ Settled(i)'
      BY <1>4, <1>5, <3>1, <3>2
    <3>4. Settled(sweep.item)'
      BY <1>7, <3>2, <3>3 DEF Settled, HasNoRow
    <3> QED
      BY <3>1, <3>2, <3>3, <3>4
  <2>3. sweep.phase = "orphans" => \A i \in (sweep.items \cup {sweep.item}) \ {0} : Forsaken(i)'
    BY <1>3, <1>6 DEF Dep
  <2> QED
    BY <1>7, <2>1, <2>2, <2>3 DEF SweepOK
<1>8. CASE SweepStart \/ \E a \in App : PruneSwept(a)
  <2>1. /\ sweep.phase \in {"idle", "apps"} /\ sweep'.phase \in {"idle", "apps"}
        /\ sweep'.items = sweep.items /\ sweep'.item = sweep.item
    BY <1>3, <1>8 DEF SweepStart, PruneSwept
  <2> QED
    BY <1>1, <1>3, <1>4, <2>1 DEF SweepOK
<1>9. CASE ListImages \/ ReadWorkDir
  <2>1. sweep.item = 0
    BY <1>1, <1>9 DEF ListImages, ReadWorkDir, SweepOK
  <2>2. sweep'.items \subseteq host \cup work /\ sweep'.item = 0 /\ sweep'.phase \in {"retained", "dirs"}
    BY <1>3, <1>9, <2>1 DEF ListImages, ReadWorkDir
  <2>3. \A i \in sweep'.items : i < next'
    BY <1>1, <1>4, <2>2 DEF HostOK, RetTypeOK
  <2> QED
    BY <2>2, <2>3 DEF SweepOK
<1>10. CASE RetainedImages
  <2>1. PICK kept : kept = {image[d] : d \in {d \in Dep : status[d] # "absent" /\ image[d] # 0 /\ ~pruned[d]}}
    OBVIOUS
  <2>2. sweep.phase = "retained" /\ sweep' = [sweep EXCEPT !.phase = "orphans", !.items = @ \ kept]
        /\ UNCHANGED <<rows, image, raced>>
    BY <1>10, <2>1 DEF RetainedImages
  <2>3. sweep.item = 0
    BY <1>1, <2>2 DEF SweepOK
  <2>4. sweep'.phase = "orphans" /\ sweep'.items = sweep.items \ kept /\ sweep'.item = 0
    BY <1>3, <2>2, <2>3
  <2>5. ASSUME NEW i \in sweep.items \ kept PROVE Forsaken(i)
    <3> SUFFICES ASSUME NEW d \in Dep, image[d] = i, Needs(d) PROVE i \in raced
      BY DEF Forsaken
    <3>1. status[d] # "absent" /\ image[d] # 0
      BY <1>2, <1>3 DEF Needs, Unsettled, LastLive
    <3>2. pruned[d]
      BY <2>1, <2>5, <3>1
    <3> QED
      BY <3>2 DEF IInv, PrunedOK
  <2>6. \A i \in sweep.items \ kept : Forsaken(i)'
    BY <2>2, <2>5 DEF Forsaken, Needs, Unsettled, LastLive, Rows, rows
  <2> QED
    BY <1>1, <1>3, <1>4, <2>4, <2>6 DEF SweepOK
<1>11. ASSUME NEW i \in Dep, CheckOrphan(i) \/ CheckDir(i) PROVE SweepOK'
  <2>1. /\ sweep.phase \in {"orphans", "dirs"} /\ i \in sweep.items
        /\ sweep' = [sweep EXCEPT !.items = @ \ {i}, !.item = IF InFlight(i) THEN 0 ELSE i]
    BY <1>11 DEF CheckOrphan, CheckDir, TakeItem
  <2>2. /\ sweep'.phase = sweep.phase /\ sweep'.items = sweep.items \ {i}
        /\ sweep'.item = IF InFlight(i) THEN 0 ELSE i
    BY <1>3, <2>1
  <2>3. i < next
    BY <1>1, <2>1 DEF SweepOK
  <2>4. ~InFlight(i) => Settled(i)
    BY DEF InFlight, Settled, HasNoRow
  <2>5. sweep'.item # 0 => sweep'.item = i /\ i < next' /\ Settled(i)'
    BY <1>4, <1>5, <2>2, <2>3, <2>4
  <2>6. sweep'.phase = "orphans" => \A j \in (sweep'.items \cup {sweep'.item}) \ {0} : Forsaken(j)'
    BY <1>3, <1>6, <2>1, <2>2
  <2>7. \A j \in sweep'.items : j < next'
    BY <1>1, <1>3, <1>4, <2>2 DEF SweepOK
  <2> QED
    BY <2>1, <2>2, <2>5, <2>6, <2>7 DEF SweepOK
<1>12. CASE RemoveOrphan \/ RemoveDir
  <2>1. /\ sweep'.phase = sweep.phase /\ sweep'.items = sweep.items /\ sweep'.item = 0
    BY <1>3, <1>12 DEF RemoveOrphan, RemoveDir
  <2>2. sweep'.phase = "orphans" => \A j \in sweep'.items : Forsaken(j)'
    BY <1>3, <1>6, <2>1
  <2> QED
    BY <1>1, <1>3, <1>4, <2>1, <2>2 DEF SweepOK
<1>13. CASE SweepDone \/ Crash
  BY <1>13 DEF SweepDone, Crash, NoSweep, SweepOK
<1>14. ASSUME NEW p, Prune(p) PROVE SweepOK'
  BY <1>7, <1>14 DEF Prune, MarkImagePruned, RemoveImage
<1>15. ASSUME NEW d \in Dep, Pipeline(d) PROVE SweepOK'
  BY <1>7, <1>15 DEF Pipeline, Clone, Build, SetImage, Advance, Cut, Ship, Fail, SupersedeOthers,
     PruneAfterDeploy, PruneDone
<1>16. ASSUME NEW a \in App, Deploy(a) \/ CreateRollback(a) \/ DeleteImages(a) \/ DeleteRows(a)
       PROVE  SweepOK'
  BY <1>7, <1>16 DEF Deploy, CreateRollback, DeleteImages, DeleteRows
<1>17. ASSUME NEW d \in Dep, Rollback(d) \/ Cancel(d) \/ Start(d) PROVE SweepOK'
  BY <1>7, <1>17 DEF Rollback, Cancel, Start
<1>18. CASE UNCHANGED retVars
  BY <1>7, <1>18 DEF retVars
<1> QED
  BY <1>8, <1>9, <1>10, <1>11, <1>12, <1>13, <1>14, <1>15, <1>16, <1>17, <1>18
  DEF RetNext, DailySweep

-----------------------------------------------------------------------------
(* What the rows say of their images. *)

\* A row that says its image is pruned goes on to tell the truth.
LEMMA PrunedStep == IInv /\ [RetNext]_retVars => PrunedOK'
<1> SUFFICES ASSUME IInv, [RetNext]_retVars PROVE PrunedOK'
  OBVIOUS
<1>1. RetTypeOK /\ PrunedOK /\ HandsOK /\ ImagesOK /\ Follows /\ Bearing /\ Building
  BY RowsFollow, ImagesFollow, HostFollows DEF IInv
<1>2. ASSUME NEW d \in Dep, image[d] # 0,
             image[d] \in host => HasNoRow(d),
             Needs(d) => image[d] \in raced, image[d] = d => Settled(d)
      PROVE  /\ image'[d] # 0
             /\ HasNoRow(d)' \/ image'[d] \notin host'
             /\ Needs(d)' => image'[d] \in raced'
             /\ image'[d] = d => Settled(d)'
  <2>1. d < next /\ image[d] \in Dep /\ image[image[d]] = image[d]
    BY <1>1, <1>2 DEF ImagesOK, RetTypeOK, TypeOK, Dep
  <2>2. image'[d] = image[d] /\ raced \subseteq raced'
    BY <1>1, <1>2 DEF Bearing
  <2>3. /\ HasNoRow(d) => HasNoRow(d)'
        /\ Settled(d) => Settled(d)'
        /\ Needs(d)' => Needs(d)
    BY <1>1, <2>1 DEF Follows
  <2>4. image[d] \in host' => image[d] \in host
    <3> SUFFICES ASSUME image[d] \in host' \ host PROVE FALSE
      OBVIOUS
    <3>1. place[image[d]] = "build"
      BY <1>1 DEF Building
    <3> QED
      BY <1>1, <1>2, <2>1, <3>1 DEF ImagesOK
  <2> QED
    BY <1>2, <2>2, <2>3, <2>4
<1>3. ASSUME pruned' = pruned PROVE PrunedOK'
  <2> SUFFICES ASSUME NEW d \in Dep, pruned[d]
               PROVE  /\ image'[d] # 0
                      /\ HasNoRow(d)' \/ image'[d] \notin host'
                      /\ Needs(d)' => image'[d] \in raced'
                      /\ image'[d] = d => Settled(d)'
    BY <1>3 DEF PrunedOK
  <2> QED
    BY <1>1, <1>2 DEF PrunedOK
<1>4. ASSUME NEW p \in Pruner, MarkImagePruned(p) PROVE PrunedOK'
  <2>1. /\ pruned' = [d \in Dep |-> pruned[d] \/ (status[d] # "absent" /\ image[d] = removed[p])]
        /\ removed[p] # 0
    BY <1>4 DEF MarkImagePruned
  <2> SUFFICES ASSUME NEW d \in Dep, pruned'[d]
               PROVE  /\ image'[d] # 0
                      /\ HasNoRow(d)' \/ image'[d] \notin host'
                      /\ Needs(d)' => image'[d] \in raced'
                      /\ image'[d] = d => Settled(d)'
    BY DEF PrunedOK
  <2>2. CASE pruned[d]
    BY <1>1, <1>2, <2>2 DEF PrunedOK
  <2>3. CASE ~pruned[d]
    <3>1. image[d] = removed[p] /\ image[d] # 0
      BY <2>1, <2>3
    <3>2. image[d] \in InHand(p) /\ image[d] \notin host
      BY <1>1, <3>1 DEF InHand, HandsOK
    <3>3. Forsaken(image[d]) /\ Settled(image[d])
      BY <1>1, <3>2 DEF HandsOK
    <3> QED
      BY <1>2, <3>1, <3>2, <3>3 DEF Forsaken
  <2> QED
    BY <2>2, <2>3
<1>5. ASSUME NEW p \in Pruner, Prune(p) PROVE PrunedOK'
  BY <1>3, <1>4, <1>5 DEF Prune, RemoveImage
<1>6. CASE DailySweep
  <2>1. Sweep \in Pruner
    BY DEF Pruner
  <2> QED
    BY <1>3, <1>5, <1>6, <2>1 DEF DailySweep, SweepStart, ListImages, RetainedImages, RemoveOrphan,
       ReadWorkDir, RemoveDir, SweepDone, PruneSwept, CheckOrphan, CheckDir, TakeItem
<1>7. ASSUME NEW d \in Dep, Pipeline(d) PROVE PrunedOK'
  BY <1>3, <1>7 DEF Pipeline, Clone, Build, SetImage, Advance, Cut, Ship, Fail, SupersedeOthers,
     PruneAfterDeploy, PruneDone
<1>8. ASSUME NEW a \in App, Deploy(a) \/ CreateRollback(a) \/ DeleteImages(a) \/ DeleteRows(a)
      PROVE  PrunedOK'
  BY <1>3, <1>8 DEF Deploy, CreateRollback, DeleteImages, DeleteRows
<1>9. ASSUME NEW d \in Dep, Rollback(d) \/ Cancel(d) \/ Start(d) PROVE PrunedOK'
  BY <1>3, <1>9 DEF Rollback, Cancel, Start
<1>10. CASE Crash \/ UNCHANGED retVars
  BY <1>3, <1>10 DEF Crash, retVars
<1>11. Dep \subseteq Pruner
  BY DEF Pruner
<1> QED
  BY <1>5, <1>6, <1>7, <1>8, <1>9, <1>10, <1>11 DEF RetNext

-----------------------------------------------------------------------------
(* What an attempt needs is there. *)

\* A step that takes no needed image from the host, and ends no delete.
LEMMA KeptSame ==
  ASSUME IInv, [RetNext]_retVars, image' = image,
         \A d \in Dep : Needs(d)' /\ owner[d] \notin deleting' => owner[d] \notin deleting,
         \A d \in Dep : /\ Needs(d) /\ image[d] \in host \ host'
                        /\ owner[d] \notin deleting'
                        => image[d] \in raced'
  PROVE  KeptOK'
<1> SUFFICES ASSUME NEW d \in Dep, Needs(d)', image[d] # 0, owner'[d] \notin deleting'
             PROVE  image[d] \in host' \cup raced'
  BY DEF KeptOK
<1>1. Follows /\ Bearing
  BY RowsFollow, ImagesFollow
<1>2. d < next
  BY DEF IInv, ImagesOK, RetTypeOK, TypeOK, Dep
<1>3. Needs(d) /\ owner'[d] = owner[d]
  BY <1>1, <1>2 DEF Follows
<1>4. image[d] \in host \cup raced
  BY <1>3 DEF IInv, KeptOK
<1> QED
  BY <1>1, <1>3, <1>4 DEF Bearing

\* An image that is needed is on the host, but for the recorded races.
LEMMA KeptStep == IInv /\ [RetNext]_retVars => KeptOK'
<1> SUFFICES ASSUME IInv, [RetNext]_retVars PROVE KeptOK'
  OBVIOUS
<1> USE StatusFacts
<1>1. /\ RetTypeOK /\ KeptOK /\ PrunedOK /\ HandsOK /\ SweepOK /\ ImagesOK /\ PlacesOK
      /\ Follows /\ Bearing /\ FreshBuildSurvives /\ RowsOK
  BY RowsFollow, ImagesFollow DEF IInv
<1>2. ASSUME image' = image, host \subseteq host', deleting' = deleting PROVE KeptOK'
  BY <1>2, KeptSame
<1>3. ASSUME NEW a \in App, CreateRollback(a) PROVE KeptOK'
  <2>1. CASE image' = image
    BY <1>2, <1>3, <2>1 DEF CreateRollback, disk
  <2>2. CASE image' # image
    <3>1. PICK i : i = image[asked[a]]
      OBVIOUS
    <3>2. /\ next \in Dep /\ image' = [image EXCEPT ![next] = i]
          /\ raced' = IF Held(i) \/ i \notin host THEN raced \cup {i} ELSE raced
          /\ host' = host /\ deleting' = deleting
      BY <1>3, <2>2, <3>1 DEF CreateRollback, Enqueue, disk
    <3>3. \A d \in Dep : image'[d] = IF d = next THEN i ELSE image[d]
      BY <1>1, <3>2 DEF RetTypeOK
    <3>4. i \in host' \cup raced'
      BY <3>2
    <3>5. ASSUME NEW d \in Dep, d # next, Needs(d)', image[d] # 0, owner'[d] \notin deleting
          PROVE  image[d] \in host \cup raced
      <4>1. d < next
        BY <1>1, <3>5 DEF ImagesOK, RetTypeOK, TypeOK, Dep
      <4>2. Needs(d) /\ owner[d] \notin deleting
        BY <1>1, <3>5, <4>1 DEF Follows
      <4> QED
        BY <1>1, <3>5, <4>2 DEF KeptOK
    <3> QED
      BY <3>2, <3>3, <3>4, <3>5 DEF KeptOK
  <2> QED
    BY <2>1, <2>2
<1>4. ASSUME NEW d \in Dep, SetImage(d) PROVE KeptOK'
  <2>1. /\ place[d] = "record" /\ UNCHANGED <<rows, host, deleting>>
        /\ image' = IF status[d] = "absent" THEN image ELSE [image EXCEPT ![d] = d]
        /\ raced \subseteq raced'
    BY <1>4 DEF SetImage, disk
  <2>2. \A e \in Dep : Needs(e)' <=> Needs(e)
    BY <2>1 DEF Needs, Unsettled, LastLive, Rows, rows
  <2>3. CASE status[d] = "absent"
    BY <1>2, <2>1, <2>3 DEF rows
  <2>4. CASE status[d] # "absent"
    <3>1. \A e \in Dep : image'[e] = IF e = d THEN d ELSE image[e]
      BY <1>1, <2>1, <2>4 DEF RetTypeOK
    <3>2. Needs(d) /\ owner[d] \notin deleting => d \in host
      <4>1. status[d] \in {"building", "cancelled"}
        BY <1>1, <2>1, <2>4 DEF PlacesOK, Working
      <4> QED
        BY <1>1, <2>1, <4>1 DEF FreshBuildSurvives, Needs, Unsettled, LastLive
    <3> QED
      BY <1>1, <2>1, <2>2, <3>1, <3>2 DEF KeptOK, rows
  <2> QED
    BY <2>3, <2>4
<1>5. ASSUME NEW d \in Dep, Pipeline(d), ~SetImage(d) PROVE KeptOK'
  BY <1>2, <1>5 DEF Pipeline, Clone, Build, Advance, Cut, Ship, Fail, SupersedeOthers,
     PruneAfterDeploy, PruneDone, disk
<1>6. ASSUME NEW a \in App, DeleteImages(a) PROVE KeptOK'
  <2>1. /\ deleting' = deleting \cup {a} /\ host \ host' \subseteq Recorded(a) /\ image' = image
    BY <1>6 DEF DeleteImages
  <2>2. ASSUME NEW d \in Dep, image[d] \in Recorded(a) PROVE owner[d] = a
    <3>1. PICK e \in Dep : owner[e] = a /\ image[e] = image[d] /\ image[e] # 0
      BY <2>2 DEF Recorded, Bearers, Rows
    <3> QED
      BY <1>1, <3>1 DEF ImagesOK
  <2> QED
    BY <2>1, <2>2, KeptSame
<1>7. ASSUME NEW a \in App, DeleteRows(a) PROVE KeptOK'
  <2>1. /\ deleting' = deleting \ {a} /\ host' = host /\ image' = image /\ owner' = owner
        /\ status' = [d \in Dep |-> IF owner[d] = a THEN "absent" ELSE status[d]]
    BY <1>7 DEF DeleteRows, DeleteApp, disk
  <2>2. \A d \in Dep : Needs(d)' => owner[d] # a
    BY <2>1 DEF Needs, Unsettled, LastLive
  <2> QED
    BY <2>1, <2>2, KeptSame
<1>8. ASSUME NEW p \in Pruner, Prune(p) PROVE KeptOK'
  <2>1. CASE MarkImagePruned(p)
    BY <1>2, <2>1 DEF MarkImagePruned, disk
  <2>2. ASSUME NEW i \in Dep, RemoveImage(p, i) PROVE KeptOK'
    <3>1. /\ i \in todo[p] /\ host \ host' \subseteq {i}
          /\ UNCHANGED <<rows, image, deleting, raced>>
      BY <2>2 DEF RemoveImage
    <3>2. Forsaken(i)
      BY <1>1, <3>1 DEF HandsOK, InHand
    <3> QED
      BY <3>1, <3>2, KeptSame DEF Forsaken, rows
  <2> QED
    BY <1>8, <2>1, <2>2 DEF Prune
<1>9. CASE RemoveOrphan
  <2>1. /\ sweep.phase = "orphans" /\ sweep.item # 0 /\ host \ host' \subseteq {sweep.item}
        /\ UNCHANGED <<rows, image, deleting, raced>>
    BY <1>9 DEF RemoveOrphan
  <2>2. Forsaken(sweep.item)
    BY <1>1, <2>1 DEF SweepOK
  <2> QED
    BY <2>1, <2>2, KeptSame DEF Forsaken, rows
<1>10. CASE DailySweep /\ ~RemoveOrphan
  <2>1. Sweep \in Pruner
    BY DEF Pruner
  <2> QED
    BY <1>2, <1>8, <1>10, <2>1 DEF DailySweep, SweepStart, ListImages, RetainedImages,
       ReadWorkDir, RemoveDir, SweepDone, PruneSwept, CheckOrphan, CheckDir, TakeItem, disk
<1>11. ASSUME NEW a \in App, Deploy(a) PROVE KeptOK'
  BY <1>2, <1>11 DEF Deploy, disk
<1>12. ASSUME NEW d \in Dep, Rollback(d) \/ Cancel(d) \/ Start(d) PROVE KeptOK'
  BY <1>2, <1>12 DEF Rollback, Cancel, Start, disk
<1>13. CASE Crash
  <2>1. /\ image' = image /\ host' = host /\ owner' = owner /\ deleting' = {}
        /\ raced' = raced \cup UNION {Recorded(a) : a \in deleting}
    BY <1>13 DEF Crash, Recover, disk
  <2> SUFFICES ASSUME NEW d \in Dep, Needs(d)', image[d] # 0
               PROVE  image[d] \in host \cup raced'
    BY <2>1 DEF KeptOK
  <2>2. d < next
    BY <1>1 DEF ImagesOK, RetTypeOK, TypeOK, Dep
  <2>3. Needs(d)
    BY <1>1, <2>2 DEF Follows
  <2>4. CASE owner[d] \notin deleting
    BY <1>1, <2>1, <2>3, <2>4 DEF KeptOK
  <2>5. CASE owner[d] \in deleting
    <3>1. CASE pruned[d]
      BY <1>1, <2>1, <2>3, <3>1 DEF PrunedOK
    <3>2. CASE ~pruned[d]
      <4>1. d \in Bearers(owner[d])
        BY <2>3, <3>2 DEF Bearers, Rows, Needs, Unsettled, LastLive
      <4> QED
        BY <2>1, <2>5, <4>1 DEF Recorded
    <3> QED
      BY <3>1, <3>2
  <2> QED
    BY <2>4, <2>5
<1>14. CASE UNCHANGED retVars
  BY <1>2, <1>14 DEF retVars, disk
<1>15. Dep \subseteq Pruner
  BY DEF Pruner
<1> QED
  BY <1>3, <1>4, <1>5, <1>6, <1>7, <1>8, <1>9, <1>10, <1>11, <1>12, <1>13, <1>14, <1>15 DEF RetNext

-----------------------------------------------------------------------------
(* What an attempt has just built, or builds from, is there. *)

\* What the place of an attempt asks of the host, and of the work dir.
FreshAt(d, at, i, H, W) ==
  /\ at = "record" \/ (at \in Built /\ i = d) => d \in H
  /\ at = "build" => d \in W

\* The property, place by place.
LEMMA FreshMeans ==
  FreshBuildSurvives <=>
    \A d \in Dep : IsActive(status[d]) /\ owner[d] \notin deleting =>
                     FreshAt(d, place[d], image[d], host, work)
BY DEF FreshBuildSurvives, FreshAt, Built

\* No step brings a settled attempt, or one of an app being deleted, back to work
\* without its own Start.
LEMMA ActiveBack ==
  ASSUME IInv, [RetNext]_retVars, NEW d \in Dep, IsActive(status'[d]), owner'[d] \notin deleting'
  PROVE  /\ d < next /\ owner'[d] = owner[d] /\ owner[d] \notin deleting /\ ~Settled(d)
         /\ IsActive(status[d]) \/ (status[d] = "queued" /\ Start(d))
<1> USE StatusFacts
<1>1. RetTypeOK /\ RowsOK /\ Follows /\ next' \in Nat
  BY RowsFollow DEF IInv, TypeOK
<1>2. ~Settled(d)' /\ ~HasNoRow(d)' /\ status'[d] # "queued"
  BY DEF Settled, HasNoRow
<1>3. d < next
  <2>1. CASE d = next
    <3>4. ~(d < next)
      BY <1>1, <2>1 DEF RetTypeOK, TypeOK, Dep
    <3>5. status[d] = "absent"
      BY <1>1, <3>4 DEF RowsOK, HasNoRow
    <3>1. status[d] = "absent" /\ ~IsActive("absent") /\ ~IsActive("queued")
      BY <3>5
    <3>2. [Next]_vars
      BY RowSteps
    <3> QED
      BY <2>1, <3>1, <3>2, <1>1, AppAssumption DEF Next, vars, Enqueue, DeleteApp, Claim, Move, Retire,
         Recover, RetTypeOK, TypeOK, Status
  <2>2. CASE d > next
    BY <1>1, <1>2, <2>2, RowsFollow DEF Follows, RowsOK, TypeOK, RetTypeOK, Dep, HasNoRow
  <2> QED
    BY <2>1, <2>2, <1>1 DEF RetTypeOK, TypeOK, Dep
<1>4. owner'[d] = owner[d] /\ ~Settled(d)
  BY <1>1, <1>2, <1>3 DEF Follows
<1>5. deleting' = deleting \/ deleting \subseteq deleting'
      \/ (\E a \in App : DeleteRows(a)) \/ Crash
  <2>1. ASSUME NEW d2 \in Dep, Pipeline(d2) PROVE deleting' = deleting
    BY <2>1 DEF Pipeline, Clone, Build, SetImage, Advance, Cut, Ship, Fail, SupersedeOthers,
       PruneAfterDeploy, PruneDone
  <2>2. ASSUME NEW p, Prune(p) PROVE deleting' = deleting
    BY <2>2 DEF Prune, MarkImagePruned, RemoveImage
  <2>3. DailySweep => deleting' = deleting
    BY <2>2 DEF DailySweep, SweepStart, ListImages, RetainedImages, RemoveOrphan,
       ReadWorkDir, RemoveDir, SweepDone, PruneSwept, CheckOrphan, CheckDir, TakeItem
  <2>4. ASSUME NEW a \in App, Deploy(a) \/ CreateRollback(a) \/ DeleteImages(a)
        PROVE deleting \subseteq deleting'
    BY <2>4 DEF Deploy, CreateRollback, DeleteImages
  <2>5. ASSUME NEW d2 \in Dep, Rollback(d2) \/ Cancel(d2) \/ Start(d2) PROVE deleting' = deleting
    BY <2>5 DEF Rollback, Cancel, Start
  <2> QED
    BY <2>1, <2>2, <2>3, <2>4, <2>5 DEF RetNext, retVars
<1>6. owner[d] \notin deleting
  <2>1. ASSUME NEW a \in App, DeleteRows(a) PROVE owner[d] \notin deleting
    BY <1>2, <1>4, <2>1 DEF DeleteRows, DeleteApp, HasNoRow
  <2>2. ~Crash
    BY <1>1 DEF Crash, Recover
  <2> QED
    BY <1>4, <1>5, <2>1, <2>2
<1>7. IsActive(status[d]) \/ status[d] = "queued"
  BY <1>1, <1>4 DEF Settled, HasNoRow, RetTypeOK, TypeOK, Status
<1>8. status[d] = "queued" => Start(d)
  <2> SUFFICES ASSUME status[d] = "queued", ~Start(d) PROVE FALSE
    OBVIOUS
  <2>1. place[d] = "none"
    BY DEF IInv, PlacesOK
  <2>2. PlacesOK'
    BY PlacesStep
  <2>3. place'[d] # "none"
    BY <2>2 DEF PlacesOK, Working, Cutting
  <2>4. place \in [Dep -> {"none", "clone", "build", "record", "advance", "ship", "cut",
                           "retire", "prune", "pruning"}]
    BY <1>1 DEF RetTypeOK
  <2>5. place' # place
    BY <2>1, <2>3
  <2>6. ASSUME NEW e \in Dep, Pipeline(e) PROVE FALSE
    <3>1. e # d
      BY <2>1, <2>6 DEF Pipeline, Clone, Build, SetImage, Advance, Cut, Ship, Fail, SupersedeOthers,
         PruneAfterDeploy, PruneDone
    <3>2. PICK x : place' = [place EXCEPT ![e] = x]
      BY <2>6 DEF Pipeline, Clone, Build, SetImage, Advance, Cut, Ship, Fail, SupersedeOthers,
         PruneAfterDeploy, PruneDone, Goto, End
    <3> QED
      BY <2>1, <2>3, <2>4, <3>1, <3>2
  <2>7. ASSUME NEW e \in Dep, Start(e) PROVE FALSE
    BY <2>1, <2>3, <2>4, <2>7 DEF Start, Goto
  <2>8. ~Crash
    BY <1>1 DEF Crash, Recover
  <2>9. ASSUME NEW p, Prune(p) PROVE FALSE
    BY <2>5, <2>9 DEF Prune, MarkImagePruned, RemoveImage
  <2>10. ~DailySweep
    BY <2>5, <2>9 DEF DailySweep, SweepStart, ListImages, RetainedImages, RemoveOrphan,
       ReadWorkDir, RemoveDir, SweepDone, PruneSwept, CheckOrphan, CheckDir, TakeItem
  <2>11. \A a \in App : ~(Deploy(a) \/ CreateRollback(a) \/ DeleteImages(a) \/ DeleteRows(a))
    BY <2>5 DEF Deploy, CreateRollback, DeleteImages, DeleteRows
  <2>12. \A e \in Dep : ~(Rollback(e) \/ Cancel(e))
    BY <2>5 DEF Rollback, Cancel
  <2> QED
    BY <2>5, <2>6, <2>7, <2>8, <2>9, <2>10, <2>11, <2>12 DEF RetNext, retVars
<1> QED
  BY <1>3, <1>4, <1>6, <1>7, <1>8

\* No sweep, delete or prune takes what an attempt on its way has just built.
LEMMA FreshStep == IInv /\ [RetNext]_retVars => FreshBuildSurvives'
<1> SUFFICES ASSUME IInv, [RetNext]_retVars, NEW d \in Dep, IsActive(status'[d]),
                    owner'[d] \notin deleting'
             PROVE  FreshAt(d, place'[d], image'[d], host', work')
  BY FreshMeans DEF FreshBuildSurvives, FreshAt, Built
<1> USE StatusFacts
<1>1. /\ RetTypeOK /\ PlacesOK /\ ImagesOK /\ HandsOK /\ SweepOK
      /\ place \in [Dep -> {"none", "clone", "build", "record", "advance", "ship", "cut",
                            "retire", "prune", "pruning"}]
      /\ image \in [Dep -> 0..MaxDep]
  BY DEF IInv, RetTypeOK
<1>2. /\ d < next /\ owner'[d] = owner[d] /\ owner[d] \notin deleting /\ ~Settled(d)
      /\ IsActive(status[d]) \/ (status[d] = "queued" /\ Start(d))
  BY ActiveBack
<1>3. IsActive(status[d]) => FreshAt(d, place[d], image[d], host, work)
  BY <1>2, FreshMeans DEF IInv
<1>4. CASE Start(d)
  BY <1>1, <1>4 DEF Start, Goto, FreshAt, Built, ImagesOK, Claim
<1>5. ASSUME ~Start(d), place'[d] = place[d], image'[d] = image[d],
             d \in host => d \in host', d \in work => d \in work'
      PROVE  FreshAt(d, place'[d], image'[d], host', work')
  BY <1>2, <1>3, <1>5 DEF FreshAt
<1>6. ASSUME NEW e \in Dep, Pipeline(e), ~Start(d)
      PROVE  FreshAt(d, place'[d], image'[d], host', work')
  <2>1. CASE e # d
    <3>1. \E x : place' = [place EXCEPT ![e] = x]
      BY <1>6 DEF Pipeline, Clone, Build, SetImage, Advance, Cut, Ship, Fail, SupersedeOthers,
         PruneAfterDeploy, PruneDone, Goto, End
    <3>2. image' = image \/ image' = [image EXCEPT ![e] = e]
      BY <1>6 DEF Pipeline, Clone, Build, SetImage, Advance, Cut, Ship, Fail, SupersedeOthers,
         PruneAfterDeploy, PruneDone
    <3>3. host \subseteq host' /\ work \ work' \subseteq {e}
      BY <1>6 DEF Pipeline, Clone, Build, SetImage, Advance, Cut, Ship, Fail, SupersedeOthers,
         PruneAfterDeploy, PruneDone, End, disk
    <3> QED
      BY <1>1, <1>5, <1>6, <2>1, <3>1, <3>2, <3>3
  <2>2. CASE e = d
    <3>1. IsActive(status[d]) /\ FreshAt(d, place[d], image[d], host, work)
      BY <1>2, <1>3, <1>6
    <3>2. CASE Clone(d)
      BY <1>1, <3>2 DEF Clone, Goto, FreshAt, Built
    <3>3. CASE Build(d)
      BY <1>1, <3>3 DEF Build, Goto, FreshAt, Built, ImagesOK
    <3>4. CASE SetImage(d)
      BY <1>1, <3>1, <3>4 DEF SetImage, Goto, FreshAt, Built, disk
    <3>5. CASE Advance(d) \/ Cut(d)
      <4>1. place[d] \in Built /\ place'[d] \in {"none", "ship", "cut"} /\ image' = image /\ host' = host
        BY <1>1, <3>5 DEF Advance, Cut, Goto, End, Built
      <4> QED
        BY <3>1, <4>1 DEF FreshAt, Built
    <3>6. CASE \/ Ship(d) \/ Fail(d) \/ SupersedeOthers(d) \/ PruneAfterDeploy(d) \/ PruneDone(d)
      BY <1>1, <3>6 DEF Ship, Fail, SupersedeOthers, PruneAfterDeploy, PruneDone, Goto, End, FreshAt, Built
    <3> QED
      BY <1>6, <2>2, <3>2, <3>3, <3>4, <3>5, <3>6 DEF Pipeline
  <2> QED
    BY <2>1, <2>2
<1>7. ASSUME NEW e \in Dep, Start(e), ~Start(d)
      PROVE  FreshAt(d, place'[d], image'[d], host', work')
  BY <1>1, <1>5, <1>7 DEF Start, Goto, disk
<1>8. ASSUME NEW p \in Pruner, Prune(p), ~Start(d)
      PROVE  FreshAt(d, place'[d], image'[d], host', work')
  <2>1. CASE MarkImagePruned(p)
    BY <1>5, <1>8, <2>1 DEF MarkImagePruned, disk
  <2>2. ASSUME NEW i \in Dep, RemoveImage(p, i) PROVE FreshAt(d, place'[d], image'[d], host', work')
    <3>1. i \in todo[p] /\ host \ host' \subseteq {i} /\ UNCHANGED <<place, image, work>>
      BY <2>2 DEF RemoveImage
    <3>2. i # d
      BY <1>1, <1>2, <3>1 DEF HandsOK, InHand
    <3> QED
      BY <1>5, <1>8, <3>1, <3>2
  <2> QED
    BY <1>8, <2>1, <2>2 DEF Prune
<1>9. CASE (RemoveOrphan \/ RemoveDir) /\ ~Start(d)
  <2>1. /\ sweep.item # 0 /\ host \ host' \subseteq {sweep.item} /\ work \ work' \subseteq {sweep.item}
        /\ UNCHANGED <<place, image>>
    BY <1>9 DEF RemoveOrphan, RemoveDir
  <2>2. sweep.item # d
    BY <1>1, <1>2, <2>1 DEF SweepOK
  <2> QED
    BY <1>5, <1>9, <2>1, <2>2
<1>10. CASE DailySweep /\ ~Start(d)
  <2>1. Sweep \in Pruner
    BY DEF Pruner
  <2> QED
    BY <1>5, <1>8, <1>9, <1>10, <2>1 DEF DailySweep, SweepStart, ListImages, RetainedImages,
       ReadWorkDir, SweepDone, PruneSwept, CheckOrphan, CheckDir, TakeItem, disk
<1>11. ASSUME NEW a \in App, DeleteImages(a), ~Start(d)
       PROVE  FreshAt(d, place'[d], image'[d], host', work')
  <2>1. /\ deleting' = deleting \cup {a} /\ host \ host' \subseteq Recorded(a)
        /\ UNCHANGED <<place, image, work>>
    BY <1>11 DEF DeleteImages
  <2>2. d \notin Recorded(a)
    <3> SUFFICES ASSUME d \in Recorded(a) PROVE FALSE
      OBVIOUS
    <3>1. PICK e \in Dep : owner[e] = a /\ image[e] = d /\ image[e] # 0
      BY DEF Recorded, Bearers, Rows
    <3>2. owner[d] = a
      BY <1>1, <3>1 DEF ImagesOK
    <3> QED
      BY <1>2, <2>1, <3>2
  <2> QED
    BY <1>5, <1>11, <2>1, <2>2
<1>12. ASSUME NEW a \in App, Deploy(a) \/ CreateRollback(a) \/ DeleteRows(a), ~Start(d)
       PROVE  FreshAt(d, place'[d], image'[d], host', work')
  <2>1. UNCHANGED <<place, host, work>>
    BY <1>12 DEF Deploy, CreateRollback, DeleteRows, disk
  <2>2. image' = image \/ \E i : image' = [image EXCEPT ![next] = i]
    BY <1>12 DEF Deploy, CreateRollback, DeleteRows
  <2>3. d # next
    BY <1>1, <1>2 DEF RetTypeOK, TypeOK
  <2>4. image'[d] = image[d]
    BY <1>1, <2>2, <2>3
  <2> QED
    BY <1>5, <1>12, <2>1, <2>4
<1>13. ASSUME NEW e \in Dep, Rollback(e) \/ Cancel(e), ~Start(d)
       PROVE  FreshAt(d, place'[d], image'[d], host', work')
  BY <1>5, <1>13 DEF Rollback, Cancel, disk
<1>14. CASE Crash
  BY <1>1, <1>14 DEF Crash, Recover, RetTypeOK, TypeOK
<1>15. CASE UNCHANGED retVars
  <2>1. UNCHANGED <<status, place, image, host, work>>
    BY <1>15 DEF retVars, rows, disk
  <2> QED
    BY <1>4, <1>5, <2>1
<1>16. Dep \subseteq Pruner
  BY DEF Pruner
<1> QED
  BY <1>4, <1>6, <1>7, <1>8, <1>10, <1>11, <1>12, <1>13, <1>14, <1>15, <1>16 DEF RetNext

-----------------------------------------------------------------------------
(* The invariant, and what it says. *)

\* At the start one app has its history, and nothing is going on.
LEMMA RetInitOK == RetInit => IInv
<1> SUFFICES ASSUME RetInit PROVE IInv
  OBVIOUS
<1> USE RetentionAssumption, StatusFacts DEF Dep, HasNoRow
<1>1. PICK first \in App :
        /\ owner = [d \in Dep |-> IF d <= Shipped THEN first ELSE NoApp]
        /\ canon = [a \in App |-> IF a = first THEN Shipped ELSE 0]
  <2>1. (CHOOSE a \in App : TRUE) \in App
    BY RetentionAssumption
  <2> QED
    BY <2>1 DEF RetInit
<1>2. /\ apps = App /\ next = Shipped + 1
      /\ status = [d \in Dep |-> IF d < Shipped THEN "superseded"
                                 ELSE IF d = Shipped THEN "running" ELSE "absent"]
      /\ image = [d \in Dep |-> IF d <= Shipped THEN d ELSE 0]
      /\ pruned = [d \in Dep |-> FALSE]
      /\ host = 1..Shipped /\ work = {}
      /\ place = [d \in Dep |-> "none"]
      /\ asked = [a \in App |-> 0] /\ deleting = {}
      /\ todo = [p \in Pruner |-> {}] /\ removed = [p \in Pruner |-> 0]
      /\ sweep = [phase |-> "idle", apps |-> {}, items |-> {}, item |-> 0]
      /\ raced = {}
  BY DEF RetInit, NoSweep
<1>3. \A d \in Dep : status[d] \in {"superseded", "running", "absent"}
  BY <1>2
<1>4. TypeOK
  BY <1>1, <1>2 DEF TypeOK, Status
<1>5. RetTypeOK
  <2>1. canon \in [App -> 0..MaxDep] /\ host \subseteq Dep
    BY <1>1, <1>2
  <2> QED
    BY <1>2, <1>4, <2>1 DEF RetTypeOK
<1>6. OneActivePerApp
  BY <1>3 DEF OneActivePerApp
<1>7. RowsOK
  BY <1>1, <1>2, <1>6 DEF RowsOK
<1>8. PlacesOK
  BY <1>2, <1>3 DEF PlacesOK, Working, Cutting, Live
<1>9. ImagesOK
  BY <1>1, <1>2 DEF ImagesOK
<1>10. AskedOK /\ HostOK
  BY <1>2 DEF AskedOK, HostOK
<1>11. HandsOK /\ SweepOK /\ PrunedOK
  BY <1>2 DEF HandsOK, InHand, SweepOK, PrunedOK
<1>12. KeptOK
  BY <1>2, <1>3 DEF KeptOK, Needs, Unsettled, LastLive
<1>13. FreshBuildSurvives
  BY <1>2, <1>3 DEF FreshBuildSurvives
<1> QED
  BY <1>5, <1>7, <1>8, <1>9, <1>10, <1>11, <1>12, <1>13 DEF IInv

\* The inductive invariant: what is on the host, in the rows and in the pruners' hands,
\* at every moment of the pipelines, the prunes, the sweep and the handlers
\* (prune/pruner.go, deploy/pipeline.go).
THEOREM RetentionInvariant == RetSpec => []IInv
<1>1. IInv /\ [RetNext]_retVars => IInv'
  <2> SUFFICES ASSUME IInv, [RetNext]_retVars PROVE IInv'
    OBVIOUS
  <2> QED
    BY TypeStep, RowsFollow, PlacesStep, ImagesStep, AskedStep, HostStep, HandsStep, SweepStep,
       PrunedStep, KeptStep, FreshStep
    DEF IInv
<1> QED
  BY RetInitOK, <1>1, PTL DEF RetSpec

\* What rows record of their images is so, a rollback on its way keeps its image and so
\* does the last attempt that went live (prune.go, pruner.go, handleRollback).
THEOREM RetentionKeepsItsPromise == RetSpec => []RetInv
<1>1. IInv => RetInv
  <2> SUFFICES ASSUME IInv PROVE RetInv
    OBVIOUS
  <2> USE StatusFacts
  <2>1. /\ RetTypeOK /\ RowsOK /\ PrunedOK /\ KeptOK /\ ImagesOK
        /\ \A d \in Dep : status[d] \in Status \cup {"absent"}
    BY DEF IInv, RetTypeOK, TypeOK
  <2>2. PrunedIsGone
    BY <2>1 DEF PrunedIsGone, PrunedOK, HasNoRow
  <2>3. RollbackKeepsImage
    <3> SUFFICES ASSUME NEW d \in Dep, d \in Rows(owner[d]), owner[d] \notin deleting,
                        ~IsTerminal(status[d]), image[d] \notin {0, d}
                 PROVE  image[d] \in host \cup raced
      BY DEF RollbackKeepsImage
    <3>1. Unsettled(d)
      BY <2>1 DEF Unsettled, Rows, Status
    <3> QED
      BY <2>1, <3>1 DEF KeptOK, Needs
  <2>4. LiveImageKept
    <3> SUFFICES ASSUME NEW d \in Dep, status[d] = "running", owner[d] \notin deleting,
                        image[d] \notin raced,
                        \A e \in Rows(owner[d]) : e > d => status[e] \notin {"running", "superseded"}
                 PROVE  image[d] \in host
      BY DEF LiveImageKept
    <3>1. LastLive(d) /\ image[d] # 0
      BY <2>1 DEF LastLive, ImagesOK, HasNoRow
    <3> QED
      BY <2>1, <3>1 DEF KeptOK, Needs
  <2> QED
    BY <2>1, <2>2, <2>3, <2>4 DEF RetInv
<1> QED
  BY RetentionInvariant, <1>1, PTL

\* No sweep takes the image or the checkout of an attempt that is still on its way
\* (tagInFlight, pruneOrphans and pruneWorkDirs in prune/pruner.go).
THEOREM FreshBuildsSurvive == RetSpec => []FreshBuildSurvives
<1>1. IInv => FreshBuildSurvives
  BY DEF IInv
<1> QED
  BY RetentionInvariant, <1>1, PTL
=============================================================================

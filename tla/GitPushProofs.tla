---------------------------- MODULE GitPushProofs ----------------------------
(***************************************************************************)
(* git push, for any number of pushes, branches, attempts and successive   *)
(* apps of the name: a push is told the truth, what it was told stays      *)
(* true, and no commit is left behind in silence.                          *)
(***************************************************************************)
EXTENDS GitPush, FiniteSetTheorems, TLAPS

\* An attempt nobody works on any more: its row has gone, or is final.
HasNoRow(d) == status[d] = "absent"
Settled(d) == HasNoRow(d) \/ IsTerminal(status[d])

\* The name has one app at a time, and an id is not used again.
AppsOK ==
  /\ apps = {} \/ \E a \in App : apps = {a}
  /\ apps \subseteq born /\ born \subseteq App /\ moved \subseteq App
  /\ branch \in [App -> Branch \cup {NoBranch}]
  /\ \A a \in App : branch[a] = NoBranch <=> a \notin born

\* The rows are of an app there was, in the order of their ids, and go with it.
RowsOK ==
  /\ OneActivePerApp
  /\ \A d \in Dep : IF d < next THEN owner[d] \in born /\ (HasNoRow(d) <=> owner[d] \notin apps)
                    ELSE owner[d] = NoApp /\ HasNoRow(d)

\* Where a pipeline may be, by its row; the row of a pipeline may have gone.
PlacesOK ==
  /\ place \in [Dep -> {"none", "clone", "ship", "close"}]
  /\ \A d \in Dep :
       /\ status[d] = "queued" => place[d] = "none"
       /\ status[d] = "building" => place[d] = "clone"
       /\ status[d] = "deploying" => place[d] = "ship"
       /\ place[d] = "clone" => status[d] \in {"building", "cancelled", "absent"}
       /\ place[d] = "ship" => status[d] \in {"deploying", "absent"}
       /\ place[d] = "close" => Settled(d)
       /\ place[d] # "none" => d < next

\* A stream is closed only behind an attempt that is over.
ClosedOK == \A d \in closed : d \in Dep /\ d < next /\ Settled(d)

\* The apps whose tip, container and pushes go together.
Steady == apps \ moved

\* A commit of the branch was there before its tip, unless the repository went.
Reached(c, b) == tip[b] = 0 \/ c <= tip[b]

\* Commits are numbered as they are stored.
HostTypes ==
  /\ repo \in BOOLEAN /\ removing \in BOOLEAN
  /\ commits \in Nat /\ tip \in [Branch -> 0..commits]
  /\ built \in [Dep -> 0..commits] /\ served \in 0..commits

\* What is brought up is of the branch, and newer than what is there.
ServedOK ==
  /\ apps = {} => served = 0
  /\ \A a \in Steady : Reached(served, branch[a])
  /\ \A d \in Dep :
       /\ built[d] # 0 <=> place[d] = "ship"
       /\ place[d] = "ship" /\ owner[d] \in Steady =>
            Reached(built[d], branch[owner[d]]) /\ served <= built[d]

\* What a push may know when n commits have been stored.
PushType(n) ==
  [at : {"idle", "receive", "hook", "cold", "enqueue", "stream",
         "finish", "deployed", "stored", "failed", "error"},
   ref : Branch \cup {NoBranch}, commit : 0..n,
   app : App \cup {NoApp}, branch : Branch \cup {NoBranch}, dep : 0..MaxDep]

\* Each push knows no more.
PushTypes == push \in [Push -> PushType(commits)]

\* A push knows where its commit went.
StoredOK(r) ==
  /\ r.at \in {"hook", "cold", "enqueue"} =>
       /\ r.ref \in Branch /\ r.commit # 0 /\ Reached(r.commit, r.ref)
       /\ \A b \in Branch : b # r.ref => tip[b] # r.commit
  /\ r.at \in {"enqueue", "stream", "finish", "deployed", "stored", "failed"} => r.app \in born
  /\ r.at = "enqueue" => r.branch \in Branch
  /\ r.at = "enqueue" /\ r.app \in Steady => r.branch = branch[r.app]
  /\ r.at = "stored" => r.commit # 0 /\ (r.app \in Steady => tip[branch[r.app]] # r.commit)

\* A push that follows an attempt follows one of its own.
FollowsOK(r) ==
  /\ r.at \in {"stream", "finish"} =>
       /\ r.dep \in Dep /\ r.dep < next /\ owner[r.dep] = r.app
       /\ r.app \in Steady =>
            /\ Reached(r.commit, branch[r.app])
            /\ built[r.dep] # 0 => r.commit <= built[r.dep]
            /\ status[r.dep] = "running" => r.commit <= served
  /\ r.at = "stream" /\ r.app \in apps =>
       status[r.dep] = "queued" \/ place[r.dep] # "none" \/ r.dep \in closed
  /\ r.at = "finish" => r.dep \in closed

\* What a push was told is so.
ToldOK(r) ==
  /\ r.at \in {"deployed", "failed"} => r.dep \in Dep /\ r.dep < next /\ Settled(r.dep)
  /\ r.at = "deployed" => status[r.dep] \in {"running", "superseded", "absent"}
  /\ r.at = "deployed" /\ r.app \in Steady => r.commit <= served
  /\ r.at = "failed" => status[r.dep] # "running"

\* The pushes that git has done with: each has stored a commit at most.
Begun == {p \in Push : push[p].at \notin {"idle", "receive"}}

\* All that the pushes know.
PushesOK ==
  /\ PushTypes /\ commits <= Cardinality(Begun)
  /\ \A p \in Push : StoredOK(push[p]) /\ FollowsOK(push[p]) /\ ToldOK(push[p])

\* The inductive invariant.  The exit code needs what the container serves, which needs
\* what the pipelines have cloned, which needs what the branches have reached.
IInv ==
  TypeOK /\ AppsOK /\ RowsOK /\ PlacesOK /\ ClosedOK /\ HostTypes /\ ServedOK /\ PushesOK

USE AppAssumption, MaxDepAssumption, GitPushAssumption

-----------------------------------------------------------------------------
(* The rows. *)

\* The rows' statuses, as the deployments module knows them, are the ones named here.
LEMMA StatusFacts ==
  /\ \A s : IsTerminal(s) <=> s \in {"running", "failed", "cancelled", "superseded"}
  /\ \A s : IsActive(s) <=> s \in {"building", "deploying"}
  /\ \A s : CanCancel(s) <=> s \in {"queued", "building"}
  /\ \A s \in Status : transitions[s] =
       CASE s = "queued" -> {"building", "cancelled"}
         [] s = "building" -> {"deploying", "failed", "cancelled"}
         [] s = "deploying" -> {"running", "failed"}
         [] s = "running" -> {"superseded"}
         [] OTHER -> {}
BY DEF IsTerminal, IsActive, CanCancel, transitions, Status

\* What a step never takes back, of the rows there are before it.
Follows ==
  /\ next <= next'
  /\ \A d \in Dep : d < next =>
       /\ owner'[d] = owner[d]
       /\ HasNoRow(d) => HasNoRow(d)'
       /\ Settled(d) => Settled(d)'
       /\ status'[d] = "running" => status[d] \in {"deploying", "running"}
       /\ status[d] \in {"running", "superseded"} => status'[d] \in {"running", "superseded", "absent"}
  /\ \A d \in Dep : d >= next => status'[d] # "running"

\* The table keeps its types and its order, whoever writes to it.
LEMMA RowsStep ==
  ASSUME TypeOK, AppsOK, RowsOK, [Next]_vars, born' = born
  PROVE  TypeOK' /\ RowsOK' /\ Follows /\ apps' \subseteq apps
<1> USE StatusFacts DEF TypeOK, Dep
<1>1. ASSUME NEW a \in App, Enqueue(a) PROVE TypeOK' /\ RowsOK' /\ Follows /\ apps' \subseteq apps
  <2>1. /\ a \in apps /\ next \in Dep /\ next' = next + 1 /\ apps' = apps
        /\ owner' = [owner EXCEPT ![next] = a] /\ status' = [status EXCEPT ![next] = "queued"]
        /\ a \in born
    BY <1>1 DEF Enqueue, AppsOK
  <2>2. TypeOK'
    BY <2>1 DEF Status
  <2>3. \A d \in Dep : d # next => owner'[d] = owner[d] /\ status'[d] = status[d]
    BY <2>1
  <2>4. owner'[next] = a /\ status'[next] = "queued"
    BY <2>1
  <2>5. OneActivePerApp'
    <3> SUFFICES ASSUME NEW d \in Dep, NEW e \in Dep, owner'[d] = owner'[e],
                        IsActive(status'[d]), IsActive(status'[e])
                 PROVE d = e
      BY DEF OneActivePerApp
    <3>1. d # next /\ e # next
      BY <2>4
    <3> QED
      BY <2>3, <3>1 DEF RowsOK, OneActivePerApp
  <2>6. RowsOK'
    BY <2>1, <2>3, <2>4, <2>5 DEF RowsOK, HasNoRow
  <2>7. Follows
    BY <2>1, <2>3, <2>4 DEF Follows, HasNoRow, Settled, RowsOK
  <2> QED
    BY <2>1, <2>2, <2>6, <2>7
<1>2. ASSUME NEW a \in App, DeleteApp(a) PROVE TypeOK' /\ RowsOK' /\ Follows /\ apps' \subseteq apps
  <2>1. /\ a \in apps /\ apps' = apps \ {a} /\ owner' = owner /\ next' = next
        /\ status' = [d \in Dep |-> IF owner[d] = a THEN "absent" ELSE status[d]]
    BY <1>2 DEF DeleteApp
  <2>2. TypeOK' /\ RowsOK'
    BY <2>1 DEF RowsOK, HasNoRow, OneActivePerApp
  <2> QED
    BY <2>1, <2>2 DEF Follows, HasNoRow, Settled, RowsOK
<1>3. ASSUME NEW d \in Dep, Claim(d) PROVE TypeOK' /\ RowsOK' /\ Follows /\ apps' \subseteq apps
  <2>1. /\ status[d] = "queued" /\ owner' = owner /\ next' = next /\ apps' = apps
        /\ status' = [status EXCEPT ![d] = "building"]
    BY <1>3 DEF Claim
  <2>2. TypeOK'
    BY <2>1 DEF Status
  <2>3. \A e \in Rows(owner[d]) : ~IsActive(status[e])
    BY <1>3 DEF Claim
  <2>4. OneActivePerApp'
    BY <2>1, <2>3 DEF RowsOK, OneActivePerApp, Rows
  <2>5. RowsOK'
    BY <2>1, <2>4 DEF RowsOK, HasNoRow
  <2> QED
    BY <2>1, <2>2, <2>5 DEF Follows, HasNoRow, Settled, RowsOK
<1>4. ASSUME NEW d \in Dep, NEW to \in Status, Move(d, to)
      PROVE  TypeOK' /\ RowsOK' /\ Follows /\ apps' \subseteq apps
  <2>1. /\ status[d] \in Status /\ to \in transitions[status[d]] /\ to # "building"
        /\ owner' = owner /\ next' = next /\ apps' = apps
        /\ status' = [status EXCEPT ![d] = to]
        /\ to # "superseded"
    BY <1>4 DEF Move
  <2>2. TypeOK'
    BY <2>1
  <2>3. /\ IsActive(to) => IsActive(status[d])
        /\ status[d] \in {"queued", "building", "deploying"}
        /\ to = "running" => status[d] = "deploying"
        /\ to # "absent"
    BY <2>1 DEF Status
  <2>4. OneActivePerApp'
    BY <2>1, <2>3 DEF RowsOK, OneActivePerApp
  <2>5. RowsOK'
    BY <2>1, <2>3, <2>4 DEF RowsOK, HasNoRow, Status
  <2> QED
    BY <2>1, <2>2, <2>3, <2>5 DEF Follows, HasNoRow, Settled, RowsOK
<1>5. ASSUME NEW d \in Dep, Retire(d) PROVE TypeOK' /\ RowsOK' /\ Follows /\ apps' \subseteq apps
  <2>1. /\ owner' = owner /\ next' = next /\ apps' = apps
        /\ status' = [e \in Dep |-> IF e \in Rows(owner[d]) \ {d} /\ status[e] = "running"
                                    THEN "superseded" ELSE status[e]]
    BY <1>5 DEF Retire
  <2>2. \A e \in Dep : status'[e] = status[e] \/ (status[e] = "running" /\ status'[e] = "superseded")
    BY <2>1
  <2>3. TypeOK'
    BY <2>1 DEF Status
  <2>4. RowsOK'
    BY <2>1, <2>2 DEF RowsOK, HasNoRow, OneActivePerApp
  <2> QED
    BY <2>1, <2>2, <2>3, <2>4 DEF Follows, HasNoRow, Settled, RowsOK
<1>6. CASE Recover
  <2>1. /\ owner' = owner /\ next' = next /\ apps' = apps
        /\ status' = [d \in Dep |-> IF IsActive(status[d]) THEN "failed" ELSE status[d]]
    BY <1>6 DEF Recover
  <2>2. \A e \in Dep : status'[e] = status[e] \/ (IsActive(status[e]) /\ status'[e] = "failed")
    BY <2>1
  <2>3. TypeOK'
    BY <2>1 DEF Status
  <2>4. RowsOK'
    BY <2>1, <2>2 DEF RowsOK, HasNoRow, OneActivePerApp
  <2> QED
    BY <2>1, <2>2, <2>3, <2>4 DEF Follows, HasNoRow, Settled, RowsOK
<1>7. CASE UNCHANGED vars
  <2>1. owner' = owner /\ next' = next /\ apps' = apps /\ status' = status
    BY <1>7 DEF vars
  <2> QED
    BY <2>1 DEF RowsOK, OneActivePerApp, Follows, HasNoRow, Settled
<1> QED
  BY <1>1, <1>2, <1>3, <1>4, <1>5, <1>6, <1>7 DEF Next


-----------------------------------------------------------------------------
(* One step of a push, of the worker or of a handler. *)

\* The app a push creates is the only one of its name, and its id is new.
Create(a) ==
  /\ apps = {} /\ a \in App \ born
  /\ apps' = {a} /\ born' = born \cup {a}
  /\ \E b \in Branch : branch' = [branch EXCEPT ![a] = b]
  /\ UNCHANGED <<owner, status, next, host, work, removing, served, moved>>

\* Each step does to the rows what the deployments table allows, or creates an app.
LEMMA RowSteps ==
  ASSUME TypeOK, PushesOK, [GpNext]_gpVars
  PROVE  ([Next]_vars /\ born' = born) \/ (\E a \in App : Create(a))
<1> USE DEF rows, vars
<1>1. ASSUME NEW p \in Push, coldCreate(p)
      PROVE  ([Next]_vars /\ born' = born) \/ (\E a \in App : Create(a))
  <2>1. push[p].ref \in Branch
    BY <1>1 DEF coldCreate, At, PushesOK, StoredOK
  <2>2. CASE repo /\ apps = {}
    BY <1>1, <2>1, <2>2 DEF coldCreate, Create
  <2>3. CASE ~(repo /\ apps = {})
    BY <1>1, <2>3 DEF coldCreate
  <2> QED
    BY <2>2, <2>3
<1>2. ASSUME NEW p \in Push, serve(p) PROVE [Next]_vars /\ born' = born
  <2>1. push[p].app \in App \cup {NoApp} /\ push[p].at = "enqueue" /\ push[p].app \in born
    BY <1>2 DEF serve, At, PushesOK, PushTypes, PushType, StoredOK
  <2>2. push[p].app \in apps => push[p].app \in born
    BY <2>1
  <2>3. ASSUME Enqueue(push[p].app) PROVE [Next]_vars
    <3>1. push[p].app \in App \/ push[p].app = NoApp
      BY <2>1
    <3>2. CASE push[p].app \in App
      BY <2>3, <3>2 DEF Next
    <3>3. CASE push[p].app = NoApp
      BY <2>3, <3>3 DEF Enqueue, TypeOK
    <3> QED
      BY <3>1, <3>2, <3>3
  <2> QED
    BY <1>2, <2>3 DEF serve
<1>3. ASSUME NEW p \in Push,
             runGit(p) \/ (\E b \in Branch : ReceivePack(p, b)) \/ resolveOrCreate(p)
               \/ runDeploy(p) \/ finish(p) \/ Timeout(p)
      PROVE  [Next]_vars /\ born' = born
  BY <1>3 DEF runGit, ReceivePack, resolveOrCreate, runDeploy, finish, Timeout
<1>4. ASSUME NEW d \in Dep, NEW from, NEW to \in Status, SetStatus(d, from, to) PROVE [Next]_vars
  BY <1>4 DEF SetStatus, Next
<1>5. ASSUME NEW d \in Dep, Start(d) \/ Pipeline(d) \/ Cancel(d) PROVE [Next]_vars /\ born' = born
  <2>1. CASE Start(d)
    BY <2>1 DEF Start, Next
  <2>2. CASE Clone(d) \/ Fail(d) \/ Ship(d)
    BY <2>2, <1>4 DEF Clone, Fail, Ship, Status
  <2>3. CASE Close(d)
    BY <2>3 DEF Close, Next
  <2>4. CASE Cancel(d)
    BY <2>4 DEF Cancel, Next, Status
  <2> QED
    BY <1>5, <2>1, <2>2, <2>3, <2>4 DEF Pipeline
<1>6. ASSUME NEW a \in App, Click(a) \/ DeleteRows(a) \/ (\E b \in Branch : SetBranch(a, b))
      PROVE  [Next]_vars /\ born' = born
  BY <1>6 DEF Click, DeleteRows, SetBranch, Next
<1>7. CASE RemoveRepo \/ UNCHANGED gpVars
  BY <1>7 DEF RemoveRepo, gpVars
<1>8. CASE Restart
  BY <1>8 DEF Restart, Next
<1> QED
  BY <1>1, <1>2, <1>3, <1>5, <1>6, <1>7, <1>8 DEF GpNext, Bridge

\* So every step keeps the rows in order.
LEMMA RowsFollow ==
  ASSUME IInv, [GpNext]_gpVars
  PROVE  TypeOK' /\ RowsOK' /\ Follows /\ (\A a \in born : a \in apps' => a \in apps)
<1>1. CASE [Next]_vars /\ born' = born
  BY <1>1, RowsStep DEF IInv
<1>2. ASSUME NEW a \in App, Create(a)
      PROVE  TypeOK' /\ RowsOK' /\ Follows /\ (\A b \in born : b \in apps' => b \in apps)
  <2>1. /\ a \notin born /\ apps = {} /\ apps' = {a} /\ born' = born \cup {a}
        /\ owner' = owner /\ status' = status /\ next' = next
    BY <1>2 DEF Create
  <2>2. TypeOK'
    BY <2>1 DEF TypeOK, IInv
  <2>3. RowsOK'
    BY <2>1 DEF RowsOK, OneActivePerApp, HasNoRow, IInv
  <2>4. Follows
    BY <2>1 DEF Follows, HasNoRow, Settled, RowsOK, TypeOK, IInv
  <2> QED
    BY <2>1, <2>2, <2>3, <2>4
<1> QED
  BY <1>1, <1>2, RowSteps DEF IInv

\* The name keeps to one app at a time.
LEMMA AppsStep ==
  ASSUME IInv, [GpNext]_gpVars
  PROVE  AppsOK' /\ born \subseteq born' /\ (\A a \in born : a \in Steady' => a \in Steady /\ branch'[a] = branch[a])
<1> USE DEF AppsOK, Steady
<1>0. AppsOK
  BY DEF IInv
<1>1. ASSUME NEW a \in App, Create(a)
      PROVE  AppsOK' /\ born \subseteq born' /\ (\A b \in born : b \in Steady' => b \in Steady /\ branch'[b] = branch[b])
  BY <1>0, <1>1 DEF Create
<1>2. CASE UNCHANGED <<apps, born, branch, moved>>
  BY <1>0, <1>2
<1>3. ASSUME NEW p \in Push,
             runGit(p) \/ (\E b \in Branch : ReceivePack(p, b)) \/ Bridge(p) \/ Timeout(p),
             ~\E a \in App : Create(a)
      PROVE  UNCHANGED <<apps, born, branch, moved>>
  <2>1. push[p].at = "cold" => push[p].ref \in Branch
    BY DEF IInv, PushesOK, StoredOK
  <2>2. CASE coldCreate(p)
    BY <2>1, <2>2, <1>3 DEF coldCreate, Create, At
  <2>3. CASE serve(p)
    BY <2>3 DEF serve, rows, Enqueue
  <2> QED
    BY <1>3, <2>2, <2>3 DEF Bridge, runGit, ReceivePack, resolveOrCreate, runDeploy, finish, Timeout, rows
<1>4. ASSUME NEW d \in Dep, Start(d) \/ Pipeline(d) \/ Cancel(d)
      PROVE  UNCHANGED <<apps, born, branch, moved>>
  BY <1>4 DEF Start, Pipeline, Clone, Fail, Ship, Close, Cancel, SetStatus, Move, Claim, Retire, rows
<1>5. ASSUME NEW a \in App, Click(a) PROVE UNCHANGED <<apps, born, branch, moved>>
  BY <1>5 DEF Click, Enqueue
<1>6. ASSUME NEW a \in App, DeleteRows(a)
      PROVE  AppsOK' /\ born' = born /\ (\A b \in born : b \in Steady' => b \in Steady /\ branch'[b] = branch[b])
  <2>1. apps' = apps \ {a} /\ UNCHANGED <<born, branch, moved>>
    BY <1>6 DEF DeleteRows, DeleteApp
  <2> QED
    BY <1>0, <2>1
<1>7. ASSUME NEW a \in App, NEW b \in Branch, SetBranch(a, b)
      PROVE  AppsOK' /\ born' = born /\ (\A c \in born : c \in Steady' => c \in Steady /\ branch'[c] = branch[c])
  <2>1. /\ a \in apps /\ branch' = [branch EXCEPT ![a] = b] /\ moved' = moved \cup {a}
        /\ apps' = apps /\ born' = born
    BY <1>7 DEF SetBranch, rows
  <2> QED
    BY <1>0, <2>1
<1>8. ASSUME RemoveRepo \/ Restart \/ UNCHANGED gpVars
      PROVE  UNCHANGED <<apps, born, branch, moved>>
  BY <1>8 DEF RemoveRepo, Restart, Recover, gpVars, rows
<1> QED
  BY <1>1, <1>2, <1>3, <1>4, <1>5, <1>6, <1>7, <1>8 DEF GpNext

-----------------------------------------------------------------------------
(* Where the pipelines are. *)

\* What a step does to the pipelines and the streams, whoever takes it.
LEMMA QuietSteps ==
  ASSUME IInv, NEW p \in Push,
         runGit(p) \/ (\E b \in Branch : ReceivePack(p, b)) \/ Bridge(p) \/ Timeout(p)
  PROVE  /\ UNCHANGED <<place, built, closed, removing, served, moved>>
         /\ UNCHANGED status \/ (Enqueue(push[p].app) /\ serve(p))
<1> USE DEF rows, work
<1>1. CASE runGit(p) \/ (\E b \in Branch : ReceivePack(p, b))
  BY <1>1 DEF runGit, ReceivePack
<1>2. CASE resolveOrCreate(p)
  BY <1>2 DEF resolveOrCreate
<1>3. CASE coldCreate(p)
  BY <1>3 DEF coldCreate
<1>4. CASE serve(p)
  BY <1>4 DEF serve
<1>5. CASE runDeploy(p) \/ finish(p) \/ Timeout(p)
  BY <1>5 DEF runDeploy, finish, Timeout
<1> QED
  BY <1>1, <1>2, <1>3, <1>4, <1>5 DEF Bridge

\* A step that moves no row and no pipeline.
LEMMA PlacesUnmoved ==
  ASSUME IInv, UNCHANGED <<place, status>>, next <= next', next' \in Nat
  PROVE  PlacesOK'
BY DEF IInv, PlacesOK, Settled, HasNoRow, TypeOK, Dep

\* A new row has no pipeline yet.
LEMMA PlacesQueued ==
  ASSUME IInv, NEW a, Enqueue(a), UNCHANGED place
  PROVE  PlacesOK'
<1>1. /\ next \in Dep /\ next' = next + 1 /\ status' = [status EXCEPT ![next] = "queued"]
  BY DEF Enqueue
<1>2. place[next] = "none"
  BY <1>1 DEF IInv, PlacesOK, Dep
<1> QED
  BY <1>1, <1>2 DEF IInv, PlacesOK, Settled, HasNoRow, TypeOK, Dep

\* A guarded write changes one row, or none.
LEMMA SetStatusFacts ==
  ASSUME NEW d \in Dep, NEW from, NEW to, SetStatus(d, from, to)
  PROVE  /\ next' = next /\ apps' = apps /\ owner' = owner
         /\ status' = [status EXCEPT ![d] = IF status[d] = from THEN to ELSE status[d]] \/ status' = status
         /\ status[d] = from => status' = [status EXCEPT ![d] = to]
         /\ status[d] # from => status' = status
BY DEF SetStatus, Move, rows

\* The pipelines stay where their rows say.
LEMMA PlacesStep ==
  ASSUME IInv, [GpNext]_gpVars
  PROVE  PlacesOK'
<1> USE StatusFacts
<1>0. PlacesOK /\ TypeOK /\ next \in Nat /\ RowsOK
  BY DEF IInv, TypeOK
<1>10. next <= next' /\ next' \in Nat
  BY RowsFollow DEF Follows, TypeOK
<1>1. ASSUME NEW p \in Push,
             runGit(p) \/ (\E b \in Branch : ReceivePack(p, b)) \/ Bridge(p) \/ Timeout(p)
      PROVE  PlacesOK'
  BY <1>1, <1>10, QuietSteps, PlacesUnmoved, PlacesQueued
<1>2. ASSUME NEW d \in Dep, Start(d) PROVE PlacesOK'
  <2>1. /\ place' = [place EXCEPT ![d] = "clone"] /\ status[d] = "queued" /\ next' = next
        /\ status' = [status EXCEPT ![d] = "building"]
    BY <1>2 DEF Start, Goto, Claim
  <2>2. d < next
    BY <1>0, <2>1 DEF RowsOK, HasNoRow
  <2> QED
    BY <1>0, <2>1, <2>2 DEF PlacesOK, Settled, HasNoRow, TypeOK
<1>3. ASSUME NEW d \in Dep, Clone(d) PROVE PlacesOK'
  <2>1. /\ place' = [place EXCEPT ![d] = IF status[d] = "building" THEN "ship" ELSE "close"]
        /\ place[d] = "clone" /\ SetStatus(d, "building", "deploying")
    BY <1>3 DEF Clone, Goto
  <2>2. /\ next' = next
        /\ status[d] = "building" => status' = [status EXCEPT ![d] = "deploying"]
        /\ status[d] # "building" => status' = status
    BY <2>1, SetStatusFacts
  <2>3. status[d] \in {"building", "cancelled", "absent"} /\ d < next
    BY <1>0, <2>1 DEF PlacesOK
  <2> QED
    BY <1>0, <2>1, <2>2, <2>3 DEF PlacesOK, Settled, HasNoRow, TypeOK
<1>4. ASSUME NEW d \in Dep, Fail(d) PROVE PlacesOK'
  <2>1. /\ place' = [place EXCEPT ![d] = "close"] /\ place[d] \in {"clone", "ship"}
        /\ SetStatus(d, IF place[d] = "clone" THEN "building" ELSE "deploying", "failed")
    BY <1>4 DEF Fail, Goto
  <2>2. next' = next
    BY <2>1, SetStatusFacts
  <2>3. /\ place[d] = "clone" => status[d] \in {"building", "cancelled", "absent"}
        /\ place[d] = "ship" => status[d] \in {"deploying", "absent"}
        /\ d < next
    BY <1>0, <2>1 DEF PlacesOK
  <2>4. status'[d] \in {"failed", "cancelled", "absent"} /\ \A e \in Dep : e # d => status'[e] = status[e]
    BY <1>0, <2>1, <2>3, SetStatusFacts DEF TypeOK
  <2> QED
    BY <1>0, <2>1, <2>2, <2>3, <2>4 DEF PlacesOK, Settled, HasNoRow
<1>5. ASSUME NEW d \in Dep, Ship(d) PROVE PlacesOK'
  <2>1. /\ place' = [place EXCEPT ![d] = "close"] /\ place[d] = "ship"
        /\ SetStatus(d, "deploying", "running") /\ owner[d] \in apps
    BY <1>5 DEF Ship, Goto
  <2>2. next' = next
    BY <2>1, SetStatusFacts
  <2>3. status[d] \in {"deploying", "absent"} /\ d < next
    BY <1>0, <2>1 DEF PlacesOK
  <2>4. status'[d] \in {"running", "absent"} /\ \A e \in Dep : e # d => status'[e] = status[e]
    BY <1>0, <2>1, <2>3, SetStatusFacts DEF TypeOK
  <2> QED
    BY <1>0, <2>1, <2>2, <2>3, <2>4 DEF PlacesOK, Settled, HasNoRow
<1>6. ASSUME NEW d \in Dep, Close(d) PROVE PlacesOK'
  <2>1. place' = [place EXCEPT ![d] = "none"] /\ place[d] = "close"
    BY <1>6 DEF Close, Goto
  <2>2. next' = next /\ \A e \in Dep : status'[e] = status[e] \/ (status[e] = "running" /\ status'[e] = "superseded")
    BY <1>6 DEF Close, Retire, rows
  <2>3. Settled(d)
    BY <1>0, <2>1 DEF PlacesOK
  <2> QED
    BY <1>0, <2>1, <2>2, <2>3 DEF PlacesOK, Settled, HasNoRow
<1>7. ASSUME NEW d \in Dep, Cancel(d) PROVE PlacesOK'
  <2>1. /\ UNCHANGED <<place, next>> /\ status[d] \in {"queued", "building"}
        /\ status' = [status EXCEPT ![d] = "cancelled"]
    BY <1>7 DEF Cancel, Move
  <2> QED
    BY <1>0, <2>1 DEF PlacesOK, Settled, HasNoRow, TypeOK
<1>8. ASSUME NEW a \in App, Click(a) PROVE PlacesOK'
  BY <1>8, PlacesQueued DEF Click, work
<1>9. ASSUME NEW a \in App, DeleteRows(a) PROVE PlacesOK'
  <2>1. /\ UNCHANGED <<place, next>>
        /\ status' = [d \in Dep |-> IF owner[d] = a THEN "absent" ELSE status[d]]
    BY <1>9 DEF DeleteRows, DeleteApp, work
  <2> QED
    BY <1>0, <2>1 DEF PlacesOK, Settled, HasNoRow
<1>11. CASE (\E a \in App, b \in Branch : SetBranch(a, b)) \/ RemoveRepo \/ UNCHANGED gpVars
  BY <1>10, <1>11, PlacesUnmoved DEF SetBranch, RemoveRepo, gpVars, rows, work
<1>12. CASE Restart
  <2>1. /\ place' = [d \in Dep |-> "none"] /\ next' = next
        /\ status' = [d \in Dep |-> IF IsActive(status[d]) THEN "failed" ELSE status[d]]
    BY <1>12 DEF Restart, Recover
  <2> QED
    BY <1>0, <2>1 DEF PlacesOK, Settled, HasNoRow
<1> QED
  BY <1>1, <1>2, <1>3, <1>4, <1>5, <1>6, <1>7, <1>8, <1>9, <1>11, <1>12 DEF GpNext, Pipeline

\* A stream is closed behind its attempt.
LEMMA ClosedStep ==
  ASSUME IInv, [GpNext]_gpVars
  PROVE  ClosedOK' /\ closed \subseteq closed'
<1>1. Follows /\ next \in Nat /\ next' \in Nat
  BY RowsFollow DEF IInv, TypeOK
<1>2. CASE closed' = closed
  BY <1>1, <1>2 DEF ClosedOK, Follows, IInv, Dep
<1>3. ASSUME NEW d \in Dep, closed' = closed \cup {d}, d < next, Settled(d)'
      PROVE  ClosedOK' /\ closed \subseteq closed'
  <2>1. ASSUME NEW e \in closed PROVE e \in Dep /\ e < next' /\ Settled(e)'
    BY <1>1, <2>1 DEF ClosedOK, Follows, IInv, Dep
  <2>2. d < next'
    BY <1>1, <1>3 DEF Follows, Dep
  <2> QED
    BY <1>3, <2>1, <2>2 DEF ClosedOK
<1>4. ASSUME NEW d \in Dep, Close(d) PROVE closed' = closed \cup {d} /\ d < next /\ Settled(d)'
  <2>1. closed' = closed \cup {d} /\ place[d] = "close"
    BY <1>4 DEF Close
  <2>2. d < next /\ Settled(d)
    BY <2>1 DEF IInv, PlacesOK
  <2> QED
    BY <1>1, <2>1, <2>2 DEF Follows
<1>5. ASSUME NEW d \in Dep, Cancel(d) PROVE closed' = closed \cup {d} /\ d < next /\ Settled(d)'
  <2>1. closed' = closed \cup {d} /\ status[d] \in {"queued", "building"} /\ status'[d] = "cancelled"
    BY <1>5, StatusFacts DEF Cancel, Move, IInv, TypeOK
  <2> QED
    BY <2>1, StatusFacts DEF Settled, IInv, RowsOK, HasNoRow
<1>6. CASE GpNext
  <2>1. ASSUME NEW p \in Push,
               runGit(p) \/ (\E b \in Branch : ReceivePack(p, b)) \/ Bridge(p) \/ Timeout(p)
        PROVE  closed' = closed
    BY <2>1, QuietSteps
  <2>2. ASSUME NEW d \in Dep, Start(d) \/ Clone(d) \/ Fail(d) \/ Ship(d)
        PROVE  closed' = closed
    BY <2>2 DEF Start, Clone, Fail, Ship
  <2>3. ASSUME NEW a \in App, Click(a) \/ DeleteRows(a) \/ \E b \in Branch : SetBranch(a, b)
        PROVE  closed' = closed
    BY <2>3 DEF Click, DeleteRows, SetBranch, work
  <2>4. ASSUME RemoveRepo \/ Restart
        PROVE  closed' = closed
    BY <2>4 DEF RemoveRepo, Restart, work
  <2> QED
    BY <1>2, <1>3, <1>4, <1>5, <1>6, <2>1, <2>2, <2>3, <2>4 DEF GpNext, Pipeline
<1>7. CASE UNCHANGED gpVars
  BY <1>2, <1>7 DEF gpVars, work
<1> QED
  BY <1>6, <1>7

-----------------------------------------------------------------------------
(* What the container serves. *)

\* What a step never takes back, of the repository and the container: a commit a
\* branch has reached, and the place in line of what is brought up.
Keeps ==
  /\ commits <= commits'
  /\ \A c \in 0..commits, b \in Branch :
       /\ Reached(c, b) => Reached(c, b)'
       /\ c # 0 /\ tip[b] # c => tip'[b] # c
  /\ \A a \in born : a \in Steady' => served <= served'
  /\ \A d \in Dep : d < next =>
       /\ status'[d] = "running" =>
            status[d] = "running" \/ (built[d] # 0 /\ (owner[d] \in Steady' => served' = built[d]))
       /\ built'[d] # 0 =>
            built'[d] = built[d] \/ (/\ owner[d] \in apps /\ tip[branch[owner[d]]] # 0
                                     /\ built'[d] = tip[branch[owner[d]]])

\* The first part of it, of the branches alone.
TipsKept ==
  \A c \in 0..commits, b \in Branch :
    /\ Reached(c, b) => Reached(c, b)'
    /\ c # 0 /\ tip[b] # c => tip'[b] # c

\* A step that leaves the container and what is on its way alone.
LEMMA ServedKept ==
  ASSUME IInv, [GpNext]_gpVars, UNCHANGED <<place, built, served>>, TipsKept,
         \A a \in apps' \ born : served = 0,
         apps' = {} => served = 0,
         tip' \in [Branch -> 0..commits'], commits' \in Nat,
         \A d \in Dep : status'[d] = "running" => status[d] = "running"
  PROVE  ServedOK' /\ (commits <= commits' => Keeps)
<1>1. /\ AppsOK' /\ RowsOK /\ PlacesOK /\ HostTypes /\ ServedOK /\ AppsOK
      /\ \A a \in born : a \in Steady' => a \in Steady /\ branch'[a] = branch[a]
  BY AppsStep DEF IInv
<1>2. \A d \in Dep : place[d] # "none" => owner'[d] = owner[d] /\ owner[d] \in born
  BY <1>1, RowsFollow DEF PlacesOK, RowsOK, Follows
<1>3. ASSUME NEW a \in Steady' PROVE Reached(served, branch[a])'
  <2>1. branch'[a] \in Branch /\ a \in apps'
    BY <1>1 DEF AppsOK, Steady
  <2>2. CASE a \in born
    BY <1>1, <2>1, <2>2 DEF ServedOK, TipsKept, HostTypes
  <2>3. CASE a \notin born
    <3>1. served' = 0
      BY <2>1, <2>3
    <3>2. tip'[branch'[a]] \in Nat
      BY <2>1
    <3> QED
      BY <3>1, <3>2 DEF Reached
  <2> QED
    BY <2>2, <2>3
<1>4. ASSUME NEW d \in Dep, place[d] = "ship", owner'[d] \in Steady'
      PROVE  Reached(built[d], branch[owner[d]])' /\ served <= built[d]
  <2>1. owner[d] \in Steady /\ owner'[d] = owner[d] /\ branch'[owner[d]] = branch[owner[d]]
    BY <1>1, <1>2, <1>4
  <2>2. Reached(built[d], branch[owner[d]]) /\ served <= built[d] /\ built[d] \in 0..commits
    BY <1>1, <1>4, <2>1 DEF ServedOK, HostTypes
  <2>3. branch[owner[d]] \in Branch
    BY <1>1, <1>2, <1>4 DEF AppsOK
  <2> QED
    BY <2>1, <2>2, <2>3 DEF TipsKept
<1>5. ServedOK'
  BY <1>1, <1>3, <1>4 DEF ServedOK
<1>6. commits <= commits' => Keeps
  BY <1>1 DEF Keeps, TipsKept, HostTypes
<1> QED
  BY <1>5, <1>6

\* An attempt of the app, in the end, brings up what is newer there.
LEMMA ShipFacts ==
  ASSUME IInv, NEW d \in Dep, place[d] = "ship", owner[d] \in apps
  PROVE  /\ built[d] # 0 /\ built[d] \in 0..commits /\ owner[d] \in born /\ d < next
         /\ apps = {owner[d]}
         /\ owner[d] \in Steady => Reached(built[d], branch[owner[d]]) /\ served <= built[d]
         /\ status[d] = "deploying"
         /\ \A e \in Dep : place[e] = "ship" /\ owner[e] \in apps => e = d
<1>1. \A e \in Dep : place[e] = "ship" /\ owner[e] \in apps => status[e] = "deploying" /\ owner[e] = owner[d]
  BY DEF IInv, PlacesOK, RowsOK, HasNoRow, AppsOK
<1>2. \A e \in Dep : place[e] = "ship" /\ owner[e] \in apps => e = d
  BY <1>1, StatusFacts DEF IInv, RowsOK, OneActivePerApp
<1>3. d < next /\ owner[d] \in born
  BY DEF IInv, PlacesOK, RowsOK
<1>4. built[d] # 0 /\ built[d] \in 0..commits
  BY DEF IInv, ServedOK, HostTypes
<1> QED
  BY <1>1, <1>2, <1>3, <1>4 DEF IInv, ServedOK, AppsOK

\* The end of an attempt that was to bring something up.
LEMMA Delivered ==
  ASSUME IInv, [GpNext]_gpVars, NEW d \in Dep, place[d] \in {"clone", "ship"},
         place' = [place EXCEPT ![d] = "close"], built' = [built EXCEPT ![d] = 0],
         served' = served \/ (place[d] = "ship" /\ owner[d] \in apps /\ served' = built[d]),
         UNCHANGED <<apps, born, branch, moved, owner, tip, commits>>,
         \A e \in Dep : status'[e] = "running" =>
           status[e] = "running" \/ (e = d /\ place[d] = "ship" /\ owner[d] \in apps /\ served' = built[d])
  PROVE  ServedOK' /\ Keeps
<1>1. /\ AppsOK /\ RowsOK /\ PlacesOK /\ HostTypes /\ ServedOK
      /\ Steady' = Steady
  BY DEF IInv, Steady
<1>2. built \in [Dep -> 0..commits] /\ commits \in Nat /\ served \in Nat
  BY <1>1 DEF HostTypes
<1>3. CASE served' = served
  <2>3. \A e \in Dep : built'[e] # 0 <=> place'[e] = "ship"
    BY <1>1, <1>2 DEF ServedOK, PlacesOK
  <2>4. \A e \in Dep : place'[e] = "ship" => e # d /\ place[e] = "ship" /\ built'[e] = built[e]
    BY <1>1, <1>2 DEF PlacesOK
  <2>1. ServedOK'
    BY <1>1, <1>2, <1>3, <2>3, <2>4 DEF ServedOK, Reached
  <2>2. Keeps
    BY <1>1, <1>2, <1>3, ShipFacts DEF Keeps, Reached
  <2> QED
    BY <2>1, <2>2
<1>4. CASE place[d] = "ship" /\ owner[d] \in apps /\ served' = built[d]
  <2>1. /\ built[d] # 0 /\ built[d] \in 0..commits /\ owner[d] \in born /\ d < next
        /\ apps = {owner[d]}
        /\ owner[d] \in Steady => Reached(built[d], branch[owner[d]]) /\ served <= built[d]
        /\ \A e \in Dep : place[e] = "ship" /\ owner[e] \in apps => e = d
    BY <1>4, ShipFacts
  <2>2. Steady \subseteq {owner[d]} /\ Steady \subseteq apps
    BY <2>1 DEF Steady
  <2>3. ASSUME NEW e \in Dep, place'[e] = "ship", owner'[e] \in Steady' PROVE FALSE
    <3>1. place' [d] = "close" /\ e # d /\ place[e] = "ship"
      BY <1>1, <2>3 DEF PlacesOK
    <3> QED
      BY <1>1, <2>1, <2>2, <2>3, <3>1
  <2>4. \A e \in Dep : built'[e] # 0 <=> place'[e] = "ship"
    BY <1>1, <1>2 DEF ServedOK, PlacesOK
  <2>5. \A a \in Steady' : Reached(served, branch[a])'
    BY <1>1, <1>4, <2>1, <2>2 DEF Reached
  <2>6. ServedOK'
    BY <2>1, <2>3, <2>4, <2>5 DEF ServedOK
  <2>7. \A a \in born : a \in Steady' => served <= served'
    BY <1>1, <1>4, <2>1, <2>2
  <2>8. Keeps
    BY <1>1, <1>2, <1>4, <2>1, <2>7 DEF Keeps, Reached
  <2> QED
    BY <2>6, <2>8
<1> QED
  BY <1>3, <1>4

\* What a step does to the repository: nothing, another commit on a branch, or no branch.
LEMMA Tips ==
  ASSUME HostTypes,
         \/ tip' = tip /\ commits' = commits
         \/ tip' = [b \in Branch |-> 0] /\ commits' = commits
         \/ \E b \in Branch : tip' = [tip EXCEPT ![b] = commits + 1] /\ commits' = commits + 1
  PROVE  /\ TipsKept /\ commits <= commits' /\ commits' \in Nat
         /\ tip' \in [Branch -> 0..commits']
<1>1. commits \in Nat /\ tip \in [Branch -> 0..commits]
  BY DEF HostTypes
<1>2. commits' \in Nat /\ commits <= commits'
  BY <1>1
<1>3. tip' \in [Branch -> 0..commits']
  BY <1>1, <1>2
<1>4. TipsKept
  BY <1>1 DEF TipsKept, Reached
<1> QED
  BY <1>2, <1>3, <1>4

\* A step that leaves the container and what is on its way alone.
LEMMA HostKept ==
  ASSUME IInv, [GpNext]_gpVars, UNCHANGED <<place, built, served>>,
         repo' \in BOOLEAN, removing' \in BOOLEAN,
         \/ tip' = tip /\ commits' = commits
         \/ tip' = [b \in Branch |-> 0] /\ commits' = commits
         \/ \E b \in Branch : tip' = [tip EXCEPT ![b] = commits + 1] /\ commits' = commits + 1,
         apps' \in SUBSET apps \/ apps = {}, apps' = {} => served = 0,
         \A d \in Dep : status'[d] = "running" => status[d] = "running"
  PROVE  HostTypes' /\ ServedOK' /\ Keeps
<1>1. HostTypes /\ ServedOK /\ AppsOK
  BY DEF IInv
<1>2. TipsKept /\ commits <= commits' /\ commits' \in Nat /\ tip' \in [Branch -> 0..commits']
  BY <1>1, Tips
<1>3. commits \in Nat /\ built \in [Dep -> 0..commits] /\ served \in 0..commits
  BY <1>1 DEF HostTypes
<1>4. built' \in [Dep -> 0..commits'] /\ served' \in 0..commits'
  BY <1>2, <1>3
<1>5. HostTypes'
  BY <1>2, <1>4 DEF HostTypes
<1>6. \A a \in apps' \ born : served = 0
  BY <1>1 DEF ServedOK, AppsOK
<1> QED
  BY <1>2, <1>5, <1>6, ServedKept

\* Whatever is brought up, it is of the branch and newer than what is there.
LEMMA HostStep ==
  ASSUME IInv, [GpNext]_gpVars
  PROVE  HostTypes' /\ ServedOK' /\ Keeps
<1>0. /\ HostTypes /\ TypeOK /\ PlacesOK /\ ServedOK /\ RowsOK /\ AppsOK
      /\ repo \in BOOLEAN /\ removing \in BOOLEAN /\ commits \in Nat
      /\ built \in [Dep -> 0..commits] /\ served \in 0..commits
  BY DEF IInv, HostTypes
<1>1. ASSUME NEW p \in Push,
             runGit(p) \/ (\E b \in Branch : ReceivePack(p, b)) \/ Bridge(p) \/ Timeout(p)
      PROVE  HostTypes' /\ ServedOK' /\ Keeps
  <2>1. UNCHANGED <<place, built, closed, removing, served, moved>>
    BY <1>1, QuietSteps
  <2>2. \A d \in Dep : status'[d] = "running" => status[d] = "running"
    BY <1>0, <1>1, QuietSteps DEF Enqueue, TypeOK
  <2>3. CASE ~\E a \in App : Create(a)
    <3>1. \/ repo' = repo /\ tip' = tip /\ commits' = commits
          \/ repo' = TRUE /\ tip' = tip /\ commits' = commits
          \/ repo' = repo /\ \E b \in Branch : tip' = [tip EXCEPT ![b] = commits + 1] /\ commits' = commits + 1
      BY <1>1 DEF Bridge, runGit, ReceivePack, resolveOrCreate, coldCreate, serve, runDeploy, finish,
         Timeout, host, OpenRepo
    <3>2. apps' = apps
      <4>1. CASE coldCreate(p)
        <5>1. push[p].ref \in Branch
          BY <4>1 DEF coldCreate, At, IInv, PushesOK, StoredOK
        <5> QED
          BY <2>3, <4>1, <5>1 DEF coldCreate, Create
      <4>2. CASE serve(p)
        BY <4>2 DEF serve, Enqueue, rows
      <4> QED
        BY <1>1, <4>1, <4>2 DEF Bridge, runGit, ReceivePack, resolveOrCreate, runDeploy, finish, Timeout, rows
    <3> QED
      BY <1>0, <2>1, <2>2, <3>1, <3>2, HostKept DEF ServedOK
  <2>4. ASSUME NEW a \in App, Create(a) PROVE HostTypes' /\ ServedOK' /\ Keeps
    BY <1>0, <2>1, <2>2, <2>4, HostKept DEF Create, host, ServedOK
  <2> QED
    BY <2>3, <2>4
<1>2. ASSUME NEW d \in Dep, Start(d) PROVE HostTypes' /\ ServedOK' /\ Keeps
  <2>1. /\ place' = [place EXCEPT ![d] = "clone"] /\ status[d] = "queued" /\ apps' = apps
        /\ status' = [status EXCEPT ![d] = "building"] /\ owner' = owner
        /\ UNCHANGED <<born, branch, repo, tip, commits, built, removing, served, moved>>
    BY <1>2 DEF Start, Goto, Claim, host
  <2>2. HostTypes'
    BY <1>0, <2>1 DEF HostTypes
  <2>3. \A e \in Dep : place'[e] = "ship" <=> place[e] = "ship"
    BY <1>0, <2>1 DEF PlacesOK
  <2>4. ServedOK'
    BY <1>0, <2>1, <2>3 DEF ServedOK, Reached, Steady
  <2>5. Keeps
    BY <1>0, <2>1 DEF Keeps, Reached, TypeOK
  <2> QED
    BY <2>2, <2>4, <2>5
<1>3. ASSUME NEW d \in Dep, Clone(d) PROVE HostTypes' /\ ServedOK' /\ Keeps
  <2> DEFINE t == tip[branch[owner[d]]]
  <2>1. /\ place' = [place EXCEPT ![d] = IF status[d] = "building" THEN "ship" ELSE "close"]
        /\ place[d] = "clone" /\ SetStatus(d, "building", "deploying")
        /\ built' = [built EXCEPT ![d] = IF status[d] = "building" THEN t ELSE 0]
        /\ owner[d] \in apps /\ t # 0
        /\ UNCHANGED <<born, branch, repo, tip, commits, removing, served, moved>>
    BY <1>3 DEF Clone, Goto, host
  <2>2. /\ apps' = apps /\ owner' = owner
        /\ \A e \in Dep : status'[e] = "running" => status[e] = "running"
    BY <1>0, <2>1, SetStatusFacts DEF TypeOK
  <2>3. branch[owner[d]] \in Branch /\ t \in 0..commits
    BY <1>0, <2>1 DEF AppsOK, HostTypes
  <2>4. built' \in [Dep -> 0..commits]
    BY <1>0, <2>1, <2>3
  <2>5. HostTypes'
    BY <1>0, <2>1, <2>4 DEF HostTypes
  <2>6. \A e \in Dep : e # d => place'[e] = place[e] /\ built'[e] = built[e]
    BY <1>0, <2>1 DEF PlacesOK
  <2>7. /\ place'[d] = IF status[d] = "building" THEN "ship" ELSE "close"
        /\ built'[d] = IF status[d] = "building" THEN t ELSE 0
    BY <1>0, <2>1 DEF PlacesOK
  <2>8. Steady' = Steady
    BY <2>1, <2>2 DEF Steady
  <2>9. owner[d] \in Steady => Reached(t, branch[owner[d]]) /\ served <= t
    BY <1>0, <2>1, <2>3 DEF ServedOK, Reached
  <2>10. ServedOK'
    <3>1. \A e \in Dep : built'[e] # 0 <=> place'[e] = "ship"
      BY <1>0, <2>1, <2>6, <2>7 DEF ServedOK
    <3>2. \A a \in Steady' : Reached(served, branch[a])'
      BY <1>0, <2>1, <2>8 DEF ServedOK, Reached
    <3>3. ASSUME NEW e \in Dep, place'[e] = "ship", owner'[e] \in Steady'
          PROVE  Reached(built[e], branch[owner[e]])' /\ served' <= built'[e]
      <4>1. CASE e = d
        BY <2>1, <2>2, <2>7, <2>8, <2>9, <3>3, <4>1 DEF Reached
      <4>2. CASE e # d
        BY <1>0, <2>1, <2>2, <2>6, <2>8, <3>3, <4>2 DEF Reached, ServedOK
      <4> QED
        BY <4>1, <4>2
    <3> QED
      BY <1>0, <2>1, <2>2, <3>1, <3>2, <3>3 DEF ServedOK
  <2>11. Keeps
    BY <1>0, <2>1, <2>2, <2>6, <2>7 DEF Keeps, Reached
  <2> QED
    BY <2>5, <2>10, <2>11
<1>4. ASSUME NEW d \in Dep, Fail(d) PROVE HostTypes' /\ ServedOK' /\ Keeps
  <2>1. /\ place' = [place EXCEPT ![d] = "close"] /\ place[d] \in {"clone", "ship"}
        /\ SetStatus(d, IF place[d] = "clone" THEN "building" ELSE "deploying", "failed")
        /\ built' = [built EXCEPT ![d] = 0]
        /\ served' \in IF place[d] = "ship" /\ owner[d] \in apps THEN {served, built[d]} ELSE {served}
        /\ UNCHANGED <<born, branch, repo, tip, commits, removing, moved>>
    BY <1>4 DEF Fail, Goto, host
  <2>2. /\ apps' = apps /\ owner' = owner
        /\ \A e \in Dep : status'[e] = "running" => status[e] = "running"
    BY <1>0, <2>1, SetStatusFacts DEF TypeOK
  <2>3. HostTypes'
    BY <1>0, <2>1 DEF HostTypes
  <2> QED
    BY <2>1, <2>2, <2>3, Delivered
<1>5. ASSUME NEW d \in Dep, Ship(d) PROVE HostTypes' /\ ServedOK' /\ Keeps
  <2>1. /\ place' = [place EXCEPT ![d] = "close"] /\ place[d] = "ship" /\ owner[d] \in apps
        /\ SetStatus(d, "deploying", "running")
        /\ built' = [built EXCEPT ![d] = 0] /\ served' = built[d]
        /\ UNCHANGED <<born, branch, repo, tip, commits, removing, moved>>
    BY <1>5 DEF Ship, Goto, host
  <2>2. /\ apps' = apps /\ owner' = owner
        /\ \A e \in Dep : status'[e] = "running" => status[e] = "running" \/ e = d
    BY <1>0, <2>1, SetStatusFacts DEF TypeOK
  <2>3. HostTypes'
    BY <1>0, <2>1 DEF HostTypes
  <2> QED
    BY <2>1, <2>2, <2>3, Delivered
<1>6. ASSUME NEW d \in Dep, Close(d) PROVE HostTypes' /\ ServedOK' /\ Keeps
  <2>1. /\ place' = [place EXCEPT ![d] = "none"] /\ place[d] = "close"
        /\ UNCHANGED <<apps, owner, born, branch, repo, tip, commits, built, removing, served, moved>>
    BY <1>6 DEF Close, Goto, Retire, rows, host
  <2>2. \A e \in Dep : status'[e] = "running" => status[e] = "running"
    BY <1>0, <1>6 DEF Close, Retire, rows
  <2>3. \A e \in Dep : place'[e] = "ship" <=> place[e] = "ship"
    BY <1>0, <2>1 DEF PlacesOK
  <2>4. HostTypes'
    BY <1>0, <2>1 DEF HostTypes
  <2>5. ServedOK'
    BY <1>0, <2>1, <2>3 DEF ServedOK, Reached, Steady
  <2>6. Keeps
    BY <1>0, <2>1, <2>2 DEF Keeps, Reached
  <2> QED
    BY <2>4, <2>5, <2>6
<1>7. ASSUME NEW d \in Dep, Cancel(d) PROVE HostTypes' /\ ServedOK' /\ Keeps
  <2>1. \A e \in Dep : status'[e] = "running" => status[e] = "running"
    BY <1>0, <1>7 DEF Cancel, Move, TypeOK
  <2> QED
    BY <1>0, <1>7, <2>1, HostKept DEF Cancel, Move, host, ServedOK
<1>8. ASSUME NEW a \in App, Click(a) PROVE HostTypes' /\ ServedOK' /\ Keeps
  <2>1. \A e \in Dep : status'[e] = "running" => status[e] = "running"
    BY <1>0, <1>8 DEF Click, Enqueue, TypeOK
  <2> QED
    BY <1>0, <1>8, <2>1, HostKept DEF Click, Enqueue, host, work, ServedOK
<1>9. ASSUME NEW a \in App, DeleteRows(a) PROVE HostTypes' /\ ServedOK' /\ Keeps
  <2>1. /\ apps' = {} /\ served' = 0 /\ removing' = TRUE /\ owner' = owner
        /\ status' = [d \in Dep |-> IF owner[d] = a THEN "absent" ELSE status[d]]
        /\ UNCHANGED <<born, branch, repo, tip, commits, place, built, moved>>
    BY <1>0, <1>9 DEF DeleteRows, DeleteApp, work, host, AppsOK
  <2>2. Steady' = {}
    BY <2>1 DEF Steady
  <2>3. HostTypes'
    BY <1>0, <2>1 DEF HostTypes
  <2>4. ServedOK'
    BY <1>0, <2>1, <2>2 DEF ServedOK
  <2>5. Keeps
    BY <1>0, <2>1, <2>2 DEF Keeps, Reached
  <2> QED
    BY <2>3, <2>4, <2>5
<1>10. CASE (\E a \in App, b \in Branch : SetBranch(a, b)) \/ RemoveRepo \/ UNCHANGED gpVars
  <2>1. /\ UNCHANGED <<apps, status, place, built, served>>
        /\ repo' \in BOOLEAN /\ removing' \in BOOLEAN
        /\ (tip' = tip /\ commits' = commits) \/ (tip' = [b \in Branch |-> 0] /\ commits' = commits)
    BY <1>0, <1>10 DEF SetBranch, RemoveRepo, gpVars, rows, work, host
  <2> QED
    BY <1>0, <2>1, HostKept DEF ServedOK
<1>11. CASE Restart
  <2>1. /\ place' = [d \in Dep |-> "none"] /\ built' = [d \in Dep |-> 0] /\ removing' = FALSE
        /\ status' = [d \in Dep |-> IF IsActive(status[d]) THEN "failed" ELSE status[d]]
        /\ UNCHANGED <<apps, owner, born, branch, repo, tip, commits, served, moved>>
    BY <1>11 DEF Restart, Recover, host
  <2>2. HostTypes'
    <3>1. 0 \in 0..commits
      BY <1>0
    <3>2. built' \in [Dep -> 0..commits]
      BY <2>1, <3>1
    <3> QED
      BY <1>0, <2>1, <3>2 DEF HostTypes
  <2>3. ServedOK'
    BY <1>0, <2>1 DEF ServedOK, Steady, Reached
  <2>4. Keeps
    BY <1>0, <2>1 DEF Keeps, Reached
  <2> QED
    BY <2>2, <2>3, <2>4
<1> QED
  BY <1>1, <1>2, <1>3, <1>4, <1>5, <1>6, <1>7, <1>8, <1>9, <1>10, <1>11 DEF GpNext, Pipeline

-----------------------------------------------------------------------------
(* What the pushes know. *)

\* Nothing that anybody does takes from a push what it knows, and a wait goes on
\* until the attempt is done with.
LEMMA PushKept ==
  ASSUME IInv, [GpNext]_gpVars, NEW p \in Push, push'[p] = push[p],
         push[p].at = "stream" /\ push[p].app \in apps' /\ push[p].dep \in Dep =>
           LET d == push[p].dep
           IN (status[d] = "queued" \/ place[d] # "none" \/ d \in closed) =>
                (status'[d] = "queued" \/ place'[d] # "none" \/ d \in closed')
  PROVE  StoredOK(push[p])' /\ FollowsOK(push[p])' /\ ToldOK(push[p])'
<1> DEFINE r == push[p]
<1>1. /\ Follows /\ Keeps /\ AppsOK' /\ closed \subseteq closed' /\ born \subseteq born' 
      /\ \A a \in born : a \in Steady' => a \in Steady /\ branch'[a] = branch[a]
      /\ \A a \in born : a \in apps' => a \in apps
  BY RowsFollow, HostStep, AppsStep, ClosedStep
<1>2. /\ r \in PushType(commits)
      /\ StoredOK(r) /\ FollowsOK(r) /\ ToldOK(r)
  BY DEF IInv, PushesOK, PushTypes
<1>3. r.commit \in 0..commits /\ commits \in Nat /\ commits' \in Nat /\ next \in Nat /\ next' \in Nat
  BY <1>2, RowsFollow, HostStep DEF IInv, HostTypes, TypeOK, PushType
<1>4. \A a \in born : a \in Steady => branch[a] \in Branch
  BY DEF IInv, AppsOK
<1>5. StoredOK(r)'
  <2>1. \A b \in Branch : r.commit # 0 /\ tip[b] # r.commit => tip'[b] # r.commit
    BY <1>1, <1>3 DEF Keeps
  <2>2. \A b \in Branch : Reached(r.commit, b) => Reached(r.commit, b)'
    BY <1>1, <1>3 DEF Keeps
  <2>3. r' = r
    OBVIOUS
  <2>4. r.at \in {"hook", "cold", "enqueue"} =>
          /\ r.ref \in Branch /\ r.commit # 0 /\ Reached(r.commit, r.ref)'
          /\ \A b \in Branch : b # r.ref => tip'[b] # r.commit
    BY <1>2, <2>1, <2>2 DEF StoredOK
  <2>5. r.at = "stored" => r.commit # 0 /\ (r.app \in Steady' => tip'[branch'[r.app]] # r.commit)
    <3> SUFFICES ASSUME r.at = "stored" 
                 PROVE  r.commit # 0 /\ (r.app \in Steady' => tip'[branch'[r.app]] # r.commit)
      OBVIOUS
    <3>1. r.commit # 0 /\ r.app \in born /\ (r.app \in Steady => tip[branch[r.app]] # r.commit)
      BY <1>2 DEF StoredOK
    <3> QED
      BY <1>1, <1>4, <2>1, <3>1
  <2>6. r.at = "enqueue" /\ r.app \in Steady' => r.branch = branch'[r.app]
    BY <1>1, <1>2 DEF StoredOK
  <2>7. r.at = "enqueue" => r.branch \in Branch
    BY <1>2 DEF StoredOK
  <2>8. r.at \in {"enqueue", "stream", "finish", "deployed", "stored", "failed"} => r.app \in born'
    BY <1>1, <1>2 DEF StoredOK
  <2> QED
    BY <2>3, <2>4, <2>5, <2>6, <2>7, <2>8 DEF StoredOK
<1>6. FollowsOK(r)'
  <2>1. r' = r
    OBVIOUS
  <2>2. CASE r.at \in {"stream", "finish"}
    <3>1. /\ r.dep \in Dep /\ r.dep < next /\ owner[r.dep] = r.app /\ r.app \in born
          /\ r.app \in Steady =>
               /\ Reached(r.commit, branch[r.app])
               /\ built[r.dep] # 0 => r.commit <= built[r.dep]
               /\ status[r.dep] = "running" => r.commit <= served
          /\ r.at = "stream" /\ r.app \in apps =>
               status[r.dep] = "queued" \/ place[r.dep] # "none" \/ r.dep \in closed
          /\ r.at = "finish" => r.dep \in closed
      BY <1>2, <2>2 DEF FollowsOK, StoredOK
    <3>2. r.dep < next' /\ owner'[r.dep] = r.app
      BY <1>1, <1>3, <3>1 DEF Follows, Dep
    <3>3. /\ r.at = "stream" /\ r.app \in apps' =>
               status'[r.dep] = "queued" \/ place'[r.dep] # "none" \/ r.dep \in closed'
          /\ r.at = "finish" => r.dep \in closed'
      BY <1>1, <3>1
    <3>4. ASSUME r.app \in Steady'
          PROVE  /\ Reached(r.commit, branch[r.app])'
                 /\ built'[r.dep] # 0 => r.commit <= built'[r.dep]
                 /\ status'[r.dep] = "running" => r.commit <= served'
      <4>1. r.app \in Steady /\ branch'[r.app] = branch[r.app] /\ branch[r.app] \in Branch
            /\ served <= served'
        BY <1>1, <1>4, <3>1, <3>4 DEF Keeps
      <4>2. Reached(r.commit, branch[r.app])'
        BY <1>1, <1>3, <3>1, <4>1 DEF Keeps, Reached
      <4>3. built'[r.dep] # 0 => r.commit <= built'[r.dep]
        BY <1>1, <1>3, <3>1, <4>1 DEF Keeps, Reached
      <4>4. served \in Nat /\ served' \in Nat
        BY HostStep DEF IInv, HostTypes
      <4>5. status'[r.dep] = "running" => r.commit <= served'
        BY <1>1, <1>3, <3>1, <3>4, <4>1, <4>4 DEF Keeps
      <4> QED
        BY <4>2, <4>3, <4>5
    <3> QED
      BY <2>1, <3>1, <3>2, <3>3, <3>4 DEF FollowsOK
  <2>3. CASE r.at \notin {"stream", "finish"}
    BY <2>1, <2>3 DEF FollowsOK
  <2> QED
    BY <2>2, <2>3
<1>7. ToldOK(r)'
  <2>1. r' = r
    OBVIOUS
  <2>2. CASE r.at \in {"deployed", "failed"}
    <3>1. r.dep \in Dep /\ r.dep < next /\ Settled(r.dep) /\ r.app \in born
      BY <1>2, <2>2 DEF ToldOK, StoredOK
    <3>2. r.dep < next' /\ Settled(r.dep)'
      BY <1>1, <1>3, <3>1 DEF Follows, Dep
    <3>3. r.at = "deployed" => status'[r.dep] \in {"running", "superseded", "absent"}
      BY <1>1, <1>2, <3>1 DEF ToldOK, Follows, HasNoRow
    <3>4. r.at = "failed" => status'[r.dep] # "running"
      BY <1>1, <1>2, <3>1, StatusFacts DEF ToldOK, Follows, Settled, HasNoRow
    <3>5. r.at = "deployed" /\ r.app \in Steady' => r.commit <= served'
      <4>1. served \in Nat /\ served' \in Nat
        BY HostStep DEF IInv, HostTypes
      <4>2. r.app \in Steady' => served <= served'
        BY <1>1, <3>1 DEF Keeps
      <4> QED
        BY <1>1, <1>2, <1>3, <3>1, <4>1, <4>2 DEF ToldOK
    <3> QED
      BY <2>1, <3>1, <3>2, <3>3, <3>4, <3>5 DEF ToldOK
  <2>3. CASE r.at \notin {"deployed", "failed"}
    BY <2>1, <2>3 DEF ToldOK
  <2> QED
    BY <2>2, <2>3
<1> QED
  BY <1>5, <1>6, <1>7

\* An attempt somebody waits for is done with before it is forgotten.
Pending(d) == status[d] = "queued" \/ place[d] # "none" \/ d \in closed

\* A step that only the deletion of the app keeps from doing so.
PendingKept == \A d \in Dep : owner[d] \in apps' /\ Pending(d) => Pending(d)'

\* So it is for every push a step leaves alone.
LEMMA PushAlone ==
  ASSUME IInv, [GpNext]_gpVars, PendingKept, NEW p \in Push, push'[p] = push[p]
  PROVE  /\ StoredOK(push[p])' /\ FollowsOK(push[p])' /\ ToldOK(push[p])'
         /\ push'[p] \in PushType(commits')
<1>1. push[p].at = "stream" => owner[push[p].dep] = push[p].app
  BY DEF IInv, PushesOK, FollowsOK
<1>2. StoredOK(push[p])' /\ FollowsOK(push[p])' /\ ToldOK(push[p])'
  BY <1>1, PushKept DEF PendingKept, Pending
<1>3. commits <= commits' /\ commits \in Nat /\ commits' \in Nat
  BY HostStep DEF Keeps, IInv, HostTypes
<1>4. push[p] \in PushType(commits)
  BY DEF IInv, PushesOK, PushTypes
<1>5. push[p] \in PushType(commits')
  BY <1>3, <1>4 DEF PushType
<1> QED
  BY <1>2, <1>5

\* No push was ever begun twice.
LEMMA BegunGrows ==
  ASSUME IInv, commits' \in Nat, Begun \subseteq Begun',
         commits' = commits \/ (commits' = commits + 1 /\ \E p \in Push : p \in Begun' \ Begun)
  PROVE  commits' <= Cardinality(Begun')
<1>1. IsFiniteSet(Begun) /\ IsFiniteSet(Begun')
  BY FS_Subset DEF Begun
<1>2. /\ Cardinality(Begun) \in Nat /\ Cardinality(Begun') \in Nat
      /\ Cardinality(Begun) <= Cardinality(Begun')
      /\ commits <= Cardinality(Begun) /\ commits \in Nat
  BY <1>1, FS_CardinalityType, FS_Subset DEF IInv, PushesOK, HostTypes
<1>3. CASE commits' = commits
  BY <1>2, <1>3
<1>4. ASSUME NEW p \in Begun' \ Begun, commits' = commits + 1 PROVE commits' <= Cardinality(Begun')
  <2>1. Cardinality(Begun \cup {p}) = Cardinality(Begun) + 1
    BY <1>1, <1>4, FS_AddElement
  <2>2. Cardinality(Begun \cup {p}) <= Cardinality(Begun') /\ Cardinality(Begun \cup {p}) \in Nat
    BY <1>1, <1>2, <1>4, <2>1, FS_Subset
  <2> QED
    BY <1>2, <1>4, <2>1, <2>2
<1> QED
  BY <1>3, <1>4

\* A step that leaves every push alone.
LEMMA AllAlone ==
  ASSUME IInv, [GpNext]_gpVars, PendingKept, push' = push, commits' = commits
  PROVE  PushesOK'
<1>1. \A p \in Push : /\ StoredOK(push[p])' /\ FollowsOK(push[p])' /\ ToldOK(push[p])'
                      /\ push'[p] \in PushType(commits')
  BY PushAlone
<1>2. PushTypes'
  BY <1>1 DEF PushTypes, IInv, PushesOK
<1>3. commits' <= Cardinality(Begun')
  BY BegunGrows DEF IInv, HostTypes, Begun
<1> QED
  BY <1>1, <1>2, <1>3 DEF PushesOK

\* A step of one push.
LEMMA OneMoves ==
  ASSUME IInv, [GpNext]_gpVars, PendingKept, NEW p \in Push, NEW r,
         push' = [push EXCEPT ![p] = r], r \in PushType(commits'),
         StoredOK(r)', FollowsOK(r)', ToldOK(r)',
         r.at \notin {"idle", "receive"} \/ push[p].at \in {"idle", "receive"},
         \/ commits' = commits
         \/ commits' = commits + 1 /\ push[p].at \in {"idle", "receive"} /\ r.at \notin {"idle", "receive"}
  PROVE  PushesOK'
<1>0. push \in [Push -> PushType(commits)] /\ commits' \in Nat /\ push'[p] = r
  BY HostStep DEF IInv, PushesOK, PushTypes, HostTypes
<1>1. \A q \in Push : q # p => /\ StoredOK(push[q])' /\ FollowsOK(push[q])' /\ ToldOK(push[q])'
                               /\ push'[q] \in PushType(commits')
  <2> TAKE q \in Push
  <2>1. q # p => push'[q] = push[q]
    BY <1>0
  <2> QED
    BY <2>1, PushAlone
<1>2. PushTypes'
  BY <1>0, <1>1 DEF PushTypes
<1>3. StoredOK(push[p])' /\ FollowsOK(push[p])' /\ ToldOK(push[p])'
  BY <1>0 
<1>4. Begun \subseteq Begun' /\ (commits' # commits => p \in Begun' \ Begun)
  BY <1>0 DEF Begun
<1>5. commits' <= Cardinality(Begun')
  BY <1>0, <1>4, BegunGrows
<1> QED
  BY <1>1, <1>2, <1>3, <1>5 DEF PushesOK

\* A push that has only begun, or was refused, knows nothing yet.
LEMMA NothingKnown ==
  ASSUME NEW r, r.at \in {"idle", "receive", "error"}
  PROVE  StoredOK(r)' /\ FollowsOK(r)' /\ ToldOK(r)'
BY DEF StoredOK, FollowsOK, ToldOK

\* A refusal is an error and nothing else.
LEMMA RefusedType ==
  ASSUME NEW n \in Nat
  PROVE  Refused \in PushType(n) /\ Refused.at = "error"
BY DEF Refused, NewPush, PushType, Dep

\* An answer keeps the commit, the app and the attempt it is about.
LEMMA ToldType ==
  ASSUME NEW p \in Push, NEW n \in Nat, push[p] \in PushType(n),
         NEW at \in {"stream", "deployed", "stored", "failed"}
  PROVE  /\ Told(p, at) \in PushType(n)
         /\ Told(p, at).at = at /\ Told(p, at).app = push[p].app
         /\ Told(p, at).commit = push[p].commit /\ Told(p, at).dep = push[p].dep
BY DEF Told, PushType

\* A push is refused.
LEMMA Refusal ==
  ASSUME IInv, [GpNext]_gpVars, PendingKept, NEW p \in Push, commits' = commits, Answer(p, Refused)
  PROVE  PushesOK'
<1>1. Refused \in PushType(commits') /\ Refused.at = "error" /\ Refused' = Refused
  BY RefusedType, HostStep DEF HostTypes, Refused, NewPush
<1> PICK r : r = Refused
  OBVIOUS
<1>2. push' = [push EXCEPT ![p] = r] /\ r.at = "error" /\ r \in PushType(commits')
  BY <1>1 DEF Answer
<1>3. StoredOK(r)' /\ FollowsOK(r)' /\ ToldOK(r)'
  BY <1>2, NothingKnown
<1> QED
  BY <1>2, <1>3, OneMoves

\* A session begins.
LEMMA runGitStep ==
  ASSUME IInv, [GpNext]_gpVars, PendingKept, NEW p \in Push, runGit(p)
  PROVE  PushesOK'
<1> PICK r : r = [push[p] EXCEPT !.at = "receive"]
  OBVIOUS
<1>1. /\ push' = [push EXCEPT ![p] = r] /\ push[p].at = "idle" /\ r.at = "receive"
      /\ commits' = commits /\ push[p] \in PushType(commits) /\ r \in PushType(commits)
  BY DEF runGit, At, IInv, PushesOK, PushTypes, PushType
<1>2. StoredOK(r)' /\ FollowsOK(r)' /\ ToldOK(r)'
  BY <1>1 DEF StoredOK, FollowsOK, ToldOK
<1> QED
  BY <1>1, <1>2, OneMoves

\* The commit that is stored is the tip of its branch and of no other.
LEMMA ReceivePackStep ==
  ASSUME IInv, [GpNext]_gpVars, PendingKept, NEW p \in Push, NEW b \in Branch, ReceivePack(p, b)
  PROVE  PushesOK'
<1>1. CASE repo
  <2> PICK r : r = [push[p] EXCEPT !.at = "hook", !.ref = b, !.commit = commits + 1]
    OBVIOUS
  <2>1. /\ push[p].at = "receive" /\ push[p] \in PushType(commits)
        /\ tip \in [Branch -> 0..commits] /\ commits \in Nat
    BY DEF ReceivePack, At, IInv, PushesOK, PushTypes, HostTypes
  <2>2. /\ r.at = "hook" /\ r.ref = b /\ r.commit = commits + 1
    BY <2>1 DEF PushType
  <2>4. r \in PushType(commits + 1)
    <3>1. commits + 1 \in 0..(commits + 1)
      BY <2>1
    <3> QED
      BY <2>1, <3>1 DEF PushType
  <2>3. CASE commits' = commits + 1 /\ tip' = [tip EXCEPT ![b] = commits + 1] /\ push' = [push EXCEPT ![p] = r]
    <3>1. StoredOK(r)'
      BY <2>1, <2>2, <2>3 DEF StoredOK, Reached
    <3>2. FollowsOK(r)' /\ ToldOK(r)'
      BY <2>2 DEF FollowsOK, ToldOK
    <3> QED
      BY <2>1, <2>2, <2>3, <2>4, <3>1, <3>2, OneMoves
  <2> QED
    BY <1>1, <2>3 DEF ReceivePack
<1>2. CASE ~repo
  BY <1>2, Refusal DEF ReceivePack
<1> QED
  BY <1>1, <1>2

\* The app and the branch a push is for.
LEMMA ResolvedStep ==
  ASSUME IInv, [GpNext]_gpVars, PendingKept, NEW p \in Push, push[p].at \in {"hook", "cold"},
         NEW a, NEW b \in Branch, Resolved(p, a, b), a \in App, a \in born', branch'[a] = b,
         UNCHANGED <<tip, commits>>
  PROVE  PushesOK'
<1> PICK r : r = [push[p] EXCEPT !.at = "enqueue", !.app = a, !.branch = b]
  OBVIOUS
<1>1. push[p] \in PushType(commits) /\ StoredOK(push[p])
  BY DEF IInv, PushesOK, PushTypes
<1>2. /\ r.at = "enqueue" /\ r.app = a /\ r.branch = b /\ r.ref = push[p].ref
      /\ r.commit = push[p].commit /\ r \in PushType(commits)
  BY <1>1 DEF PushType
<1>3. StoredOK(r)'
  BY <1>1, <1>2 DEF StoredOK, Reached
<1>4. FollowsOK(r)' /\ ToldOK(r)'
  BY <1>2 DEF FollowsOK, ToldOK
<1>5. push' = [push EXCEPT ![p] = r]
  BY DEF Resolved
<1> QED
  BY <1>2, <1>3, <1>4, <1>5, OneMoves

\* The app that has the name is looked up.
LEMMA resolveOrCreateStep ==
  ASSUME IInv, [GpNext]_gpVars, PendingKept, NEW p \in Push, resolveOrCreate(p)
  PROVE  PushesOK'
<1>0. push[p].at = "hook" /\ UNCHANGED <<born, branch, tip, commits>>
      /\ push[p] \in PushType(commits) /\ StoredOK(push[p])
  BY DEF resolveOrCreate, At, host, IInv, PushesOK, PushTypes
<1>1. ASSUME NEW a \in apps, Resolved(p, a, branch[a]) PROVE PushesOK'
  <2>1. a \in App /\ a \in born /\ branch[a] \in Branch
    BY DEF IInv, AppsOK, TypeOK
  <2> PICK b \in Branch : b = branch[a]
    BY <2>1
  <2>2. Resolved(p, a, b)
    BY <1>1 DEF Resolved
  <2> QED
    BY <1>0, <2>1, <2>2, ResolvedStep
<1>2. CASE push' = [push EXCEPT ![p].at = "cold"]
  <2> PICK r : r = [push[p] EXCEPT !.at = "cold"]
    OBVIOUS
  <2>1. /\ r.at = "cold" /\ r.ref = push[p].ref /\ r.commit = push[p].commit
        /\ r \in PushType(commits)
    BY <1>0 DEF PushType
  <2>2. StoredOK(r)'
    BY <1>0, <2>1 DEF StoredOK, Reached
  <2>3. FollowsOK(r)' /\ ToldOK(r)'
    BY <2>1 DEF FollowsOK, ToldOK
  <2>4. push' = [push EXCEPT ![p] = r]
    BY <1>2
  <2> QED
    BY <1>0, <2>1, <2>2, <2>3, <2>4, OneMoves
<1> QED
  BY <1>1, <1>2 DEF resolveOrCreate

\* Or one is created on the pushed branch.
LEMMA coldCreateStep ==
  ASSUME IInv, [GpNext]_gpVars, PendingKept, NEW p \in Push, coldCreate(p)
  PROVE  PushesOK'
<1>0. push[p].at = "cold" /\ UNCHANGED <<tip, commits>> /\ push[p].ref \in Branch
  BY DEF coldCreate, At, host, IInv, PushesOK, StoredOK
<1>1. ASSUME NEW a \in App \ born, born' = born \cup {a}, branch' = [branch EXCEPT ![a] = push[p].ref],
             Resolved(p, a, push[p].ref)
      PROVE  PushesOK'
  <2> PICK b \in Branch : b = push[p].ref
    BY <1>0
  <2>1. Resolved(p, a, b)
    BY <1>1 DEF Resolved
  <2>2. a \in born' /\ branch'[a] = b
    BY <1>1 DEF IInv, AppsOK
  <2> QED
    BY <1>0, <2>1, <2>2, ResolvedStep
<1>2. CASE Answer(p, Refused)
  BY <1>0, <1>2, Refusal
<1> QED
  BY <1>1, <1>2 DEF coldCreate

\* A push to the deploy branch follows an attempt that has yet to clone; one to another
\* branch has moved no tip that is deployed.
LEMMA serveStep ==
  ASSUME IInv, [GpNext]_gpVars, PendingKept, NEW p \in Push, serve(p)
  PROVE  PushesOK'
<1> DEFINE s == push[p]
<1>0. /\ s.at = "enqueue" /\ s \in PushType(commits) /\ StoredOK(s) /\ commits \in Nat
      /\ UNCHANGED <<born, branch, tip, commits, place, built, closed, served, moved>>
  BY DEF serve, At, host, work, IInv, PushesOK, PushTypes, HostTypes
<1>1. CASE s.ref = s.branch /\ Enqueue(s.app) /\ Follow(p, next)
  <2> PICK r : r = [Told(p, "stream") EXCEPT !.dep = next]
    OBVIOUS
  <2>1. /\ next \in Dep /\ next' = next + 1 /\ s.app \in apps /\ apps' = apps
        /\ owner' = [owner EXCEPT ![next] = s.app] /\ status' = [status EXCEPT ![next] = "queued"]
    BY <1>1 DEF Enqueue
  <2>2. owner'[next] = s.app /\ status'[next] = "queued" /\ next < next'
    BY <2>1 DEF IInv, TypeOK, Dep
  <2>3. built[next] = 0
    BY <2>1 DEF IInv, ServedOK, PlacesOK, Dep
  <2>4. next \in 0..MaxDep
    BY <2>1 DEF Dep
  <2>5. r \in PushType(commits) /\ r.at = "stream" /\ r.app = s.app /\ r.commit = s.commit /\ r.dep = next
    BY <1>0, <2>4, ToldType DEF PushType
  <2>6. StoredOK(r)'
    BY <1>0, <2>5 DEF StoredOK
  <2>7. r.app \in Steady' => Reached(r.commit, branch[r.app])'
    <3>1. r.app \in Steady' => r.app \in Steady
      BY <1>0, <2>1 DEF Steady
    <3>2. Reached(s.commit, s.ref) /\ (s.app \in Steady => s.branch = branch[s.app])
      BY <1>0 DEF StoredOK
    <3>3. r.app \in Steady => Reached(r.commit, branch[r.app])
      BY <1>1, <2>5, <3>2
    <3> QED
      BY <1>0, <3>1, <3>3 DEF Reached
  <2>8. FollowsOK(r)'
    <3>1. /\ next \in Dep /\ next < next' /\ owner'[next] = s.app /\ status'[next] = "queued"
          /\ built'[next] = 0
      BY <1>0, <2>1, <2>2, <2>3
    <3> QED
      BY <2>5, <2>7, <3>1 DEF FollowsOK
  <2>9. ToldOK(r)'
    BY <2>5 DEF ToldOK
  <2>10. push' = [push EXCEPT ![p] = r]
    BY <1>1 DEF Follow, Answer
  <2> QED
    BY <1>0, <2>5, <2>6, <2>8, <2>9, <2>10, OneMoves
<1>2. CASE Answer(p, Refused)
  BY <1>0, <1>2, Refusal
<1>3. CASE s.ref # s.branch /\ Answer(p, Told(p, "stored")) /\ UNCHANGED rows
  <2> PICK r : r = Told(p, "stored")
    OBVIOUS
  <2>1. r \in PushType(commits) /\ r.at = "stored" /\ r.app = s.app /\ r.commit = s.commit /\ r.dep = s.dep
    BY <1>0, ToldType
  <2>2. apps' = apps
    BY <1>3 DEF rows
  <2>3. s.app \in Steady => s.branch = branch[s.app] /\ tip[branch[s.app]] # s.commit
    BY <1>0, <1>3 DEF StoredOK
  <2>4. StoredOK(r)'
    BY <1>0, <2>1, <2>2, <2>3 DEF StoredOK, Steady
  <2>5. FollowsOK(r)' /\ ToldOK(r)'
    BY <2>1 DEF FollowsOK, ToldOK
  <2>6. push' = [push EXCEPT ![p] = r]
    BY <1>3 DEF Answer
  <2> QED
    BY <1>0, <2>1, <2>4, <2>5, <2>6, OneMoves
<1> QED
  BY <1>1, <1>2, <1>3 DEF serve

\* The stream of the attempt has been closed, so the attempt is over.
LEMMA runDeployStep ==
  ASSUME IInv, [GpNext]_gpVars, PendingKept, NEW p \in Push, runDeploy(p)
  PROVE  PushesOK'
<1> DEFINE s == push[p]
<1>0. /\ s.at = "stream" /\ s.dep \in closed /\ s \in PushType(commits) /\ StoredOK(s) /\ FollowsOK(s)
      /\ UNCHANGED <<apps, owner, status, next, born, branch, tip, commits, built, closed, served, moved>>
  BY DEF runDeploy, At, host, work, rows, IInv, PushesOK, PushTypes
<1> PICK r : r = [push[p] EXCEPT !.at = "finish"]
  OBVIOUS
<1>1. r \in PushType(commits) /\ r.at = "finish" /\ r.app = s.app /\ r.commit = s.commit /\ r.dep = s.dep
  BY <1>0 DEF PushType
<1>2. StoredOK(r)'
  BY <1>0, <1>1 DEF StoredOK
<1>3. FollowsOK(r)'
  BY <1>0, <1>1 DEF FollowsOK, Steady, Reached
<1>4. ToldOK(r)'
  BY <1>1 DEF ToldOK
<1>5. push' = [push EXCEPT ![p] = r]
  BY DEF runDeploy
<1> QED
  BY <1>0, <1>1, <1>2, <1>3, <1>4, <1>5, OneMoves

\* The row is final when it is read, and what it says stays true.
LEMMA finishStep ==
  ASSUME IInv, [GpNext]_gpVars, PendingKept, NEW p \in Push, finish(p)
  PROVE  PushesOK'
<1> DEFINE s == push[p]
<1>0. /\ s.at = "finish" /\ s \in PushType(commits) /\ StoredOK(s) /\ FollowsOK(s)
      /\ UNCHANGED <<apps, owner, status, next, born, branch, tip, commits, built, closed, served, moved>>
  BY DEF finish, At, host, work, rows, IInv, PushesOK, PushTypes
<1>1. s.dep \in Dep /\ s.dep < next /\ Settled(s.dep)
  BY <1>0 DEF FollowsOK, IInv, ClosedOK
<1>2. ASSUME NEW code \in {"deployed", "failed"}, Answer(p, Told(p, code)),
             code = "deployed" => status[s.dep] = "running",
             code = "failed" => status[s.dep] # "running"
      PROVE  PushesOK'
  <2> PICK r : r = Told(p, code)
    OBVIOUS
  <2>1. r \in PushType(commits) /\ r.at = code /\ r.app = s.app /\ r.commit = s.commit /\ r.dep = s.dep
    BY <1>0, ToldType DEF IInv, HostTypes
  <2>2. StoredOK(r)'
    BY <1>0, <2>1 DEF StoredOK
  <2>3. FollowsOK(r)'
    BY <2>1 DEF FollowsOK
  <2>4. ToldOK(r)'
    BY <1>0, <1>1, <1>2, <2>1 DEF ToldOK, FollowsOK, Steady, Settled, HasNoRow
  <2>5. push' = [push EXCEPT ![p] = r]
    BY <1>2 DEF Answer
  <2> QED
    BY <1>0, <2>1, <2>2, <2>3, <2>4, <2>5, OneMoves
<1>3. CASE status[s.dep] = "running"
  BY <1>2, <1>3 DEF finish
<1>4. CASE status[s.dep] = "absent"
  BY <1>0, <1>4, Refusal DEF finish
<1>5. CASE status[s.dep] \notin {"running", "absent"}
  BY <1>2, <1>5 DEF finish
<1> QED
  BY <1>3, <1>4, <1>5

\* The process goes, and every push that was not ended with it.
LEMMA RestartStep ==
  ASSUME IInv, [GpNext]_gpVars, Restart
  PROVE  PushesOK'
<1>1. /\ push' = [p \in Push |-> RunHook(push[p])] /\ UNCHANGED <<apps, owner, next>>
      /\ commits' = commits /\ commits \in Nat
      /\ push \in [Push -> PushType(commits)]
  BY DEF Restart, Recover, host, IInv, HostTypes, PushesOK, PushTypes
<1>2. ASSUME NEW p \in Push
      PROVE  /\ push'[p] \in PushType(commits')
             /\ StoredOK(push[p])' /\ FollowsOK(push[p])' /\ ToldOK(push[p])'
             /\ p \in Begun => p \in Begun'
  <2>1. CASE Ended(push[p])
    <3>1. push'[p] = push[p] /\ push[p].at # "stream"
      BY <1>1, <2>1 DEF RunHook, Ended
    <3>2. StoredOK(push[p])' /\ FollowsOK(push[p])' /\ ToldOK(push[p])'
      BY <3>1, PushKept
    <3>3. p \in Begun => p \in Begun'
      BY <3>1 DEF Begun
    <3> QED
      BY <1>1, <3>1, <3>2, <3>3
  <2>2. CASE ~Ended(push[p])
    <3> PICK r : r = Refused
      OBVIOUS
    <3>1. push'[p] = r /\ r.at = "error" /\ r \in PushType(commits)
      BY <1>1, <2>2, RefusedType DEF RunHook
    <3>2. StoredOK(r)' /\ FollowsOK(r)' /\ ToldOK(r)'
      BY <3>1, NothingKnown
    <3>3. p \in Begun'
      BY <3>1 DEF Begun
    <3> QED
      BY <1>1, <3>1, <3>2, <3>3
  <2> QED
    BY <2>1, <2>2
<1>3. PushTypes'
  BY <1>1, <1>2 DEF PushTypes
<1>4. Begun \subseteq Begun'
  BY <1>2 DEF Begun
<1>5. commits' <= Cardinality(Begun')
  BY <1>1, <1>4, BegunGrows
<1> QED
  BY <1>2, <1>3, <1>5 DEF PushesOK

\* Whoever takes a step, what the pushes know stays so.
LEMMA PushesStep ==
  ASSUME IInv, [GpNext]_gpVars
  PROVE  PushesOK'
<1>1. ASSUME NEW p \in Push,
             runGit(p) \/ (\E b \in Branch : ReceivePack(p, b)) \/ Bridge(p) \/ Timeout(p)
      PROVE  PushesOK'
  <2>1. UNCHANGED <<place, closed>>
    BY <1>1, QuietSteps
  <2>2. \A d \in Dep : status[d] = "queued" => status'[d] = "queued"
    BY <1>1, QuietSteps DEF Enqueue, IInv, TypeOK
  <2>3. PendingKept
    BY <2>1, <2>2 DEF PendingKept, Pending
  <2>4. CASE Timeout(p)
    BY <2>3, <2>4, Refusal DEF Timeout, host
  <2> QED
    BY <1>1, <2>3, <2>4, runGitStep, ReceivePackStep, resolveOrCreateStep, coldCreateStep, serveStep,
       runDeployStep, finishStep DEF Bridge
<1>2. ASSUME NEW d \in Dep, Start(d) \/ Pipeline(d) \/ Cancel(d) PROVE PushesOK'
  <2>0. place \in [Dep -> {"none", "clone", "ship", "close"}] /\ status \in [Dep -> Status \cup {"absent"}]
    BY DEF IInv, PlacesOK, TypeOK
  <2>1. push' = push /\ commits' = commits
    BY <1>2 DEF Start, Pipeline, Clone, Fail, Ship, Close, Cancel, host
  <2>2. CASE Start(d)
    BY <2>0, <2>1, <2>2, AllAlone DEF Start, Goto, Claim, PendingKept, Pending
  <2>3. CASE Clone(d) \/ Fail(d) \/ Ship(d)
    <3>1. PICK to \in {"ship", "close"} : place' = [place EXCEPT ![d] = to]
      BY <2>3 DEF Clone, Fail, Ship, Goto
    <3>2. closed' = closed /\ place[d] # "none"
      BY <2>3 DEF Clone, Fail, Ship
    <3>3. \A e \in Dep : status[e] = "queued" /\ e # d => status'[e] = "queued"
      BY <2>0, <2>3, SetStatusFacts DEF Clone, Fail, Ship
    <3>4. PendingKept
      BY <2>0, <3>1, <3>2, <3>3 DEF PendingKept, Pending
    <3> QED
      BY <2>1, <3>4, AllAlone
  <2>4. CASE Close(d)
    <3>1. place' = [place EXCEPT ![d] = "none"] /\ closed' = closed \cup {d}
      BY <2>4 DEF Close, Goto
    <3>2. \A e \in Dep : status[e] = "queued" => status'[e] = "queued"
      BY <2>0, <2>4 DEF Close, Retire, rows
    <3>3. PendingKept
      BY <2>0, <3>1, <3>2 DEF PendingKept, Pending
    <3> QED
      BY <2>1, <3>3, AllAlone
  <2>5. CASE Cancel(d)
    BY <2>0, <2>1, <2>5, AllAlone DEF Cancel, Move, PendingKept, Pending
  <2> QED
    BY <1>2, <2>2, <2>3, <2>4, <2>5 DEF Pipeline
<1>3. ASSUME NEW a \in App, Click(a) PROVE PushesOK'
  BY <1>3, AllAlone DEF Click, Enqueue, host, work, PendingKept, Pending, IInv, TypeOK
<1>4. ASSUME NEW a \in App, DeleteRows(a) PROVE PushesOK'
  <2>1. apps' = {}
    BY <1>4 DEF DeleteRows, DeleteApp, IInv, AppsOK
  <2> QED
    BY <1>4, <2>1, AllAlone DEF DeleteRows, host, PendingKept
<1>5. CASE (\E a \in App, b \in Branch : SetBranch(a, b)) \/ RemoveRepo \/ UNCHANGED gpVars
  BY <1>5, AllAlone DEF SetBranch, RemoveRepo, gpVars, rows, host, work, PendingKept, Pending
<1> QED
  BY <1>1, <1>2, <1>3, <1>4, <1>5, RestartStep DEF GpNext

-----------------------------------------------------------------------------

\* Before any push.
LEMMA InitIInv == GpInit => IInv
<1> SUFFICES ASSUME GpInit PROVE IInv
  OBVIOUS
<1> USE DEF GpInit
<1>1. TypeOK
  BY DEF TypeOK, Dep
<1>2. AppsOK
  BY DEF AppsOK
<1>3. RowsOK
  BY StatusFacts DEF RowsOK, OneActivePerApp, HasNoRow, Dep
<1>4. PlacesOK /\ ClosedOK
  BY DEF PlacesOK, ClosedOK
<1>5. HostTypes /\ ServedOK
  <2>1. 0 \in 0..0 /\ 0 \in Nat
    OBVIOUS
  <2>2. HostTypes
    BY <2>1 DEF HostTypes
  <2>3. ServedOK
    <3>1. \A a \in Steady : a \in App /\ branch[a] \in Branch
      BY DEF Steady
    <3>2. \A b \in Branch : Reached(0, b)
      BY DEF Reached
    <3>3. \A d \in Dep : built[d] = 0 /\ place[d] = "none"
      OBVIOUS
    <3> QED
      BY <3>1, <3>2, <3>3 DEF ServedOK
  <2> QED
    BY <2>2, <2>3
<1>6. PushesOK
  <2>1. NewPush \in PushType(0) /\ NewPush.at = "idle"
    BY DEF NewPush, PushType
  <2>2. PushTypes
    BY <2>1 DEF PushTypes
  <2>3. Begun = {}
    BY <2>1 DEF Begun
  <2>4. commits <= Cardinality(Begun)
    BY <2>3, FS_EmptySet
  <2> QED
    BY <2>1, <2>2, <2>4 DEF PushesOK, StoredOK, FollowsOK, ToldOK
<1> QED
  BY <1>1, <1>2, <1>3, <1>4, <1>5, <1>6 DEF IInv

\* Whatever the pushes, the operators, the worker and the restarts do, in any order.
THEOREM GitPushInvariant == GpSpec => []IInv
<1>1. IInv /\ [GpNext]_gpVars => IInv'
  BY RowsFollow, AppsStep, PlacesStep, ClosedStep, HostStep, PushesStep DEF IInv
<1> QED
  BY InitIInv, <1>1, PTL DEF GpSpec

\* A push that is told "deployed" went live and is told so only then, and a push that
\* waits will be answered (githook/bridge.go).
THEOREM PushesAreToldTheTruth == GpSpec => []PushInv
<1>1. IInv => PushInv
  <2> SUFFICES ASSUME IInv PROVE PushInv
    OBVIOUS
  <2>1. IsFiniteSet(apps) /\ Cardinality(apps) <= 1
    <3>1. CASE apps = {}
      BY <3>1, FS_EmptySet
    <3>2. ASSUME NEW a \in App, apps = {a} PROVE IsFiniteSet(apps) /\ Cardinality(apps) <= 1
      <4>1. IsFiniteSet({a}) /\ Cardinality({a}) = 1
        BY FS_Singleton
      <4> QED
        BY <3>2, <4>1
    <3> QED
      BY <3>1, <3>2 DEF IInv, AppsOK
  <2>2. commits \in 0..Cardinality(Push)
    <3>1. Cardinality(Begun) <= Cardinality(Push) /\ Cardinality(Begun) \in Nat /\ Cardinality(Push) \in Nat
      BY FS_Subset, FS_CardinalityType DEF Begun
    <3> QED
      BY <3>1 DEF IInv, PushesOK, HostTypes
  <2>3. GpTypeOK
    BY <2>1, <2>2 DEF GpTypeOK, IInv, AppsOK, PlacesOK, ClosedOK, HostTypes, PushesOK, PushTypes, PushType
  <2>4. ExitCodeHonest
    BY DEF ExitCodeHonest, At, IInv, PushesOK, ToldOK
  <2>5. PushIsEnded
    BY DEF PushIsEnded, At, IInv, PushesOK, FollowsOK
  <2> QED
    BY <2>3, <2>4, <2>5 DEF PushInv
<1> QED
  BY <1>1, GitPushInvariant, PTL

\* "Deployed" stays true: the container has the pushed commit or a later one.
THEOREM DeployedStaysServed == GpSpec => []DeployedIsServed
<1>1. IInv => DeployedIsServed
  <2> SUFFICES ASSUME IInv, NEW p \in Push, push[p].at = "deployed", push[p].app \in apps \ moved
               PROVE  served >= push[p].commit
    BY DEF DeployedIsServed
  <2>1. push[p].commit \in Nat /\ served \in Nat
    BY DEF IInv, PushesOK, PushTypes, PushType, HostTypes
  <2> QED
    BY <2>1 DEF IInv, PushesOK, ToldOK, Steady
<1> QED
  BY <1>1, GitPushInvariant, PTL

\* A commit on the deploy branch is served, or its push exited with an error.
THEOREM NoCommitIsLeftBehind == GpSpec => []NothingSilent
<1>1. IInv => NothingSilent
  <2> SUFFICES ASSUME IInv, NEW p \in Push, NEW a \in apps \ moved,
                      push[p].commit # 0, push[p].commit = tip[branch[a]],
                      push[p].app = a, push[p].at \in {"deployed", "stored"}
               PROVE  served = push[p].commit
    BY DEF NothingSilent
  <2>1. push[p].commit \in Nat /\ served \in Nat
    BY DEF IInv, PushesOK, PushTypes, PushType, HostTypes
  <2>2. a \in Steady
    BY DEF Steady
  <2>3. push[p].at = "deployed"
    BY <2>2 DEF IInv, PushesOK, StoredOK
  <2>4. push[p].commit <= served
    BY <2>2, <2>3 DEF IInv, PushesOK, ToldOK
  <2>5. served <= push[p].commit
    BY <2>2 DEF IInv, ServedOK, Reached
  <2> QED
    BY <2>1, <2>4, <2>5
<1> QED
  BY <1>1, GitPushInvariant, PTL
=============================================================================

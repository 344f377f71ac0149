---------------------------- MODULE EventProofs ----------------------------
(***************************************************************************)
(* What follows a repository's events.                                     *)
(*                                                                         *)
(* Preview environments, for any number of pull requests, events, failed   *)
(* calls and crashes, and any cap and queue: with one goroutine at a time  *)
(* on a pull request (~Overlap), what serves has a row, the cap holds, no  *)
(* preview stays half built unnoticed and no database is forgotten.        *)
(*                                                                         *)
(* Tag deploys, for any tags, policies, events and attempts: Compare is    *)
(* SemVer's order, events in flight are in version order, an older tag     *)
(* never replaces a newer one, and no release is dropped.                  *)
(***************************************************************************)
EXTENDS Previews, TagDeploy, SequenceTheorems, FiniteSetTheorems, WellFoundedInduction, TLAPS


Rest == {"boot", "idle", "sweep", "list", "next", "parent"}
Making == {"provision", "attach", "build", "roll_back"}
Removing == {"teardown", "remove", "delete", "destroy"}
At == Rest \cup Making \cup Removing \cup {"spawn"}
ActRec == [at : At, pr : PR \cup {NoPR}, db : BOOLEAN, late : BOOLEAN, list : SUBSET PR,
           then : {"done", "idle", "sweep", "next", "parent"}]
Event == [pr : PR, action : {"opened", "closed"}]

Types == PreviewTypeOK /\ act \in [Actor -> ActRec] /\ queue \in Seq(Event)

\* Which goroutine does what, and where it goes on.
Stages ==
  /\ \A a \in Actor : act[a].at \in Rest <=> act[a].pr = NoPR
  /\ act["run"].at \notin {"list", "next", "parent"}
  /\ act["run"].at \notin {"boot", "idle"} => act["run"].then \in {"idle", "sweep"}
  /\ act["page"].at \in Removing \cup {"idle", "list", "next", "parent"}
  /\ act["page"].at # "idle" => act["page"].then \in {"idle", "next", "parent"}
  /\ act["page"].at = "list" => act["page"].then \in {"next", "parent"}
  /\ act["run"].pr # NoPR => act["run"].pr # act["page"].pr

\* A preview that is still being built has never been deployed, and one whose rows are
\* about to go has no containers.
Quiet ==
  /\ act["run"].at \in Making => ~serving[act["run"].pr] /\ ~deploy[act["run"].pr]
  /\ \A a \in Actor : act[a].at = "delete" => ~serving[act[a].pr]

\* A teardown knows the database it will have to destroy, unless it could not read it.
Known ==
  /\ act["run"].at = "attach" => dbs[act["run"].pr] = "loose"
  /\ \A a \in Actor : act[a].at \in {"remove", "delete"} =>
       /\ act[a].db => dbs[act[a].pr] = "attached"
       /\ dbs[act[a].pr] = "attached" => act[a].db \/ act[a].pr \in leaked

Halves == \A p \in PR : kids[p] = "half" =>
  p \in halves \/ (act["run"].pr = p /\ act["run"].at \in Making \cup {"delete"})

HasRow == \A p \in PR : (serving[p] \/ deploy[p]) => kids[p] # "none"

Capped == IsFiniteSet(Live) /\ WithinCap

IInv == Types /\ Stages /\ Quiet /\ Known /\ Halves /\ HasRow /\ Capped /\ DatabaseOwned

(***************************************************************************)
(* What the steps do to act.                                               *)
(***************************************************************************)
Moved(a, at, d) ==
  /\ act' \in [Actor -> ActRec]
  /\ act'[a].at = at /\ act'[a].pr = act[a].pr /\ act'[a].db = d /\ act'[a].then = act[a].then
  /\ \A b \in Actor \ {a} : act'[b] = act[b]

Ended(a) ==
  /\ act' \in [Actor -> ActRec]
  /\ act'[a].pr = NoPR
  /\ act'[a].at = "idle" \/ (act'[a].at = act[a].then /\ act'[a].then = act[a].then)
  /\ \A b \in Actor \ {a} : act'[b] = act[b]

Began(a, at, t) ==
  /\ act' \in [Actor -> ActRec]
  /\ act'[a].at = at /\ act'[a].pr # NoPR /\ act'[a].then = t
  /\ \A b \in Actor \ {a} : act'[b] = act[b]

\* A step of a goroutine to another stage.
LEMMA MoveAt ==
  ASSUME act \in [Actor -> ActRec], NEW a \in Actor, NEW at \in At,
         act' = [act EXCEPT ![a].at = at]
  PROVE  Moved(a, at, act[a].db)
  BY DEF Moved, ActRec

\* A goroutine that is done with a pull request goes on without one, or rests.
LEMMA FinishEnds ==
  ASSUME act \in [Actor -> ActRec], NEW a \in Actor, act[a].then # "done", Done(a)
  PROVE  Ended(a)
<1> DEFINE new == IF act[a].then = "idle" THEN Idle
                  ELSE [act[a] EXCEPT !.at = act[a].then, !.pr = NoPR, !.db = FALSE]
<1>1. new \in ActRec /\ new.pr = NoPR
      /\ (new.at = "idle" \/ (new.at = act[a].then /\ new.then = act[a].then))
  BY DEF ActRec, Idle, At, Rest
<1>2. act' = [act EXCEPT ![a] = new]
  BY DEF Done, Finish
<1> QED
  BY <1>1, <1>2, Zenon DEF Ended

\* A failed call sends a goroutine on to one stage.
LEMMA FailureMoves ==
  ASSUME act \in [Actor -> ActRec], NEW a \in Actor, NEW at \in At,
         CallFails(a, [act EXCEPT ![a].at = at])
  PROVE  Moved(a, at, act[a].db)
  BY DEF CallFails, Moved, ActRec

\* A failed call that ends the work on a pull request does the same.
LEMMA FailureEnds ==
  ASSUME act \in [Actor -> ActRec], NEW a \in Actor, act[a].then # "done",
         CallFails(a, Finish(a)) \/ CallFails(a, GiveUp(a))
  PROVE  Ended(a)
<1> DEFINE new == IF act[a].then = "idle" THEN Idle
                  ELSE [act[a] EXCEPT !.at = act[a].then, !.pr = NoPR, !.db = FALSE]
           Over(e) == /\ e \in ActRec /\ e.pr = NoPR
                      /\ (e.at = "idle" \/ (e.at = act[a].then /\ e.then = act[a].then))
<1>1. Over(new) /\ Over(Idle)
  <2>1. Over(Idle)
    BY DEF ActRec, Idle, At, Rest
  <2>2. act[a].then # "idle" => Over(new)
    BY DEF ActRec, At, Rest
  <2> QED
    BY <2>1, <2>2
<1>2. Finish(a) = [act EXCEPT ![a] = new]
  BY DEF Finish
<1>3. GiveUp(a) = [act EXCEPT ![a] = new] \/ GiveUp(a) = [act EXCEPT ![a] = Idle]
  BY <1>2 DEF GiveUp, Actor
<1> HIDE DEF new
<1>4. PICK e \in {new, Idle}, l \in BOOLEAN : act' = [[act EXCEPT ![a] = e] EXCEPT ![a].late = l]
  BY <1>2, <1>3 DEF CallFails
<1>5. Over(e)
  BY <1>1
<1> QED
  BY <1>4, <1>5 DEF Ended, ActRec

\* Who moves on or ends leaves the stages in order.
LEMMA EndedStages ==
  ASSUME Types, Stages, NEW a \in Actor, act[a].pr # NoPR, Ended(a)
  PROVE  Stages'
  BY DEF Types, Stages, Ended, Actor, Rest, Removing

\* A step of a goroutine keeps what is known of where each can be.
LEMMA MovedStages ==
  ASSUME Types, Stages, NEW a \in Actor, act[a].pr # NoPR, NEW at \in At \ Rest, NEW d, Moved(a, at, d),
         a = "page" => at \in Removing
  PROVE  Stages'
  BY DEF Types, Stages, Moved, Actor, Rest, Removing

(***************************************************************************)
(* The steps, with one goroutine at a time on a pull request.              *)
(***************************************************************************)
\* The initial states satisfy the inductive invariant.
LEMMA PreviewsStart == PreviewInit => IInv
<1> SUFFICES ASSUME PreviewInit PROVE IInv
  OBVIOUS
<1> USE DEF PreviewInit
<1>1. \A a \in Actor : act[a] \in ActRec /\ act[a].pr = NoPR /\ act[a].list = {}
                       /\ act[a].at = IF a = "run" THEN "boot" ELSE "idle"
  BY DEF Actor, Idle, ActRec, At, Rest
<1>2. act \in [Actor -> ActRec]
  BY <1>1
<1>3. PreviewTypeOK
  BY <1>1, PreviewsAssumption DEF PreviewTypeOK
<1>4. Types
  BY <1>2, <1>3 DEF Types
<1>5. Stages
  BY <1>1 DEF Stages, Actor, Rest
<1>6. Live = {}
  BY DEF Live
<1>7. Capped
  BY <1>6, FS_EmptySet, PreviewsAssumption DEF Capped, WithinCap
<1>8. Quiet /\ Known
  BY <1>1 DEF Quiet, Known, Actor, Making
<1>9. Halves /\ HasRow /\ DatabaseOwned
  BY DEF Halves, HasRow, DatabaseOwned
<1> QED
  BY <1>4, <1>5, <1>7, <1>8, <1>9 DEF IInv

\* GitHub, deliveries and settings: no preview and no goroutine is touched.
LEMMA OutsideKeeps ==
  ASSUME IInv, UNCHANGED <<kids, deploy, dbs, serving, act, halves, leaked>>,
         PreviewTypeOK', queue' \in Seq(Event)
  PROVE  IInv'
<1> USE DEF IInv
<1>1. Types'
  BY DEF Types
<1>2. Stages' /\ Quiet' /\ Known' /\ Halves' /\ HasRow' /\ DatabaseOwned'
  BY DEF Stages, Quiet, Known, Halves, HasRow, DatabaseOwned
<1>3. Capped'
  BY DEF Capped, WithinCap, Live
<1> QED
  BY <1>1, <1>2, <1>3

\* A goroutine that moves on, or ends, without a write.
LEMMA GoingOnKeeps ==
  ASSUME IInv, UNCHANGED <<kids, deploy, dbs, serving, halves>>, leaked \subseteq leaked',
         PreviewTypeOK', act' \in [Actor -> ActRec], queue' \in Seq(Event),
         Stages', Quiet', Known', Halves',
         \A a \in Actor : act[a].at \in {"attach", "destroy"} =>
           act'[a] = act[a] \/ dbs[act[a].pr] # "loose" \/ act[a].pr \in leaked
  PROVE  IInv'
<1> USE DEF IInv
<1>1. Types'
  BY DEF Types
<1>2. HasRow' /\ DatabaseOwned'
  BY DEF HasRow, DatabaseOwned
<1>3. Capped'
  BY DEF Capped, WithinCap, Live
<1> QED
  BY <1>1, <1>2, <1>3

\* What happens on GitHub, and to its events on the way, touches no preview.
LEMMA GithubKeeps ==
  ASSUME IInv,
         (\E p \in PR : OpenPR(p) \/ PushToPR(p) \/ ClosePR(p)) \/ (\E e \in wire : EnqueueEvent(e) \/ LoseDelivery(e))
  PROVE  IInv'
<1> USE DEF IInv, Types
<1>1. ASSUME NEW p \in PR, NEW state \in {"open", "closed"}, NEW action \in {"opened", "closed"},
             Send(p, state, action)
      PROVE  IInv'
  <2>1. UNCHANGED <<queue, parent, allowForks, kids, deploy, dbs, serving, act, halves, leaked>>
    BY <1>1 DEF Send, tables, bounds
  <2>2. PreviewTypeOK'
    BY <1>1, <2>1 DEF Send, PreviewTypeOK
  <2> QED
    BY <2>1, <2>2, OutsideKeeps
<1>2. ASSUME NEW e \in wire, EnqueueEvent(e) PROVE IInv'
  <2>1. UNCHANGED <<gh, parent, allowForks, kids, deploy, dbs, serving, act, halves, leaked>>
        /\ wire' \subseteq wire
    BY <1>2 DEF EnqueueEvent, tables, bounds
  <2>2. e \in Event /\ queue' = Append(queue, e) /\ Len(queue) < QueueSize
    BY <1>2 DEF EnqueueEvent, PreviewTypeOK, Event
  <2>3. queue' \in Seq(Event) /\ Len(queue') <= QueueSize
    BY <2>2, PreviewsAssumption
  <2>4. PreviewTypeOK'
    BY <2>1, <2>3 DEF PreviewTypeOK
  <2> QED
    BY <2>1, <2>3, <2>4, OutsideKeeps
<1>3. ASSUME NEW e \in wire, LoseDelivery(e) PROVE IInv'
  <2>1. UNCHANGED <<gh, queue, parent, allowForks, kids, deploy, dbs, serving, act, halves, leaked>>
        /\ wire' \subseteq wire
    BY <1>3 DEF LoseDelivery, tables, bounds
  <2>2. PreviewTypeOK'
    BY <2>1 DEF PreviewTypeOK
  <2> QED
    BY <2>1, <2>2, OutsideKeeps
<1> QED
  BY <1>1, <1>2, <1>3 DEF OpenPR, PushToPR, ClosePR

\* The consumer and the pages take a pull request up.
LEMMA BeginKeeps ==
  ASSUME IInv, ~Overlap, UNCHANGED <<gh, wire, parent, kids, deploy, dbs, serving, halves, leaked>>,
         allowForks' \in BOOLEAN, queue' \in Seq(Event), Len(queue') <= QueueSize,
         NEW a \in Actor, act[a].pr = NoPR,
         act' \in [Actor -> ActRec], \A b \in Actor \ {a} : act'[b] = act[b],
         act'[a].pr = NoPR \/ Free(a, act'[a].pr),
         act'[a].at \in Rest <=> act'[a].pr = NoPR,
         act'[a].at \in Rest \cup {"teardown", "spawn"},
         a = "run" => /\ act'[a].at \notin {"list", "next", "parent"}
                      /\ act'[a].at \notin {"boot", "idle"} => act'[a].then \in {"idle", "sweep"},
         a = "page" => /\ act'[a].at \in {"teardown", "idle", "list", "next", "parent"}
                       /\ act'[a].at # "idle" => act'[a].then \in {"idle", "next", "parent"}
                       /\ act'[a].at = "list" => act'[a].then \in {"next", "parent"}
  PROVE  IInv'
<1> USE DEF IInv, Types
<1>1. PreviewTypeOK'
  BY DEF PreviewTypeOK, ActRec
<1>2. act[a].at \in Rest
  BY DEF Stages
<1>3. Stages'
  BY DEF Stages, Actor, Free, Rest, Removing
<1>4. Quiet' /\ Known' /\ Halves'
  BY <1>2 DEF Quiet, Known, Halves, Actor, Rest, Making
<1>5. \A b \in Actor : act[b].at \in {"attach", "destroy"} => act'[b] = act[b]
  BY <1>2 DEF Rest
<1> QED
  BY <1>1, <1>3, <1>4, <1>5, GoingOnKeeps

\* The consumer takes an event or a sweep up.
LEMMA TakeUpKeeps ==
  ASSUME IInv, ~Overlap,
         \/ handleJob \/ SweepTick \/ (\E p \in PR : SweepNext(p)) \/ SweepEnd
         \/ handleSavePreviewConfig \/ handleDeleteApp \/ ListPreviewsForParent
         \/ \E p \in PR : handleDestroyPreview(p) \/ DestroyByID(p)
  PROVE  IInv'
<1> USE DEF IInv, Types
<1>0. /\ "run" \in Actor /\ "page" \in Actor /\ Live \subseteq PR
      /\ act["run"] \in ActRec /\ act["page"] \in ActRec
  BY DEF Actor, Live
<1>1. CASE handleJob
  <2> DEFINE e == Head(queue)
  <2>1. /\ act["run"].at = "idle" /\ queue # <<>> /\ Free("run", e.pr) /\ queue' = Tail(queue)
        /\ UNCHANGED <<gh, wire, parent, allowForks, kids, deploy, dbs, serving, halves, leaked>>
    BY <1>1 DEF handleJob, github, tables, bounds
  <2>2. e \in Event /\ queue' \in Seq(Event) /\ Len(queue') <= QueueSize
    BY <2>1, PreviewsAssumption DEF PreviewTypeOK
  <2>3. PICK new \in {Idle, [Idle EXCEPT !.pr = e.pr, !.then = "idle", !.at = "teardown"],
                      [Idle EXCEPT !.pr = e.pr, !.then = "idle", !.at = "spawn"]} :
             act' = [act EXCEPT !["run"] = new]
    BY <1>1 DEF handleJob
  <2>4. /\ new \in ActRec /\ (new.at \in Rest <=> new.pr = NoPR)
        /\ new.at \in {"idle", "teardown", "spawn"} /\ (new.at # "idle" => new.then = "idle")
        /\ new.pr \in {NoPR, e.pr}
    <3> DEFINE Shape(n) == /\ n \in ActRec /\ (n.at \in Rest <=> n.pr = NoPR)
                           /\ n.at \in {"idle", "teardown", "spawn"} /\ (n.at # "idle" => n.then = "idle")
                           /\ n.pr \in {NoPR, e.pr}
    <3>1. e.pr \in PR /\ e.pr # NoPR
      BY <2>2, PreviewsAssumption DEF Event
    <3> HIDE DEF e
    <3>2. Shape(Idle)
      BY DEF ActRec, Idle, At, Rest
    <3>3. Shape([Idle EXCEPT !.pr = e.pr, !.then = "idle", !.at = "teardown"])
      BY <3>1 DEF ActRec, Idle, At, Rest, Removing
    <3>4. Shape([Idle EXCEPT !.pr = e.pr, !.then = "idle", !.at = "spawn"])
      BY <3>1 DEF ActRec, Idle, At, Rest, Removing
    <3> HIDE DEF Shape
    <3>5. Shape(new)
      BY <2>3, <3>2, <3>3, <3>4
    <3> QED
      BY <3>5 DEF Shape
  <2> HIDE DEF e
  <2>5. act' \in [Actor -> ActRec] /\ act'["run"] = new /\ \A b \in Actor \ {"run"} : act'[b] = act[b]
    BY <1>0, <2>3, <2>4
  <2>6. act["run"].pr = NoPR /\ allowForks' \in BOOLEAN
    BY <1>0, <2>1 DEF Stages, Rest, PreviewTypeOK
  <2> QED
    BY <1>0, <2>1, <2>2, <2>4, <2>5, <2>6, BeginKeeps DEF Rest
<1>2. CASE SweepTick
  <2> DEFINE new == [Idle EXCEPT !.at = "sweep", !.then = "sweep", !.list = Live]
  <2>1. /\ act["run"].at \in {"boot", "idle"} /\ act' = [act EXCEPT !["run"] = new]
        /\ UNCHANGED <<gh, wire, queue, parent, allowForks, kids, deploy, dbs, serving, halves, leaked>>
    BY <1>2 DEF SweepTick, github, tables, bounds
  <2>2. new \in ActRec /\ new.at = "sweep" /\ new.pr = NoPR /\ new.then = "sweep"
    BY <1>0 DEF ActRec, Idle, At, Rest
  <2> HIDE DEF new
  <2>3. act' \in [Actor -> ActRec] /\ act'["run"] = new /\ \A b \in Actor \ {"run"} : act'[b] = act[b]
    BY <1>0, <2>1, <2>2
  <2>4. act["run"].pr = NoPR /\ allowForks' \in BOOLEAN /\ Len(queue') <= QueueSize
    BY <1>0, <2>1 DEF Stages, Rest, PreviewTypeOK
  <2> QED
    BY <1>0, <2>1, <2>2, <2>3, <2>4, BeginKeeps DEF Rest
<1>3. CASE \E p \in PR : SweepNext(p)
  <2>0. PICK p \in PR : SweepNext(p)
    BY <1>3
  <2>1. /\ act["run"].at = "sweep" /\ Free("run", p)
        /\ UNCHANGED <<gh, wire, queue, parent, allowForks, kids, deploy, dbs, serving, halves, leaked>>
    BY <2>0 DEF SweepNext, github, tables
  <2>2. \/ act' = [act EXCEPT !["run"].list = @ \ {p}, !["run"].at = "teardown", !["run"].pr = p]
        \/ act' = [act EXCEPT !["run"].list = @ \ {p}, !["run"].at = "sweep", !["run"].pr = NoPR]
        \/ act' = [act EXCEPT !["run"].list = @ \ {p}]
    <3>1. ASSUME NEW go \in BOOLEAN,
                 act' = [act EXCEPT !["run"].list = @ \ {p},
                                    !["run"].at = IF go THEN "teardown" ELSE "sweep",
                                    !["run"].pr = IF go THEN p ELSE NoPR]
          PROVE  \/ act' = [act EXCEPT !["run"].list = @ \ {p}, !["run"].at = "teardown", !["run"].pr = p]
                 \/ act' = [act EXCEPT !["run"].list = @ \ {p}, !["run"].at = "sweep", !["run"].pr = NoPR]
      BY <3>1, Zenon
    <3>2. Unwanted(p) \in BOOLEAN
      BY DEF Unwanted, prClosed, PreviewTypeOK
    <3> QED
      BY <2>0, <3>1, <3>2 DEF SweepNext
  <2>3. act["run"].pr = NoPR /\ allowForks' \in BOOLEAN /\ Len(queue') <= QueueSize
        /\ act["run"].then \in {"idle", "sweep"}
    BY <1>0, <2>1 DEF Stages, Rest, PreviewTypeOK
  <2>4. /\ act' \in [Actor -> ActRec] /\ act'["run"].then = act["run"].then
        /\ \/ act'["run"].at = "teardown" /\ act'["run"].pr = p
           \/ act'["run"].at = "sweep" /\ act'["run"].pr = NoPR
        /\ \A b \in Actor \ {"run"} : act'[b] = act[b]
    BY <1>0, <2>1, <2>2, <2>3 DEF ActRec, At, Rest, Removing
  <2> QED
    BY <1>0, <2>1, <2>3, <2>4, BeginKeeps, PreviewsAssumption DEF Rest
<1>4. CASE SweepEnd
  <2>1. /\ act["run"].at = "sweep" /\ act' = [act EXCEPT !["run"] = Idle]
        /\ UNCHANGED <<gh, wire, queue, parent, allowForks, kids, deploy, dbs, serving, halves, leaked>>
    BY <1>4 DEF SweepEnd, github, tables, bounds
  <2>2. Idle \in ActRec /\ Idle.at = "idle" /\ Idle.pr = NoPR
    BY DEF ActRec, Idle, At, Rest
  <2>3. act' \in [Actor -> ActRec] /\ act'["run"] = Idle /\ \A b \in Actor \ {"run"} : act'[b] = act[b]
    BY <1>0, <2>1, <2>2
  <2>4. act["run"].pr = NoPR /\ allowForks' \in BOOLEAN /\ Len(queue') <= QueueSize
    BY <1>0, <2>1 DEF Stages, Rest, PreviewTypeOK
  <2> QED
    BY <1>0, <2>1, <2>2, <2>3, <2>4, BeginKeeps DEF Rest
<1>5. CASE handleSavePreviewConfig \/ handleDeleteApp
  <2>1. /\ act["page"].at = "idle" /\ allowForks' \in BOOLEAN
        /\ UNCHANGED <<gh, wire, queue, parent, kids, deploy, dbs, serving, halves, leaked>>
    BY <1>5 DEF handleSavePreviewConfig, handleDeleteApp, github, tables, bounds, PreviewTypeOK
  <2>2. PICK new \in {Idle, [Idle EXCEPT !.at = "list", !.then = "next"],
                      [Idle EXCEPT !.at = "list", !.then = "parent"]} :
             act' = [act EXCEPT !["page"] = new]
    BY <1>5 DEF handleSavePreviewConfig, handleDeleteApp
  <2>3. /\ new \in ActRec /\ new.pr = NoPR
        /\ new.at = "idle" \/ (new.at = "list" /\ new.then \in {"next", "parent"})
    <3> DEFINE Shape(n) == /\ n \in ActRec /\ n.pr = NoPR
                           /\ n.at = "idle" \/ (n.at = "list" /\ n.then \in {"next", "parent"})
    <3>1. Shape(Idle)
      BY DEF ActRec, Idle, At, Rest
    <3>2. Shape([Idle EXCEPT !.at = "list", !.then = "next"])
      BY DEF ActRec, Idle, At, Rest
    <3>3. Shape([Idle EXCEPT !.at = "list", !.then = "parent"])
      BY DEF ActRec, Idle, At, Rest
    <3> HIDE DEF Shape
    <3>4. Shape(new)
      BY <2>2, <3>1, <3>2, <3>3
    <3> QED
      BY <3>4 DEF Shape
  <2>4. act' \in [Actor -> ActRec] /\ act'["page"] = new /\ \A b \in Actor \ {"page"} : act'[b] = act[b]
    BY <1>0, <2>2, <2>3
  <2>5. act["page"].pr = NoPR /\ Len(queue') <= QueueSize
    BY <1>0, <2>1 DEF Stages, Rest, PreviewTypeOK
  <2> QED
    BY <1>0, <2>1, <2>3, <2>4, <2>5, BeginKeeps DEF Rest
<1>6. CASE ListPreviewsForParent
  <2>1. /\ act["page"].at = "list" /\ act["page"].then \in {"next", "parent"}
        /\ UNCHANGED <<gh, wire, queue, parent, allowForks, kids, deploy, dbs, serving, halves, leaked>>
    BY <1>6 DEF ListPreviewsForParent, github, tables, bounds, Stages
  <2>2. PICK l \in SUBSET PR : act' = [act EXCEPT !["page"].at = act["page"].then, !["page"].list = l]
    BY <1>0, <1>6 DEF ListPreviewsForParent
  <2>3. /\ act' \in [Actor -> ActRec] /\ act'["page"].at = act["page"].then
        /\ act'["page"].pr = act["page"].pr /\ act'["page"].then = act["page"].then
        /\ \A b \in Actor \ {"page"} : act'[b] = act[b]
    BY <1>0, <2>1, <2>2 DEF ActRec, At, Rest
  <2>4. act["page"].pr = NoPR /\ allowForks' \in BOOLEAN /\ Len(queue') <= QueueSize
    BY <1>0, <2>1 DEF Stages, Rest, PreviewTypeOK
  <2> QED
    BY <1>0, <2>1, <2>3, <2>4, BeginKeeps DEF Rest
<1>7. ASSUME NEW p \in PR, handleDestroyPreview(p) \/ DestroyByID(p) PROVE IInv'
  <2>1. /\ Free("page", p) /\ act["page"].at \in {"idle", "next", "parent"}
        /\ UNCHANGED <<gh, wire, queue, parent, allowForks, kids, deploy, dbs, serving, halves, leaked>>
    BY <1>7 DEF handleDestroyPreview, DestroyByID, github, tables, bounds
  <2>2. /\ act' \in [Actor -> ActRec] /\ act'["page"].at = "teardown" /\ act'["page"].pr = p
        /\ act'["page"].then = "idle"
           \/ (act'["page"].then = act["page"].then /\ act["page"].at # "idle")
        /\ \A b \in Actor \ {"page"} : act'[b] = act[b]
    <3>1. CASE handleDestroyPreview(p)
      <4> DEFINE new == [Idle EXCEPT !.at = "teardown", !.pr = p, !.then = "idle"]
      <4>1. new \in ActRec /\ new.at = "teardown" /\ new.pr = p /\ new.then = "idle"
        BY DEF ActRec, Idle, At, Removing
      <4>2. act' = [act EXCEPT !["page"] = new]
        BY <3>1 DEF handleDestroyPreview
      <4> HIDE DEF new
      <4> QED
        BY <1>0, <4>1, <4>2
    <3>2. CASE DestroyByID(p)
      <4>1. act' = [act EXCEPT !["page"].list = @ \ {p}, !["page"].pr = p, !["page"].at = "teardown"]
            /\ act["page"].at \in {"next", "parent"}
        BY <3>2, Zenon DEF DestroyByID
      <4> QED
        BY <1>0, <4>1 DEF ActRec, At, Removing
    <3> QED
      BY <1>7, <3>1, <3>2
  <2>3. act["page"].pr = NoPR /\ allowForks' \in BOOLEAN /\ Len(queue') <= QueueSize
        /\ (act["page"].at # "idle" => act["page"].then \in {"idle", "next", "parent"})
    BY <1>0, <2>1 DEF Stages, Rest, PreviewTypeOK
  <2> QED
    BY <1>0, <2>1, <2>2, <2>3, BeginKeeps, PreviewsAssumption DEF Rest
<1> QED
  BY <1>1, <1>2, <1>3, <1>4, <1>5, <1>6, <1>7

\* A page's teardown ends.
LEMMA EndPageKeeps == ASSUME IInv, EndPage PROVE IInv'
<1> USE DEF IInv, Types
<1>1. /\ act["page"].at \in {"next", "parent"} /\ act' = [act EXCEPT !["page"] = Idle]
      /\ parent' \in BOOLEAN
      /\ UNCHANGED <<gh, wire, queue, allowForks, kids, deploy, dbs, serving, halves, leaked>>
  BY DEF EndPage, github, bounds, PreviewTypeOK
<1>2. Idle \in ActRec /\ Idle.at = "idle" /\ Idle.pr = NoPR
  BY DEF ActRec, Idle, At, Rest
<1>3. act' \in [Actor -> ActRec] /\ act'["page"] = Idle /\ act'["run"] = act["run"]
  BY <1>1, <1>2 DEF Actor
<1>4. PreviewTypeOK'
  BY <1>1, <1>3 DEF PreviewTypeOK, ActRec
<1>5. Stages'
  BY <1>2, <1>3, PreviewsAssumption DEF Stages, Actor, Rest, Removing
<1>6. Quiet' /\ Known' /\ Halves'
  BY <1>1, <1>2, <1>3 DEF Quiet, Known, Halves, Actor, Making
<1>7. \A b \in Actor : act[b].at \in {"attach", "destroy"} => act'[b] = act[b]
  BY <1>1, <1>3 DEF Actor
<1> QED
  BY <1>1, <1>3, <1>4, <1>5, <1>6, <1>7, GoingOnKeeps

\* The rollback and the teardown ask which database they will have to destroy.
LEMMA CaptureMoves ==
  ASSUME IInv, NEW a \in Actor, NEW at \in At, Capture(a, at)
  PROVE  /\ Moved(a, at, act'[a].db) /\ leaked \subseteq leaked'
         /\ act'[a].db => dbs[act[a].pr] = "attached"
         /\ dbs[act[a].pr] = "attached" => act'[a].db \/ act[a].pr \in leaked'
<1> USE DEF IInv, Types
<1> DEFINE q == act[a].pr
           attached == dbs[q] = "attached"
<1>1. ASSUME NEW c \in BOOLEAN, act' = [act EXCEPT ![a] = [@ EXCEPT !.at = at, !.late = FALSE, !.db = c]]
      PROVE  Moved(a, at, act'[a].db) /\ (act'[a].db <=> c)
  <2> DEFINE new == [act[a] EXCEPT !.at = at, !.late = FALSE, !.db = c]
  <2>1. /\ new \in ActRec
        /\ new.db = c /\ new.at = at /\ new.pr = act[a].pr /\ new.then = act[a].then
    BY DEF ActRec
  <2> HIDE DEF new
  <2>2. act' = [act EXCEPT ![a] = new]
    BY <1>1 DEF new
  <2>3. /\ act' \in [Actor -> ActRec] /\ act'[a] = new
        /\ \A b \in Actor \ {a} : act'[b] = act[b]
    BY <2>1, <2>2
  <2> QED
    BY <2>1, <2>3, Zenon DEF Moved
<1>2. CASE /\ act' = [act EXCEPT ![a] = [@ EXCEPT !.at = at, !.late = FALSE, !.db = Captured(q)]]
           /\ UNCHANGED leaked
  <2>1. attached \in BOOLEAN
        /\ act' = [act EXCEPT ![a] = [@ EXCEPT !.at = at, !.late = FALSE, !.db = attached]]
    BY <1>2, Zenon DEF Captured
  <2> HIDE DEF attached
  <2>2. Moved(a, at, act'[a].db) /\ (act'[a].db <=> attached)
    BY <1>1, <2>1
  <2> QED
    BY <1>2, <2>2 DEF attached
<1>3. CASE /\ leaked' = leaked \cup {q}
           /\ act' = [act EXCEPT ![a] = [@ EXCEPT !.at = at, !.late = FALSE, !.db = FALSE]]
  <2>1. Moved(a, at, act'[a].db) /\ (act'[a].db <=> FALSE)
    BY <1>1, <1>3
  <2> QED
    BY <1>3, <2>1
<1> QED
  BY <1>2, <1>3 DEF Capture

\* A teardown looks the preview's database up.
LEMMA CaptureKeeps ==
  ASSUME IInv, NEW a \in Actor, cleanupChild \/ teardown(a)
  PROVE  IInv'
<1> USE DEF IInv, Types
<1>0. act[a] \in ActRec /\ act["run"] \in ActRec /\ "run" \in Actor
  BY DEF Actor
<1>1. CASE cleanupChild
  <2>1. /\ act["run"].at = "roll_back" /\ Capture("run", "delete")
        /\ UNCHANGED <<gh, wire, queue, parent, allowForks, kids, deploy, dbs, serving, halves>>
    BY <1>1 DEF cleanupChild, github, tables
  <2> DEFINE d == act'["run"].db
             p == act["run"].pr
  <2>2. /\ Moved("run", "delete", d) /\ leaked \subseteq leaked'
        /\ d => dbs[p] = "attached"
        /\ dbs[p] = "attached" => d \/ p \in leaked'
    BY <1>0, <2>1, CaptureMoves DEF At, Removing
  <2>3. p # NoPR
    BY <1>0, <2>1 DEF Stages, Rest
  <2>4. Stages'
    BY <1>0, <2>2, <2>3, MovedStages DEF At, Rest, Removing
  <2>5. PreviewTypeOK'
    BY <2>1, <2>2 DEF PreviewTypeOK, Moved, ActRec
  <2>6. Quiet' /\ Halves'
    BY <1>0, <2>1, <2>2, <2>3 DEF Moved, Quiet, Halves, Making, Actor
  <2>7. Known'
    BY <1>0, <2>1, <2>2 DEF Moved, Known, Actor
  <2>8. \A b \in Actor : act[b].at \in {"attach", "destroy"} => act'[b] = act[b]
    BY <2>1, <2>2 DEF Moved
  <2> QED
    BY <2>1, <2>2, <2>4, <2>5, <2>6, <2>7, <2>8, GoingOnKeeps DEF Moved
<1>2. CASE teardown(a)
  <2>1. /\ act[a].at = "teardown"
        /\ UNCHANGED <<gh, wire, queue, parent, allowForks, kids, deploy, dbs, serving, halves>>
    BY <1>2 DEF teardown, github, tables
  <2>2. act[a].pr # NoPR /\ act[a].then # "done"
    BY <1>0, <2>1 DEF Stages, Rest, Actor
  <2>3. (Ended(a) /\ leaked' = leaked) \/ Capture(a, "remove")
    <3>1. Done(a) => Ended(a)
      BY <2>2, FinishEnds
    <3>2. CallFails(a, GiveUp(a)) => Ended(a)
      BY <2>2, FailureEnds
    <3> QED
      BY <1>2, <3>1, <3>2 DEF teardown
  <2>4. CASE Ended(a) /\ leaked' = leaked
    <3>1. act' \in [Actor -> ActRec] /\ \A b \in Actor \ {a} : act'[b] = act[b]
      BY <2>4 DEF Ended
    <3>2. Stages'
      BY <2>2, <2>4, EndedStages
    <3>3. PreviewTypeOK'
      BY <2>1, <3>1 DEF PreviewTypeOK, ActRec
    <3>4. act'[a].at \in Rest
      BY <2>4, <3>2 DEF Ended, Stages
    <3>5. Quiet' /\ Known' /\ Halves'
      BY <2>1, <2>4, <3>1, <3>4 DEF Quiet, Known, Halves, Making, Rest, Actor
    <3>6. \A b \in Actor : act[b].at \in {"attach", "destroy"} => act'[b] = act[b]
      BY <2>1, <3>1
    <3> QED
      BY <2>1, <2>4, <3>1, <3>2, <3>3, <3>5, <3>6, GoingOnKeeps
  <2>5. CASE Capture(a, "remove")
    <3> DEFINE d == act'[a].db
               p == act[a].pr
    <3>1. /\ Moved(a, "remove", d) /\ leaked \subseteq leaked'
          /\ d => dbs[p] = "attached"
          /\ dbs[p] = "attached" => d \/ p \in leaked'
      BY <2>5, CaptureMoves DEF At, Removing
    <3>2. /\ act' \in [Actor -> ActRec] /\ \A b \in Actor \ {a} : act'[b] = act[b]
          /\ act'[a].at = "remove" /\ act'[a].pr = p
      BY <3>1 DEF Moved
    <3>3. Stages'
      BY <2>2, <3>1, MovedStages DEF At, Rest, Removing
    <3>4. PreviewTypeOK'
      BY <2>1, <3>2 DEF PreviewTypeOK, ActRec
    <3>5. Quiet' /\ Halves'
      BY <2>1, <3>2 DEF Quiet, Halves, Making, Actor
    <3>6. Known'
      BY <2>1, <3>1, <3>2 DEF Known, Actor
    <3>7. \A b \in Actor : act[b].at \in {"attach", "destroy"} => act'[b] = act[b]
      BY <2>1, <3>2
    <3> QED
      BY <2>1, <3>1, <3>2, <3>3, <3>4, <3>5, <3>6, <3>7, GoingOnKeeps
  <2> QED
    BY <2>3, <2>4, <2>5
<1> QED
  BY <1>1, <1>2

(***************************************************************************)
(* The steps that write.                                                   *)
(***************************************************************************)
\* `spawn` creates the child's row only where the pull request has none and the cap allows.
LEMMA SpawnKeeps == ASSUME IInv, spawn PROVE IInv'
<1> USE DEF IInv, Types
<1> DEFINE p == act["run"].pr
<1>0. act["run"] \in ActRec /\ "run" \in Actor
  BY DEF Actor
<1>1. /\ act["run"].at = "spawn"
      /\ UNCHANGED <<gh, wire, queue, parent, allowForks, dbs, serving, halves, leaked>>
  BY DEF spawn, github
<1>2. p \in PR /\ p # NoPR /\ act["run"].then # "done"
  BY <1>0, <1>1 DEF Stages, Rest, ActRec
<1> HIDE DEF p
<1>3. \/ Ended("run") /\ kids' = kids /\ (deploy' = deploy \/ (kids[p] # "none" /\ deploy' = [deploy EXCEPT ![p] = TRUE]))
      \/ /\ Moved("run", "provision", act["run"].db) /\ deploy' = deploy
         /\ kids[p] = "none" /\ Cardinality(Live) < MaxConcurrent /\ kids' = [kids EXCEPT ![p] = "half"]
  <2>1. ASSUME Done("run") PROVE Ended("run")
    BY <1>0, <1>2, <2>1, FinishEnds
  <2>2. ASSUME CallFails("run", Finish("run")) PROVE Ended("run")
    BY <1>0, <1>2, <2>2, FailureEnds
  <2>3. ASSUME Proceed("run", "provision") PROVE Moved("run", "provision", act["run"].db)
    BY <1>0, <2>3, MoveAt DEF Proceed, At, Making
  <2>4. Cardinality(Live) \in Nat /\ MaxConcurrent \in Nat
    BY FS_CardinalityType, PreviewsAssumption DEF Capped
  <2>5. ~CapReached(Cardinality(Live)) => Cardinality(Live) < MaxConcurrent
    BY <2>4 DEF CapReached
  <2> QED
    BY <2>1, <2>2, <2>3, <2>5 DEF spawn, p
<1>4. /\ act' \in [Actor -> ActRec] /\ \A b \in Actor \ {"run"} : act'[b] = act[b]
      /\ act'["run"].at \in Rest \/ (act'["run"].at = "provision" /\ act'["run"].pr = p)
  <2>1. ASSUME Ended("run") PROVE act'["run"].at \in Rest
    BY <1>0, <1>1, <2>1 DEF Ended, Stages, Rest
  <2> QED
    BY <1>3, <2>1 DEF Moved, Ended, p
<1>5. Stages'
  BY <1>0, <1>2, <1>3, EndedStages, MovedStages DEF At, Rest, Making, p
<1>6. PreviewTypeOK'
  <2>1. kids' \in [PR -> {"none", "half", "built"}] /\ deploy' \in [PR -> BOOLEAN]
    BY <1>2, <1>3 DEF PreviewTypeOK
  <2> QED
    BY <1>1, <1>4, <2>1 DEF PreviewTypeOK, ActRec
<1>7. Halves' /\ HasRow'
  BY <1>1, <1>2, <1>3, <1>4 DEF Halves, HasRow, Making, Moved, Ended, PreviewTypeOK, p
<1>8. Quiet'
  BY <1>1, <1>2, <1>3, <1>4 DEF Quiet, HasRow, Making, Rest, Actor, Moved, Ended, PreviewTypeOK, p
<1>9. Known' /\ DatabaseOwned'
  BY <1>1, <1>4 DEF Known, DatabaseOwned, Rest, Actor
<1>10. Capped'
  <2>1. CASE kids' = kids
    BY <2>1 DEF Capped, WithinCap, Live
  <2>2. CASE kids' # kids
    <3>1. Live' = Live \cup {p} /\ p \notin Live
      BY <1>2, <1>3, <2>2 DEF Live, PreviewTypeOK
    <3>2. IsFiniteSet(Live') /\ Cardinality(Live') = Cardinality(Live) + 1
      BY <3>1, FS_AddElement DEF Capped
    <3>3. Cardinality(Live) \in Nat /\ Cardinality(Live) < MaxConcurrent /\ MaxConcurrent \in Nat
      BY <1>3, <2>2, FS_CardinalityType, PreviewsAssumption DEF Capped
    <3> QED
      BY <3>2, <3>3 DEF Capped, WithinCap
  <2> QED
    BY <2>1, <2>2
<1> QED
  BY <1>1, <1>4, <1>5, <1>6, <1>7, <1>8, <1>9, <1>10

\* A spawn that goes on, or turns to its rollback.
LEMMA MakingKeeps ==
  ASSUME IInv, UNCHANGED <<gh, wire, queue, parent, allowForks, serving, halves>>,
         act["run"].at \in Making \ {"roll_back"},
         NEW at \in {"attach", "build", "roll_back"}, Moved("run", at, act["run"].db),
         UNCHANGED <<kids, deploy>>, dbs' \in [PR -> {"none", "loose", "attached"}],
         leaked \subseteq leaked',
         \A p \in PR \ {act["run"].pr} : dbs'[p] = dbs[p],
         at = "attach" => dbs'[act["run"].pr] = "loose",
         dbs'[act["run"].pr] = "loose" =>
           at = "attach" \/ act["run"].pr \in leaked'
           \/ (dbs[act["run"].pr] = "loose" /\ act["run"].at # "attach")
  PROVE  IInv'
<1> USE DEF IInv, Types
<1>0. act["run"] \in ActRec /\ "run" \in Actor
  BY DEF Actor
<1>1. /\ act["run"].pr \in PR /\ act["run"].pr # NoPR
  BY <1>0 DEF Stages, Rest, ActRec, Making
<1>2. /\ act' \in [Actor -> ActRec] /\ \A b \in Actor \ {"run"} : act'[b] = act[b]
      /\ act'["run"].at = at /\ act'["run"].pr = act["run"].pr
  BY DEF Moved
<1>3. Stages'
  BY <1>0, <1>1, MovedStages DEF At, Rest, Making
<1>4. PreviewTypeOK'
  BY <1>2 DEF PreviewTypeOK, ActRec
<1>5. Halves' /\ HasRow' /\ Quiet'
  BY <1>1, <1>2 DEF Halves, HasRow, Quiet, Making, Actor
<1>6. Known'
  <2>1. ASSUME act["page"].at \in {"remove", "delete"}
        PROVE  dbs'[act["page"].pr] = dbs[act["page"].pr]
    <3>1. act["page"] \in ActRec /\ act["page"].pr # NoPR
      BY <2>1 DEF Stages, Actor, Rest
    <3> QED
      BY <1>1, <3>1 DEF ActRec, Stages
  <2> QED
    BY <1>2, <2>1 DEF Known, Actor
<1>7. DatabaseOwned'
  BY <1>1, <1>2 DEF DatabaseOwned, Actor, Stages, Making
<1>8. Capped'
  BY DEF Capped, WithinCap, Live
<1> QED
  BY <1>2, <1>3, <1>4, <1>5, <1>6, <1>7, <1>8

\* A spawn makes the database, attaches it, and may fail to deploy.
LEMMA MakeKeeps ==
  ASSUME IInv, provisionDatabases \/ AttachDatabase \/ (buildPreview /\ ~Done("run"))
  PROVE  IInv'
<1> USE DEF IInv, Types
<1> DEFINE p == act["run"].pr
<1>0. act["run"] \in ActRec /\ "run" \in Actor /\ dbs \in [PR -> {"none", "loose", "attached"}]
  BY DEF Actor, PreviewTypeOK
<1>1. act["run"].at \in Making \ {"roll_back"} /\ p \in PR
      /\ UNCHANGED <<gh, wire, queue, parent, allowForks, kids, deploy, serving, halves>>
  <2>1. act["run"].at \in Making \ {"roll_back"}
    BY DEF provisionDatabases, AttachDatabase, buildPreview, Making
  <2>2. p \in PR
    BY <1>0, <2>1 DEF Stages, Rest, ActRec, Making
  <2> QED
    BY <2>1, <2>2 DEF provisionDatabases, AttachDatabase, buildPreview, github
<1>2. /\ \A at \in At : Proceed("run", at) => Moved("run", at, act["run"].db)
      /\ act' = RolledBack \/ CallFails("run", RolledBack) => Moved("run", "roll_back", act["run"].db)
  BY <1>0, MoveAt, FailureMoves DEF Proceed, RolledBack, At, Making
<1>3. CASE provisionDatabases
  <2>1. CASE dbs[p] = "none" /\ dbs' = [dbs EXCEPT ![p] = "loose"] /\ Proceed("run", "attach") /\ leaked' = leaked
    <3>1. Moved("run", "attach", act["run"].db)
      BY <1>2, <2>1 DEF At, Making
    <3> QED
      BY <1>0, <1>1, <2>1, <3>1, MakingKeeps
  <2>2. CASE /\ act' = RolledBack \/ CallFails("run", RolledBack)
             /\ \/ UNCHANGED <<dbs, leaked>>
                \/ dbs' = [dbs EXCEPT ![p] = "loose"] /\ leaked' = leaked \cup {p}
    <3>1. Moved("run", "roll_back", act["run"].db) /\ act["run"].at # "attach"
      BY <1>2, <1>3, <2>2 DEF provisionDatabases
    <3> QED
      BY <1>0, <1>1, <2>2, <3>1, MakingKeeps
  <2> QED
    BY <1>3, <2>1, <2>2 DEF provisionDatabases
<1>4. CASE AttachDatabase
  <2>1. CASE dbs' = [dbs EXCEPT ![p] = "attached"] /\ Proceed("run", "build") /\ leaked' = leaked
    <3>1. Moved("run", "build", act["run"].db)
      BY <1>2, <2>1 DEF At, Making
    <3> QED
      BY <1>0, <1>1, <2>1, <3>1, MakingKeeps
  <2>2. CASE /\ act' = RolledBack \/ CallFails("run", RolledBack)
             /\ \/ dbs' = [dbs EXCEPT ![p] = "none"] /\ leaked' = leaked
                \/ leaked' = leaked \cup {p} /\ dbs' = dbs
    <3>1. Moved("run", "roll_back", act["run"].db)
      BY <1>2, <2>2
    <3> QED
      BY <1>0, <1>1, <2>2, <3>1, MakingKeeps
  <2> QED
    BY <1>4, <2>1, <2>2 DEF AttachDatabase
<1>5. CASE buildPreview /\ ~Done("run")
  <2>1. act' = RolledBack \/ CallFails("run", RolledBack)
    BY <1>5 DEF buildPreview
  <2>2. UNCHANGED <<dbs, leaked>> /\ act["run"].at = "build"
    BY <1>5 DEF buildPreview
  <2>3. Moved("run", "roll_back", act["run"].db)
    BY <1>2, <2>1
  <2> QED
    BY <1>0, <1>1, <2>2, <2>3, MakingKeeps
<1> QED
  BY <1>3, <1>4, <1>5

\* A spawn ends with the preview's first deployment.
LEMMA BuiltKeeps == ASSUME IInv, buildPreview, Done("run") PROVE IInv'
<1> USE DEF IInv, Types
<1> DEFINE p == act["run"].pr
<1>0. act["run"] \in ActRec /\ "run" \in Actor
  BY DEF Actor
<1>1. /\ act["run"].at = "build"
      /\ UNCHANGED <<gh, wire, queue, parent, allowForks, dbs, serving, halves, leaked>>
  BY DEF buildPreview, github
<1>2. p \in PR /\ p # NoPR /\ act["run"].then # "done"
  BY <1>0, <1>1 DEF Stages, Rest, ActRec
<1>3. Ended("run")
  BY <1>0, <1>2, FinishEnds
<1>4. Moved("run", "roll_back", act["run"].db) => FALSE
  BY <1>0, <1>2, <1>3 DEF Moved, Ended
<1>5. /\ kids[p] # "none" /\ kids' = [kids EXCEPT ![p] = "built"]
      /\ deploy' = [deploy EXCEPT ![p] = TRUE]
  BY <1>0, <1>4, MoveAt, FailureMoves DEF buildPreview, RolledBack, At, Making
<1>6. /\ act' \in [Actor -> ActRec] /\ \A b \in Actor \ {"run"} : act'[b] = act[b]
  BY <1>3 DEF Ended
<1>7. Stages'
  BY <1>0, <1>2, <1>3, EndedStages
<1>8. act'["run"].at \in Rest
  BY <1>0, <1>3, <1>7 DEF Ended, Stages
<1>9. PreviewTypeOK'
  BY <1>1, <1>2, <1>5, <1>6 DEF PreviewTypeOK, ActRec
<1> HIDE DEF p
<1>10. Halves' /\ HasRow'
  BY <1>1, <1>2, <1>5 DEF Halves, HasRow, PreviewTypeOK, p
<1>11. Quiet' /\ Known' /\ DatabaseOwned'
  BY <1>1, <1>6, <1>8 DEF Quiet, Known, DatabaseOwned, Actor, Rest, Making
<1>12. Live' = Live
  BY <1>2, <1>5 DEF Live, PreviewTypeOK
<1> QED
  BY <1>1, <1>6, <1>7, <1>9, <1>10, <1>11, <1>12 DEF Capped, WithinCap

\* The steps of a teardown after its first: the pull request is one of PR, and nobody
\* else has it.
LEMMA Removes ==
  ASSUME IInv, NEW a \in Actor, act[a].at \in {"remove", "delete", "destroy"}
  PROVE  /\ act[a] \in ActRec /\ act[a].pr \in PR /\ act[a].pr # NoPR /\ act[a].then # "done"
         /\ \A b \in Actor \ {a} : act[b].pr # act[a].pr
         /\ \A at \in At : Proceed(a, at) => Moved(a, at, act[a].db)
         /\ Done(a) \/ CallFails(a, Finish(a)) \/ CallFails(a, GiveUp(a)) => Ended(a)
<1> USE DEF IInv, Types
<1>1. act[a] \in ActRec /\ act[a].pr \in PR /\ act[a].pr # NoPR /\ act[a].then # "done"
  BY DEF Stages, Rest, ActRec, Actor
<1>2. \A b \in Actor \ {a} : act[b].pr # act[a].pr
  BY <1>1 DEF Stages, Actor
<1>3. \A at \in At : Proceed(a, at) => Moved(a, at, act[a].db)
  BY MoveAt DEF Proceed
<1>4. Done(a) \/ CallFails(a, Finish(a)) \/ CallFails(a, GiveUp(a)) => Ended(a)
  BY <1>1, FinishEnds, FailureEnds
<1> QED
  BY <1>1, <1>2, <1>3, <1>4

\* A teardown removes the containers.
LEMMA RemoveKeeps == ASSUME IInv, NEW a \in Actor, RemoveApp(a) PROVE IInv'
<1> USE DEF IInv, Types
<1> DEFINE p == act[a].pr
<1>1. /\ act[a].at = "remove"
      /\ UNCHANGED <<gh, wire, queue, parent, allowForks, kids, deploy, dbs, halves, leaked>>
  BY DEF RemoveApp, github, tables
<1>2. /\ p \in PR /\ p # NoPR /\ \A b \in Actor \ {a} : act[b].pr # p
      /\ Proceed(a, "delete") => Moved(a, "delete", act[a].db)
      /\ CallFails(a, GiveUp(a)) => Ended(a)
  BY <1>1, Removes DEF At, Removing
<1>3. /\ serving' = serving \/ serving' = [serving EXCEPT ![p] = FALSE]
      /\ Ended(a) \/ (Moved(a, "delete", act[a].db) /\ serving' = [serving EXCEPT ![p] = FALSE])
  BY <1>2 DEF RemoveApp
<1> HIDE DEF p
<1>4. /\ act' \in [Actor -> ActRec] /\ \A b \in Actor \ {a} : act'[b] = act[b]
  BY <1>3 DEF Moved, Ended
<1>5. Stages'
  BY <1>2, <1>3, EndedStages, MovedStages DEF At, Rest, Removing, p
<1>6. \/ act'[a].at \in Rest
      \/ /\ act'[a].at = "delete" /\ act'[a].pr = p /\ act'[a].db = act[a].db /\ ~serving'[p]
  BY <1>2, <1>3, <1>5 DEF Ended, Moved, Stages, PreviewTypeOK, p
<1>7. serving' \in [PR -> BOOLEAN] /\ \A q \in PR : serving'[q] => serving[q]
  BY <1>2, <1>3 DEF PreviewTypeOK
<1>8. PreviewTypeOK'
  BY <1>1, <1>4, <1>7 DEF PreviewTypeOK, ActRec
<1>9. Halves' /\ HasRow' /\ DatabaseOwned'
  BY <1>1, <1>4, <1>7 DEF Halves, HasRow, DatabaseOwned, Actor, Making
<1>10. Known'
  BY <1>1, <1>4, <1>6 DEF Known, Actor, Rest, p
<1>11. Quiet'
  <2>1. ASSUME NEW b \in Actor \ {a}, act[b].at \in Making \cup {"delete"} PROVE act[b].pr \in PR
    BY <2>1 DEF Stages, Rest, Making, ActRec
  <2> QED
    BY <1>1, <1>4, <1>6, <1>7, <2>1 DEF Quiet, Actor, Rest, Making, p
<1>12. Capped'
  BY <1>1 DEF Capped, WithinCap, Live
<1> QED
  BY <1>1, <1>4, <1>5, <1>8, <1>9, <1>10, <1>11, <1>12

\* A teardown destroys the database.
LEMMA DestroyKeeps == ASSUME IInv, NEW a \in Actor, DestroyDatabase(a) PROVE IInv'
<1> USE DEF IInv, Types
<1> DEFINE p == act[a].pr
<1>1. /\ act[a].at = "destroy"
      /\ UNCHANGED <<gh, wire, queue, parent, allowForks, kids, deploy, serving, halves>>
  BY DEF DestroyDatabase, github
<1>2. /\ p \in PR /\ p # NoPR /\ \A b \in Actor \ {a} : act[b].pr # p
      /\ Done(a) \/ CallFails(a, Finish(a)) => Ended(a)
  BY <1>1, Removes
<1>3. /\ Ended(a)
      /\ (dbs' = [dbs EXCEPT ![p] = "none"] /\ leaked' = leaked) \/ (dbs' = dbs /\ leaked' = leaked \cup {p})
  BY <1>2 DEF DestroyDatabase
<1> HIDE DEF p
<1>4. /\ act' \in [Actor -> ActRec] /\ \A b \in Actor \ {a} : act'[b] = act[b]
  BY <1>3 DEF Ended
<1>5. Stages'
  BY <1>2, <1>3, EndedStages DEF p
<1>6. act'[a].at \in Rest
  BY <1>3, <1>5 DEF Ended, Stages
<1>7. /\ dbs' \in [PR -> {"none", "loose", "attached"}] /\ \A q \in PR \ {p} : dbs'[q] = dbs[q]
      /\ dbs'[p] = "loose" => p \in leaked'
      /\ leaked \subseteq leaked'
  BY <1>2, <1>3 DEF PreviewTypeOK
<1>8. PreviewTypeOK'
  BY <1>1, <1>4, <1>7 DEF PreviewTypeOK, ActRec
<1>9. Halves' /\ HasRow' /\ Quiet'
  BY <1>1, <1>4, <1>6 DEF Halves, HasRow, Quiet, Actor, Making, Rest
<1>10. DatabaseOwned'
  BY <1>2, <1>4, <1>7 DEF DatabaseOwned, p
<1>11. Known'
  <2>1. ASSUME NEW b \in Actor \ {a}, act[b].at \in {"attach", "remove", "delete"}
        PROVE  dbs'[act[b].pr] = dbs[act[b].pr]
    <3>1. act[b].pr \in PR
      BY <2>1 DEF Stages, Rest, ActRec
    <3> QED
      BY <1>2, <1>7, <3>1
  <2> QED
    BY <1>4, <1>6, <1>7, <2>1 DEF Known, Actor, Rest
<1>12. Capped'
  BY <1>1 DEF Capped, WithinCap, Live
<1> QED
  BY <1>1, <1>4, <1>5, <1>8, <1>9, <1>10, <1>11, <1>12

\* A teardown deletes the rows.
LEMMA DeleteKeeps == ASSUME IInv, NEW a \in Actor, DeleteChild(a) PROVE IInv'
<1> USE DEF IInv, Types
<1> DEFINE p == act[a].pr
<1>1. /\ act[a].at = "delete"
      /\ UNCHANGED <<gh, wire, queue, parent, allowForks, serving, leaked>>
  BY DEF DeleteChild, github
<1>2. /\ act[a] \in ActRec /\ p \in PR /\ p # NoPR /\ \A b \in Actor \ {a} : act[b].pr # p
      /\ Proceed(a, "destroy") => Moved(a, "destroy", act[a].db)
      /\ Done(a) \/ CallFails(a, GiveUp(a)) => Ended(a)
  BY <1>1, Removes DEF At, Removing
<1>3. /\ ~serving[p] /\ (act[a].db => dbs[p] = "attached")
      /\ dbs[p] = "attached" => act[a].db \/ p \in leaked
  BY <1>1 DEF Quiet, Known
<1>4. CASE UNCHANGED <<kids, deploy, dbs>> /\ CallFails(a, GiveUp(a))
           /\ halves' = halves \cup {q \in {p} : kids[q] = "half"}
  <2>1. Ended(a)
    BY <1>2, <1>4
  <2> HIDE DEF p
  <2>2. /\ act' \in [Actor -> ActRec] /\ \A b \in Actor \ {a} : act'[b] = act[b]
    BY <2>1 DEF Ended
  <2>3. Stages'
    BY <1>2, <2>1, EndedStages DEF p
  <2>4. act'[a].at \in Rest
    BY <2>1, <2>3 DEF Ended, Stages
  <2>5. PreviewTypeOK'
    BY <1>1, <1>4, <2>2 DEF PreviewTypeOK, ActRec
  <2>6. Halves'
    BY <1>2, <1>4, <2>2 DEF Halves, Actor, p
  <2>7. HasRow' /\ Quiet' /\ Known' /\ DatabaseOwned'
    BY <1>1, <1>4, <2>2, <2>4 DEF HasRow, Quiet, Known, DatabaseOwned, Actor, Making, Rest
  <2>8. Capped'
    BY <1>4 DEF Capped, WithinCap, Live
  <2> QED
    BY <1>1, <2>2, <2>3, <2>5, <2>6, <2>7, <2>8
<1>5. CASE /\ kids' = [kids EXCEPT ![p] = "none"] /\ deploy' = [deploy EXCEPT ![p] = FALSE]
           /\ dbs' = [dbs EXCEPT ![p] = IF @ = "attached" THEN "loose" ELSE @]
           /\ IF act[a].db THEN Proceed(a, "destroy") ELSE Done(a)
           /\ halves' = halves \ {p}
  <2>1. IF act[a].db THEN Moved(a, "destroy", act[a].db) ELSE Ended(a)
    BY <1>2, <1>5
  <2> HIDE DEF p
  <2>2. /\ act' \in [Actor -> ActRec] /\ \A b \in Actor \ {a} : act'[b] = act[b]
    BY <2>1 DEF Ended, Moved
  <2>3. Stages'
    BY <1>2, <2>1, EndedStages, MovedStages DEF At, Rest, Removing, p
  <2>4. act'[a].at \in Rest \/ (act'[a].at = "destroy" /\ act'[a].pr = p)
    BY <2>1, <2>3 DEF Ended, Moved, Stages, p
  <2>5. /\ kids' \in [PR -> {"none", "half", "built"}] /\ deploy' \in [PR -> BOOLEAN]
        /\ dbs' \in [PR -> {"none", "loose", "attached"}]
        /\ kids'[p] = "none" /\ ~deploy'[p]
        /\ \A q \in PR \ {p} : kids'[q] = kids[q] /\ deploy'[q] = deploy[q] /\ dbs'[q] = dbs[q]
    BY <1>2, <1>5 DEF PreviewTypeOK
  <2>6. PreviewTypeOK'
    BY <1>1, <2>2, <2>5 DEF PreviewTypeOK, ActRec
  <2>7. Halves'
    BY <1>2, <1>5, <2>2, <2>5 DEF Halves, Actor, p
  <2>8. HasRow'
    BY <1>1, <1>3, <2>5 DEF HasRow, p
  <2>9. \A b \in Actor \ {a} : act[b].at \notin Rest => act[b].pr \in PR \ {p}
    BY <1>2 DEF Stages, ActRec
  <2>10. Quiet' /\ Known'
    BY <1>1, <2>2, <2>4, <2>5, <2>9 DEF Quiet, Known, Actor, Making, Rest
  <2>11. DatabaseOwned'
    <3>1. CASE act[a].db
      <4>1. act'[a].at = "destroy" /\ act'[a].pr = p
        BY <2>1, <3>1 DEF Moved, p
      <4> QED
        BY <1>1, <1>2, <2>2, <2>5, <4>1 DEF DatabaseOwned, p
    <3>2. CASE ~act[a].db
      <4>1. dbs'[p] = "loose" => dbs[p] = "loose" \/ p \in leaked
        BY <1>2, <1>3, <1>5, <3>2 DEF PreviewTypeOK
      <4>2. dbs[p] = "loose" => p \in leaked
        BY <1>1, <1>2 DEF DatabaseOwned, p
      <4> QED
        BY <1>1, <2>2, <2>5, <4>1, <4>2 DEF DatabaseOwned, p
    <3> QED
      BY <3>1, <3>2
  <2>12. Capped'
    <3>1. Live' = Live \ {p}
      BY <1>2, <2>5 DEF Live
    <3>2. IsFiniteSet(Live') /\ Cardinality(Live') <= Cardinality(Live)
      <4>1. IsFiniteSet(Live)
        BY DEF Capped
      <4>2. Live' \subseteq Live
        BY <3>1
      <4> QED
        BY <4>1, <4>2, FS_Subset
    <3>3. Cardinality(Live') \in Nat /\ Cardinality(Live) \in Nat /\ MaxConcurrent \in Nat
      BY <3>2, FS_CardinalityType, PreviewsAssumption DEF Capped
    <3> QED
      BY <3>2, <3>3 DEF Capped, WithinCap
  <2> QED
    BY <1>1, <2>2, <2>3, <2>6, <2>7, <2>8, <2>10, <2>11, <2>12
<1> QED
  BY <1>4, <1>5 DEF DeleteChild

\* The worker deploys a preview.
LEMMA DeployKeeps == ASSUME IInv, ~Overlap, NEW p \in PR, Deploy(p) PROVE IInv'
<1> USE DEF IInv, Types
<1>1. /\ deploy[p] /\ \A b \in Actor : act[b].pr # p
      /\ deploy' = [deploy EXCEPT ![p] = FALSE]
      /\ serving' = serving \/ serving' = [serving EXCEPT ![p] = TRUE]
      /\ UNCHANGED <<gh, wire, queue, parent, allowForks, kids, dbs, act, halves, leaked>>
  BY DEF Deploy, Free, Actor, github, bounds
<1>2. /\ deploy' \in [PR -> BOOLEAN] /\ serving' \in [PR -> BOOLEAN]
      /\ \A q \in PR \ {p} : deploy'[q] = deploy[q] /\ serving'[q] = serving[q]
  BY <1>1 DEF PreviewTypeOK
<1>3. PreviewTypeOK'
  BY <1>1, <1>2 DEF PreviewTypeOK
<1>4. Stages' /\ Known' /\ Halves' /\ DatabaseOwned'
  BY <1>1 DEF Stages, Known, Halves, DatabaseOwned
<1>5. HasRow'
  BY <1>1, <1>2 DEF HasRow
<1>6. \A b \in Actor : act[b].at \notin Rest => act[b].pr \in PR \ {p}
  BY <1>1 DEF Stages, ActRec
<1>7. Quiet'
  BY <1>1, <1>2, <1>6 DEF Quiet, Rest, Making, Actor
<1>8. Capped'
  BY <1>1 DEF Capped, WithinCap, Live
<1> QED
  BY <1>1, <1>3, <1>4, <1>5, <1>7, <1>8

\* A crash loses the goroutines and the queue.
LEMMA CrashKeeps == ASSUME IInv, Crash PROVE IInv'
<1> USE DEF IInv, Types
<1>1. /\ queue' = <<>>
      /\ act' = [a \in Actor |-> IF a = "run" THEN [Idle EXCEPT !.at = "boot"] ELSE Idle]
      /\ leaked' = leaked \cup {p \in PR : dbs'[p] = "loose"}
      /\ halves' = halves \cup {p \in PR : kids[p] = "half"}
      /\ UNCHANGED <<gh, wire, parent, allowForks, kids, deploy, serving>>
  BY DEF Crash, github
<1>2. dbs' \in [PR -> {"none", "loose", "attached"}]
  BY DEF Crash, PreviewTypeOK
<1>3. \A a \in Actor : act'[a] \in ActRec /\ act'[a].pr = NoPR /\ act'[a].list = {}
                       /\ act'[a].at = IF a = "run" THEN "boot" ELSE "idle"
  BY <1>1 DEF Actor, Idle, ActRec, At, Rest
<1>4. act' \in [Actor -> ActRec] /\ queue' \in Seq(Event) /\ Len(queue') <= QueueSize
  BY <1>1, <1>3, PreviewsAssumption
<1>5. PreviewTypeOK'
  BY <1>1, <1>2, <1>3, <1>4 DEF PreviewTypeOK
<1>6. Stages'
  BY <1>3 DEF Stages, Actor, Rest, Removing
<1>7. Quiet' /\ Known'
  BY <1>3 DEF Quiet, Known, Actor, Making
<1>8. Halves' /\ HasRow' /\ DatabaseOwned'
  BY <1>1 DEF Halves, HasRow, DatabaseOwned
<1>9. Capped'
  BY <1>1 DEF Capped, WithinCap, Live
<1> QED
  BY <1>4, <1>5, <1>6, <1>7, <1>8, <1>9

\* Every step keeps the invariant while two goroutines do not meet.
LEMMA PreviewsStep == ASSUME ~Overlap PROVE IInv /\ [PreviewNext]_previewVars => IInv'
<1> SUFFICES ASSUME IInv, [PreviewNext]_previewVars PROVE IInv'
  OBVIOUS
<1>1. CASE UNCHANGED previewVars
  BY <1>1, OutsideKeeps DEF previewVars, github, tables, bounds, IInv, Types, PreviewTypeOK
<1>2. CASE Run
  <2>1. "run" \in Actor
    BY DEF Actor
  <2> QED
    BY <1>2, <2>1, TakeUpKeeps, SpawnKeeps, MakeKeeps, BuiltKeeps, CaptureKeeps, RemoveKeeps,
       DeleteKeeps, DestroyKeeps DEF Run
<1>3. CASE Page
  <2>1. "page" \in Actor
    BY DEF Actor
  <2> QED
    BY <1>3, <2>1, TakeUpKeeps, EndPageKeeps, CaptureKeeps, RemoveKeeps, DeleteKeeps, DestroyKeeps
       DEF Page
<1>4. CASE \E p \in PR : OpenPR(p) \/ PushToPR(p) \/ ClosePR(p)
  BY <1>4, GithubKeeps
<1>5. CASE \E e \in wire : EnqueueEvent(e) \/ LoseDelivery(e)
  BY <1>5, GithubKeeps
<1>6. CASE SweepTick \/ handleSavePreviewConfig \/ handleDeleteApp \/ \E p \in PR : handleDestroyPreview(p)
  BY <1>6, TakeUpKeeps
<1> QED
  BY <1>1, <1>2, <1>3, <1>4, <1>5, <1>6, DeployKeeps, CrashKeeps DEF PreviewNext

\* Wherever a spawn, a redeploy or a teardown stops, what serves has a row, the cap
\* holds and a half-built preview is one that a crash or a failed rollback explains
\* (previewmgr/manager.go), when one goroutine at a time works on a pull request.
THEOREM PreviewsAreWhole == ASSUME ~Overlap PROVE PreviewSpec => []PreviewInv
<1>1. IInv => PreviewInv
  BY DEF IInv, Types, HasRow, Capped, Halves, PreviewInv, ServingHasRow, NoHalfPreview
<1> QED
  BY <1>1, PreviewsStart, PreviewsStep, PTL DEF PreviewSpec

\* No database is forgotten but by a failed call or a crash (manager.go:296-345,
\* 388-442), when one goroutine at a time works on a pull request.
THEOREM DatabasesAreOwned == ASSUME ~Overlap PROVE PreviewSpec => []DatabaseOwned
<1>1. IInv => DatabaseOwned
  BY DEF IInv
<1> QED
  BY <1>1, PreviewsStart, PreviewsStep, PTL DEF PreviewSpec
(* Versions are totally ordered. *)

\* Every non-empty set of naturals has a least element.
LEMMA Least ==
  ASSUME NEW S \in SUBSET Nat, S # {}
  PROVE  \E m \in S : \A k \in S : m <= k
<1> DEFINE R == {ss \in Nat \X Nat : ss[1] < ss[2]}
<1>1. IsWellFoundedOn(R, Nat)
  BY NatLessThanWellFounded DEF OpToRel
<1>2. \A y, x \in Nat : <<y, x>> \in R <=> y < x
  OBVIOUS
<1> HIDE DEF R
<1>3. PICK x \in S : \A y \in S : ~(<<y, x>> \in R)
  BY <1>1, WFMin
<1>4. \A y \in S : ~(y < x)
  BY <1>2, <1>3
<1> QED
  BY <1>4

\* What SemVer's definition compares: lists of ranked numbers.
Keys == Seq(Nat \X Nat)

\* Lexicographic order, as Precedes has it.
LexLess(k, l) ==
  \/ \E i \in DOMAIN k \cap DOMAIN l :
       KeyLess(k[i], l[i]) /\ \A j \in 1..(i - 1) : k[j] = l[j]
  \/ Len(k) < Len(l) /\ \A j \in DOMAIN k : k[j] = l[j]

\* Precedes is that order on the versions' keys.
LEMMA PrecedesIsLex == \A v, o : Precedes(v, o) <=> LexLess(Key(v), Key(o))
BY DEF Precedes, LexLess

\* Ranked numbers are totally ordered.
LEMMA KeyLessOrder ==
  ASSUME NEW a \in Nat \X Nat, NEW b \in Nat \X Nat, NEW c \in Nat \X Nat
  PROVE  /\ ~KeyLess(a, a)
         /\ KeyLess(a, b) /\ KeyLess(b, c) => KeyLess(a, c)
         /\ KeyLess(a, b) \/ KeyLess(b, a) \/ a = b
BY DEF KeyLess

\* The first place where two lists differ.
FirstAt(s, t, i) == s[i] # t[i] /\ \A j \in 1..(i - 1) : s[j] = t[j]

\* Two lists that differ at n first differ at n or before.
LEMMA FirstDifference ==
  ASSUME NEW s, NEW t, NEW n \in Nat \ {0}, s[n] # t[n]
  PROVE  \E i \in 1..n : FirstAt(s, t, i)
<1> DEFINE D == {i \in 1..n : s[i] # t[i]}
<1>1. D \in SUBSET Nat /\ n \in D
  OBVIOUS
<1>2. PICK i \in D : \A k \in D : i <= k
  BY <1>1, Least
<1>3. ASSUME NEW j \in 1..(i - 1) PROVE s[j] = t[j]
  <2>1. j \in 1..n /\ j < i
    BY <1>2
  <2> QED
    BY <2>1, <1>2
<1> QED
  BY <1>2, <1>3 DEF FirstAt

\* No list precedes itself.
LEMMA LexIrreflexive ==
  ASSUME NEW k \in Keys
  PROVE  ~LexLess(k, k)
<1>1. \A i \in DOMAIN k : k[i] \in Nat \X Nat
  BY DEF Keys
<1>2. \A i \in DOMAIN k : ~KeyLess(k[i], k[i])
  BY <1>1, KeyLessOrder
<1> QED
  BY <1>2 DEF LexLess, Keys

\* Of two lists one precedes the other, or they are the same.
LEMMA LexTotal ==
  ASSUME NEW k \in Keys, NEW l \in Keys
  PROVE  LexLess(k, l) \/ LexLess(l, k) \/ k = l
<1> DEFINE m == Len(k)
           n == Len(l)
<1>0. /\ m \in Nat /\ DOMAIN k = 1..m /\ k \in [1..m -> Nat \X Nat]
      /\ n \in Nat /\ DOMAIN l = 1..n /\ l \in [1..n -> Nat \X Nat]
  BY DEF Keys
<1> HIDE DEF m, n
<1>1. CASE \E d \in DOMAIN k \cap DOMAIN l : k[d] # l[d]
  <2>1. PICK d \in DOMAIN k \cap DOMAIN l : k[d] # l[d]
    BY <1>1
  <2>2. PICK i \in DOMAIN k \cap DOMAIN l : k[i] # l[i] /\ \A j \in 1..(i - 1) : k[j] = l[j]
    <3>1. PICK i \in 1..d : FirstAt(k, l, i)
      <4>1. d \in Nat \ {0}
        BY <2>1, <1>0
      <4> QED
        BY <2>1, <4>1, FirstDifference
    <3>2. i \in DOMAIN k \cap DOMAIN l
      <4>1. d \in 1..m /\ d \in 1..n
        BY <2>1, <1>0
      <4>2. i \in 1..m /\ i \in 1..n
        BY <4>1, <1>0
      <4> QED
        BY <4>2, <1>0
    <3>3. k[i] # l[i] /\ \A j \in 1..(i - 1) : k[j] = l[j]
      BY <3>1 DEF FirstAt
    <3> QED
      BY <3>2, <3>3
  <2>3. k[i] \in Nat \X Nat /\ l[i] \in Nat \X Nat
    BY <2>2, <1>0
  <2>4. KeyLess(k[i], l[i]) \/ KeyLess(l[i], k[i])
    BY <2>2, <2>3, KeyLessOrder
  <2> QED
    BY <2>2, <2>4 DEF LexLess
<1>2. CASE \A d \in DOMAIN k \cap DOMAIN l : k[d] = l[d]
  <2>1. CASE m < n
    <3>1. \A d \in DOMAIN k : k[d] = l[d]
      BY <1>0, <1>2, <2>1
    <3> QED
      BY <2>1, <3>1 DEF LexLess, m, n
  <2>2. CASE n < m
    <3>1. \A d \in DOMAIN l : l[d] = k[d]
      BY <1>0, <1>2, <2>2
    <3> QED
      BY <2>2, <3>1 DEF LexLess, m, n
  <2>3. CASE m = n
    <3>1. \A d \in 1..m : k[d] = l[d]
      BY <1>0, <1>2, <2>3
    <3> QED
      BY <3>1, <1>0, <2>3
  <2> QED
    BY <2>1, <2>2, <2>3, <1>0
<1> QED
  BY <1>1, <1>2

\* A list that precedes one that precedes another precedes it.
LEMMA LexTransitive ==
  ASSUME NEW k \in Keys, NEW l \in Keys, NEW m \in Keys, LexLess(k, l), LexLess(l, m)
  PROVE  LexLess(k, m)
<1> DEFINE LessAt(x, y, i) == KeyLess(x[i], y[i]) /\ \A j \in 1..(i - 1) : x[j] = y[j]
           Ends(x, y) == Len(x) < Len(y) /\ \A j \in DOMAIN x : x[j] = y[j]
<1>0. /\ DOMAIN k = 1..Len(k) /\ Len(k) \in Nat /\ \A i \in DOMAIN k : k[i] \in Nat \X Nat
      /\ DOMAIN l = 1..Len(l) /\ Len(l) \in Nat /\ \A i \in DOMAIN l : l[i] \in Nat \X Nat
      /\ DOMAIN m = 1..Len(m) /\ Len(m) \in Nat /\ \A i \in DOMAIN m : m[i] \in Nat \X Nat
  BY DEF Keys
<1>9. ASSUME NEW i \in Nat, NEW n \in Nat, i <= n
      PROVE  \A j \in 1..(i - 1) : j \in 1..(n - 1)
  BY <1>9
<1>7. \A i \in DOMAIN l : i \in Nat
  BY <1>0
<1>8. ASSUME NEW i \in DOMAIN k \cap DOMAIN m, KeyLess(k[i], m[i]), \A j \in 1..(i - 1) : k[j] = m[j]
      PROVE  LexLess(k, m)
  BY <1>8 DEF LexLess
<1>1. ASSUME NEW i \in DOMAIN k \cap DOMAIN l, LessAt(k, l, i), NEW n \in DOMAIN l \cap DOMAIN m, LessAt(l, m, n)
      PROVE  LexLess(k, m)
  <2>1. CASE i < n
    <3>1. i \in DOMAIN k \cap DOMAIN m /\ i \in 1..(n - 1) /\ l[i] = m[i]
      <4>1. i \in 1..Len(k) /\ n \in 1..Len(m) /\ \A j \in 1..(n - 1) : l[j] = m[j]
        BY <1>1, <1>0
      <4>2. i \in 1..(n - 1) /\ i \in 1..Len(m)
        BY <2>1, <4>1, <1>0
      <4> QED
        BY <4>1, <4>2, <1>0
    <3>2. \A j \in 1..(i - 1) : k[j] = m[j]
      <4>1. i \in Nat /\ n \in Nat /\ i <= n
        BY <2>1, <1>7
      <4>2. \A j \in 1..(i - 1) : j \in 1..(n - 1)
        BY <4>1, <1>9
      <4> QED
        BY <4>2, <1>1
    <3>3. KeyLess(k[i], m[i])
      BY <3>1, <1>1
    <3> QED
      BY <3>1, <3>2, <3>3, <1>8
  <2>2. CASE n < i
    <3>0. n \in 1..(i - 1)
      BY <2>2, <1>0
    <3>1. n \in DOMAIN k \cap DOMAIN m /\ k[n] = l[n]
      BY <3>0, <1>1, <1>0
    <3>2. \A j \in 1..(n - 1) : k[j] = m[j]
      <4>1. i \in Nat /\ n \in Nat /\ n <= i
        BY <2>2, <1>7
      <4>2. \A j \in 1..(n - 1) : j \in 1..(i - 1)
        BY <4>1, <1>9
      <4> QED
        BY <4>2, <1>1
    <3>3. KeyLess(k[n], m[n])
      BY <3>1, <1>1
    <3> QED
      BY <3>1, <3>2, <3>3, <1>8
  <2>3. CASE i = n
    <3>1. i \in DOMAIN k \cap DOMAIN m /\ \A j \in 1..(i - 1) : k[j] = m[j]
      BY <2>3, <1>1, <1>0
    <3>2. KeyLess(k[i], m[i])
      BY <2>3, <1>1, <1>0, KeyLessOrder
    <3> QED
      BY <3>1, <3>2, <1>8
  <2> QED
    BY <2>1, <2>2, <2>3, <1>0
<1>2. ASSUME NEW i \in DOMAIN k \cap DOMAIN l, LessAt(k, l, i), Ends(l, m)
      PROVE  LexLess(k, m)
  <2>1. i \in DOMAIN k \cap DOMAIN m /\ l[i] = m[i]
    BY <1>2, <1>0
  <2>2. \A j \in 1..(i - 1) : j \in DOMAIN l
    BY <1>0
  <2>3. \A j \in 1..(i - 1) : k[j] = m[j]
    BY <1>2, <2>2
  <2> QED
    BY <2>1, <2>3, <1>2 DEF LexLess
<1>3. ASSUME Ends(k, l), NEW n \in DOMAIN l \cap DOMAIN m, LessAt(l, m, n)
      PROVE  LexLess(k, m)
  <2>1. CASE n \in DOMAIN k
    <3>1. n \in DOMAIN k \cap DOMAIN m /\ k[n] = l[n] /\ \A j \in 1..(n - 1) : k[j] = m[j]
      <4>1. /\ n \in 1..Len(k) /\ n \in DOMAIN m /\ \A j \in 1..(n - 1) : l[j] = m[j]
            /\ \A j \in 1..Len(k) : k[j] = l[j]
        BY <2>1, <1>3, <1>0
      <4>2. \A j \in 1..(n - 1) : j \in 1..Len(k)
        BY <4>1, <1>0
      <4> QED
        BY <4>1, <4>2, <1>0
    <3> QED
      BY <3>1, <1>3 DEF LexLess
  <2>2. CASE n \notin DOMAIN k
    <3>1. Len(k) < Len(m) /\ Len(k) < n
      BY <2>2, <1>3, <1>0
    <3>2. \A j \in DOMAIN k : j \in 1..(n - 1)
      BY <3>1, <1>0
    <3>3. \A j \in DOMAIN k : k[j] = m[j]
      BY <3>2, <1>3
    <3> QED
      BY <3>1, <3>3 DEF LexLess
  <2> QED
    BY <2>1, <2>2
<1>4. ASSUME Ends(k, l), Ends(l, m) PROVE LexLess(k, m)
  <2>1. Len(k) < Len(m) /\ \A j \in DOMAIN k : k[j] = m[j]
    BY <1>4, <1>0
  <2> QED
    BY <2>1 DEF LexLess
<1> QED
  BY <1>1, <1>2, <1>3, <1>4 DEF LexLess

\* One list after another.
LEMMA KeysConcat ==
  ASSUME NEW s \in Keys, NEW t \in Keys
  PROVE  /\ s \o t \in Keys /\ Len(s \o t) = Len(s) + Len(t)
         /\ \A i \in 1..Len(s) : (s \o t)[i] = s[i]
         /\ \A i \in 1..Len(t) : (s \o t)[i + Len(s)] = t[i]
<1>1. PICK S : S = Nat \X Nat
  OBVIOUS
<1>2. s \in Seq(S) /\ t \in Seq(S) /\ Keys = Seq(S)
  BY <1>1 DEF Keys
<1>3. Len(s) \in Nat /\ Len(t) \in Nat
  BY <1>2
<1>4. s \o t \in Seq(S) /\ Len(s \o t) = Len(s) + Len(t)
  BY <1>2, ConcatProperties
<1>5. \A i \in 1..(Len(s) + Len(t)) : (s \o t)[i] = IF i <= Len(s) THEN s[i] ELSE t[i - Len(s)]
  BY <1>2, ConcatProperties
<1>6. ASSUME NEW i \in 1..Len(s) PROVE (s \o t)[i] = s[i]
  <2>1. i \in 1..(Len(s) + Len(t)) /\ i <= Len(s)
    BY <1>3
  <2> QED
    BY <1>5, <2>1
<1>7. ASSUME NEW i \in 1..Len(t) PROVE (s \o t)[i + Len(s)] = t[i]
  <2>1. i + Len(s) \in 1..(Len(s) + Len(t)) /\ ~(i + Len(s) <= Len(s)) /\ (i + Len(s)) - Len(s) = i
    BY <1>3
  <2> QED
    BY <1>5, <2>1
<1> QED
  BY <1>2, <1>4, <1>6, <1>7

\* The key of a version: its numbers, then its identifiers or the release marker.
LEMMA KeyFacts ==
  ASSUME NEW v, IsVersion(v)
  PROVE  /\ Key(v) \in Keys
         /\ \A i \in 1..3 : Key(v)[i] = <<0, v.nums[i]>>
         /\ v.pre = <<>> => Len(Key(v)) = 4 /\ Key(v)[4] = <<2, 0>>
         /\ v.pre # <<>> =>
              /\ Len(Key(v)) = 3 + Len(v.pre)
              /\ \A i \in 1..Len(v.pre) :
                   Key(v)[i + 3] = <<IF v.pre[i].digits THEN 0 ELSE 1, v.pre[i].val>>
<1>1. PICK a : a = [i \in 1..3 |-> <<0, v.nums[i]>>]
  OBVIOUS
<1>2. PICK b : b = [i \in DOMAIN v.pre |-> <<IF v.pre[i].digits THEN 0 ELSE 1, v.pre[i].val>>]
  OBVIOUS
<1>3. v.nums \in [1..3 -> Nat] /\ v.pre \in Seq([digits : BOOLEAN, val : Nat])
  BY DEF IsVersion
<1>4. a \in Keys /\ Len(a) = 3 /\ \A i \in 1..3 : a[i] = <<0, v.nums[i]>>
  <2>1. a \in [1..3 -> Nat \X Nat]
    BY <1>1, <1>3
  <2>2. a \in Seq(Nat \X Nat) /\ Len(a) = 3
    <3>1. \A S, f, n : n \in Nat /\ f \in [1..n -> S] => f \in Seq(S) /\ Len(f) = n
      OBVIOUS
    <3>2. 3 \in Nat
      OBVIOUS
    <3> QED
      BY <2>1, <3>1, <3>2, Zenon
  <2> QED
    BY <1>1, <2>2 DEF Keys
<1>5. PICK n \in Nat : n = Len(v.pre) /\ v.pre \in [1..n -> [digits : BOOLEAN, val : Nat]]
  BY <1>3, LenProperties
<1>6. b \in Keys /\ Len(b) = n /\ \A i \in 1..n : b[i] = <<IF v.pre[i].digits THEN 0 ELSE 1, v.pre[i].val>>
  <2>1. \A i \in 1..n : <<IF v.pre[i].digits THEN 0 ELSE 1, v.pre[i].val>> \in Nat \X Nat
    BY <1>5
  <2>2. b \in [1..n -> Nat \X Nat]
    BY <1>2, <1>5, <2>1
  <2>3. b \in Seq(Nat \X Nat) /\ Len(b) = n
    BY <2>2
  <2> QED
    BY <1>2, <1>5, <2>3 DEF Keys
<1>7. CASE v.pre = <<>>
  <2>1. Key(v) = a \o << <<2, 0>> >>
    BY <1>1, <1>7 DEF Key
  <2>2. << <<2, 0>> >> \in Keys /\ Len(<< <<2, 0>> >>) = 1 /\ << <<2, 0>> >>[1] = <<2, 0>>
    BY DEF Keys
  <2>7. PICK c : c = << <<2, 0>> >>
    OBVIOUS
  <2>8. c \in Keys /\ Len(c) = 1 /\ c[1] = <<2, 0>> /\ Key(v) = a \o c
    BY <2>1, <2>2, <2>7
  <2>9. a \in Keys /\ c \in Keys
    BY <1>4, <2>8
  <2>10. /\ a \o c \in Keys /\ Len(a \o c) = Len(a) + Len(c)
         /\ \A i \in 1..Len(a) : (a \o c)[i] = a[i]
         /\ \A i \in 1..Len(c) : (a \o c)[i + Len(a)] = c[i]
    BY <2>9, KeysConcat, Zenon
  <2>3. Key(v) \in Keys /\ Len(Key(v)) = 3 + 1
    BY <1>4, <2>8, <2>10
  <2>5. \A i \in 1..3 : Key(v)[i] = a[i]
    BY <1>4, <2>8, <2>10
  <2>6. Key(v)[1 + 3] = c[1]
    <3>1. \A i \in 1..1 : Key(v)[i + 3] = c[i]
      BY <1>4, <2>8, <2>10
    <3> QED
      BY <3>1
  <2> QED
    BY <1>4, <1>7, <2>8, <2>3, <2>5, <2>6
<1>8. CASE v.pre # <<>>
  <2>1. Key(v) = a \o b
    BY <1>1, <1>2, <1>8 DEF Key
  <2>9. a \in Keys /\ b \in Keys
    BY <1>4, <1>6
  <2>10. /\ a \o b \in Keys /\ Len(a \o b) = Len(a) + Len(b)
         /\ \A i \in 1..Len(a) : (a \o b)[i] = a[i]
         /\ \A i \in 1..Len(b) : (a \o b)[i + Len(a)] = b[i]
    BY <2>9, KeysConcat, Zenon
  <2>4. Key(v) \in Keys /\ Len(Key(v)) = 3 + n
    BY <1>4, <1>6, <2>1, <2>10
  <2>2. \A i \in 1..3 : Key(v)[i] = a[i]
    BY <1>4, <1>6, <2>1, <2>10
  <2>3. \A i \in 1..n : Key(v)[i + 3] = b[i]
    BY <1>4, <1>6, <2>1, <2>10
  <2> QED
    BY <1>4, <1>5, <1>6, <1>8, <2>2, <2>3, <2>4
<1> QED
  BY <1>7, <1>8

\* A list of n elements.
Runs(s, n) == n \in Nat /\ DOMAIN s = 1..n

\* Lists of m and n elements have at most one place where they first differ.
LEMMA FirstDiffIs ==
  ASSUME NEW s, NEW t, NEW m, NEW n, Runs(s, m), Runs(t, n)
  PROVE  /\ \A i \in FirstDiff(s, t) : FirstDiff(s, t) = {i}
         /\ FirstDiff(s, t) = {} => \A i \in (1..m) \cap (1..n) : s[i] = t[i]
<1>1. ASSUME NEW i \in FirstDiff(s, t), NEW j \in FirstDiff(s, t) PROVE i = j
  <2>1. i \in Nat /\ j \in Nat /\ 1 <= i /\ 1 <= j /\ s[i] # t[i] /\ s[j] # t[j]
    BY DEF FirstDiff, Runs
  <2>2. \A l \in 1..(i - 1) : s[l] = t[l]
    BY DEF FirstDiff
  <2>3. \A l \in 1..(j - 1) : s[l] = t[l]
    BY DEF FirstDiff
  <2>4. ~(j < i)
    BY <2>1, <2>2
  <2>5. ~(i < j)
    BY <2>1, <2>3
  <2> QED
    BY <2>1, <2>4, <2>5
<1>2. ASSUME NEW d \in (1..m) \cap (1..n), s[d] # t[d] PROVE FirstDiff(s, t) # {}
  <2>1. d \in Nat \ {0} /\ 1..d \subseteq (1..m) \cap (1..n)
    BY DEF Runs
  <2>2. PICK i \in 1..d : FirstAt(s, t, i)
    BY <1>2, <2>1, FirstDifference
  <2>3. i \in DOMAIN s \cap DOMAIN t
    BY <2>1 DEF Runs
  <2> QED
    BY <2>2, <2>3 DEF FirstDiff, FirstAt
<1> QED
  BY <1>1, <1>2

\* Which way two versions go by the code's comparison.
Agrees(v, o, c) ==
  \/ c = -1 /\ LexLess(Key(v), Key(o))
  \/ c = 1 /\ LexLess(Key(o), Key(v))
  \/ c = 0 /\ Key(v) = Key(o)

\* Version.Compare (version.go:62-91) is SemVer's order.
LEMMA CompareAgrees ==
  ASSUME NEW v, NEW o, IsVersion(v), IsVersion(o)
  PROVE  Agrees(v, o, Compare(v, o))
<1> DEFINE k == Key(v)
           l == Key(o)
<1>1. /\ v.nums \in [1..3 -> Nat] /\ o.nums \in [1..3 -> Nat]
      /\ v.pre \in Seq([digits : BOOLEAN, val : Nat]) /\ o.pre \in Seq([digits : BOOLEAN, val : Nat])
  BY DEF IsVersion
<1>2. k \in Keys /\ l \in Keys
  BY KeyFacts
<1>3. \A i \in 1..3 : k[i] = <<0, v.nums[i]>> /\ l[i] = <<0, o.nums[i]>>
  BY KeyFacts
<1>4. DOMAIN k = 1..Len(k) /\ DOMAIN l = 1..Len(l) /\ Len(k) \in Nat /\ Len(l) \in Nat
  BY <1>2 DEF Keys
<1>5. Len(k) >= 4 /\ Len(l) >= 4
  <2>1. ASSUME NEW u, IsVersion(u) PROVE Len(Key(u)) >= 4
    <3>1. CASE u.pre = <<>>
      BY <2>1, <3>1, KeyFacts
    <3>2. CASE u.pre # <<>>
      <4>1. u.pre \in Seq([digits : BOOLEAN, val : Nat])
        BY <2>1 DEF IsVersion
      <4>2. Len(u.pre) >= 1
        BY <3>2, <4>1
      <4>3. Len(Key(u)) = 3 + Len(u.pre)
        BY <2>1, <3>2, KeyFacts
      <4> QED
        BY <4>1, <4>2, <4>3
    <3> QED
      BY <3>1, <3>2
  <2> QED
    BY <2>1
<1>6. ASSUME NEW i \in FirstDiff(v.nums, o.nums)
      PROVE  Agrees(v, o, Compare(v, o))
  <2>1. i \in 1..3 /\ v.nums[i] # o.nums[i] /\ v.nums[i] \in Nat /\ o.nums[i] \in Nat
    BY <1>1 DEF FirstDiff
  <2>2. \A j \in 1..(i - 1) : v.nums[j] = o.nums[j]
    BY DEF FirstDiff
  <2>3. FirstDiff(v.nums, o.nums) = {i}
    <3>1. Runs(v.nums, 3) /\ Runs(o.nums, 3)
      BY <1>1 DEF Runs
    <3> QED
      BY <3>1, FirstDiffIs
  <2>4. Compare(v, o) = Sign(v.nums[i], o.nums[i])
    BY <2>3 DEF Compare
  <2>5. i \in DOMAIN k \cap DOMAIN l /\ k[i] = <<0, v.nums[i]>> /\ l[i] = <<0, o.nums[i]>>
    BY <1>3, <1>4, <1>5, <2>1
  <2>6. \A j \in 1..(i - 1) : k[j] = l[j]
    <3>1. \A j \in 1..(i - 1) : j \in 1..3
      BY <2>1
    <3> QED
      BY <3>1, <1>3, <2>2
  <2>7. CASE v.nums[i] < o.nums[i]
    <3>1. KeyLess(k[i], l[i])
      BY <2>5, <2>7 DEF KeyLess
    <3>2. LexLess(k, l)
      BY <3>1, <2>5, <2>6 DEF LexLess
    <3>3. Compare(v, o) = -1
      BY <2>4, <2>7 DEF Sign
    <3> QED
      BY <3>2, <3>3 DEF Agrees
  <2>8. CASE o.nums[i] < v.nums[i]
    <3>1. KeyLess(l[i], k[i])
      BY <2>5, <2>8 DEF KeyLess
    <3>2. LexLess(l, k)
      BY <3>1, <2>5, <2>6 DEF LexLess
    <3>3. Compare(v, o) = 1
      BY <2>1, <2>4, <2>8 DEF Sign
    <3> QED
      BY <3>2, <3>3 DEF Agrees
  <2> QED
    BY <2>1, <2>7, <2>8
<1>7. ASSUME FirstDiff(v.nums, o.nums) = {} PROVE \A i \in 1..3 : k[i] = l[i]
  <2>2. \A i \in (1..3) \cap (1..3) : v.nums[i] = o.nums[i]
    <3>1. Runs(v.nums, 3) /\ Runs(o.nums, 3)
      BY <1>1 DEF Runs
    <3> QED
      BY <1>7, <3>1, FirstDiffIs
  <2> QED
    BY <2>2, <1>3
<1>8. ASSUME FirstDiff(v.nums, o.nums) = {}, ~IsPrerelease(v) \/ ~IsPrerelease(o)
      PROVE  Agrees(v, o, Compare(v, o))
  <2>1. Compare(v, o) = Sign(IF IsPrerelease(v) THEN 0 ELSE 1, IF IsPrerelease(o) THEN 0 ELSE 1)
    BY <1>8 DEF Compare
  <2>2. \A i \in 1..3 : k[i] = l[i]
    BY <1>7, <1>8
  <2>3. ASSUME NEW u, IsVersion(u), u.pre # <<>>
        PROVE  Key(u)[4] \in Nat \X Nat /\ Key(u)[4][1] < 2
    <3>1. u.pre \in Seq([digits : BOOLEAN, val : Nat])
      BY <2>3 DEF IsVersion
    <3>2. 1 \in 1..Len(u.pre) /\ u.pre[1] \in [digits : BOOLEAN, val : Nat]
      <4>1. PICK n \in Nat : n = Len(u.pre) /\ u.pre \in [1..n -> [digits : BOOLEAN, val : Nat]]
        BY <3>1, LenProperties
      <4>2. n # 0
        BY <2>3, <3>1, <4>1
      <4> QED
        BY <4>1, <4>2
    <3>3. \A i \in 1..Len(u.pre) : Key(u)[i + 3] = <<IF u.pre[i].digits THEN 0 ELSE 1, u.pre[i].val>>
      BY <2>3, KeyFacts
    <3>4. Key(u)[1 + 3] = <<IF u.pre[1].digits THEN 0 ELSE 1, u.pre[1].val>>
      BY <3>2, <3>3
    <3>5. PICK a \in [digits : BOOLEAN, val : Nat] : a = u.pre[1]
      BY <3>2
    <3>6. Key(u)[4] = <<IF a.digits THEN 0 ELSE 1, a.val>>
      BY <3>4, <3>5
    <3> QED
      BY <3>6
  <2>4. 4 \in DOMAIN k \cap DOMAIN l /\ \A j \in 1..(4 - 1) : k[j] = l[j] /\ l[j] = k[j]
    BY <1>4, <1>5, <2>2
  <2>5. CASE v.pre = <<>> /\ o.pre = <<>>
    <3>1. Len(k) = 4 /\ Len(l) = 4 /\ k[4] = <<2, 0>> /\ l[4] = <<2, 0>>
      BY <2>5, KeyFacts
    <3>2. \A i \in 1..4 : k[i] = l[i]
      BY <3>1, <2>2
    <3>4. k = l
      BY <1>2, <3>1, <3>2, SeqEqual DEF Keys
    <3> QED
      BY <3>4, <2>1, <2>5 DEF Agrees, Sign, IsPrerelease
  <2>6. CASE v.pre # <<>> /\ o.pre = <<>>
    <3>1. l[4] = <<2, 0>> /\ k[4] \in Nat \X Nat /\ k[4][1] < 2
      BY <2>6, <2>3, KeyFacts
    <3>2. KeyLess(k[4], l[4])
      BY <3>1 DEF KeyLess
    <3>3. LexLess(k, l)
      BY <3>2, <2>4 DEF LexLess
    <3> QED
      BY <3>3, <2>1, <2>6 DEF Agrees, Sign, IsPrerelease
  <2>7. CASE v.pre = <<>> /\ o.pre # <<>>
    <3>1. k[4] = <<2, 0>> /\ l[4] \in Nat \X Nat /\ l[4][1] < 2
      BY <2>7, <2>3, KeyFacts
    <3>2. KeyLess(l[4], k[4])
      BY <3>1 DEF KeyLess
    <3>3. LexLess(l, k)
      BY <3>2, <2>4 DEF LexLess
    <3> QED
      BY <3>3, <2>1, <2>7 DEF Agrees, Sign, IsPrerelease
  <2> QED
    BY <1>8, <2>5, <2>6, <2>7 DEF IsPrerelease
<1>9. ASSUME FirstDiff(v.nums, o.nums) = {}, IsPrerelease(v), IsPrerelease(o)
      PROVE  Agrees(v, o, Compare(v, o))
  <2>1. PICK m \in Nat : m = Len(v.pre) /\ v.pre \in [1..m -> [digits : BOOLEAN, val : Nat]]
    BY <1>1, LenProperties
  <2>2. PICK n \in Nat : n = Len(o.pre) /\ o.pre \in [1..n -> [digits : BOOLEAN, val : Nat]]
    BY <1>1, LenProperties
  <2>3. /\ Len(k) = 3 + m
        /\ \A i \in 1..m : k[i + 3] = <<IF v.pre[i].digits THEN 0 ELSE 1, v.pre[i].val>>
    BY <1>9, <2>1, KeyFacts DEF IsPrerelease
  <2>4. /\ Len(l) = 3 + n
        /\ \A i \in 1..n : l[i + 3] = <<IF o.pre[i].digits THEN 0 ELSE 1, o.pre[i].val>>
    BY <1>9, <2>2, KeyFacts DEF IsPrerelease
  <2>5. DOMAIN v.pre = 1..m /\ DOMAIN o.pre = 1..n /\ Runs(v.pre, m) /\ Runs(o.pre, n)
    BY <2>1, <2>2 DEF Runs
  <2>6. \A i \in 1..3 : k[i] = l[i]
    BY <1>7, <1>9
  <2>7. ASSUME NEW q \in Nat, q <= m, q <= n, \A j \in 1..q : v.pre[j] = o.pre[j]
        PROVE  \A j \in 1..(q + 3) : k[j] = l[j]
    <3>1. ASSUME NEW j \in 1..(q + 3), ~(j <= 3) PROVE k[j] = l[j]
      <4>1. j - 3 \in 1..q /\ j - 3 \in 1..m /\ j - 3 \in 1..n /\ (j - 3) + 3 = j
        BY <2>7, <3>1
      <4>2. v.pre[j - 3] = o.pre[j - 3]
        BY <4>1, <2>7
      <4>3. k[(j - 3) + 3] = l[(j - 3) + 3]
        BY <4>1, <4>2, <2>3, <2>4
      <4> QED
        BY <4>1, <4>3
    <3> QED
      BY <3>1, <2>6
  <2>8. ASSUME NEW i \in FirstDiff(v.pre, o.pre) PROVE Agrees(v, o, Compare(v, o))
    <3>1. FirstDiff(v.pre, o.pre) = {i}
      BY <2>5, FirstDiffIs
    <3>2. Compare(v, o) = compareIdent(v.pre[i], o.pre[i])
      BY <1>9, <3>1 DEF Compare
    <3>3. i \in 1..m /\ i \in 1..n /\ v.pre[i] # o.pre[i] /\ \A j \in 1..(i - 1) : v.pre[j] = o.pre[j]
      BY <2>5 DEF FirstDiff
    <3>4. \A j \in 1..((i - 1) + 3) : k[j] = l[j]
      BY <2>7, <3>3
    <3>5. i + 3 \in DOMAIN k \cap DOMAIN l /\ (i - 1) + 3 = (i + 3) - 1
      BY <1>4, <2>3, <2>4, <3>3
    <3>6. PICK a \in [digits : BOOLEAN, val : Nat] : a = v.pre[i]
      BY <2>1, <3>3
    <3>7. PICK b \in [digits : BOOLEAN, val : Nat] : b = o.pre[i]
      BY <2>2, <3>3
    <3>8. /\ k[i + 3] = <<IF a.digits THEN 0 ELSE 1, a.val>>
          /\ l[i + 3] = <<IF b.digits THEN 0 ELSE 1, b.val>>
      BY <2>3, <2>4, <3>3, <3>6, <3>7
    <3>9. a.digits # b.digits \/ a.val # b.val
      BY <3>3, <3>6, <3>7
    <3>10. \/ compareIdent(a, b) = -1 /\ KeyLess(k[i + 3], l[i + 3])
           \/ compareIdent(a, b) = 1 /\ KeyLess(l[i + 3], k[i + 3])
      <4>1. CASE a.digits = b.digits
        BY <4>1, <3>8, <3>9 DEF compareIdent, Sign, KeyLess
      <4>2. CASE a.digits # b.digits
        BY <4>2, <3>8, <3>9 DEF compareIdent, Sign, KeyLess
      <4> QED
        BY <4>1, <4>2
    <3>11. CASE compareIdent(a, b) = -1 /\ KeyLess(k[i + 3], l[i + 3])
      <4>1. LexLess(k, l)
        BY <3>4, <3>5, <3>11 DEF LexLess
      <4> QED
        BY <4>1, <3>2, <3>6, <3>7, <3>11 DEF Agrees
    <3>12. CASE compareIdent(a, b) = 1 /\ KeyLess(l[i + 3], k[i + 3])
      <4>1. LexLess(l, k)
        BY <3>4, <3>5, <3>12 DEF LexLess
      <4> QED
        BY <4>1, <3>2, <3>6, <3>7, <3>12 DEF Agrees
    <3> QED
      BY <3>10, <3>11, <3>12
  <2>9. ASSUME FirstDiff(v.pre, o.pre) = {} PROVE Agrees(v, o, Compare(v, o))
    <3>1. Compare(v, o) = Sign(m, n)
      BY <1>9, <2>1, <2>2, <2>9 DEF Compare
    <3>2. \A i \in (1..m) \cap (1..n) : v.pre[i] = o.pre[i]
      BY <2>5, <2>9, FirstDiffIs
    <3>3. CASE m < n
      <4>1. \A j \in 1..m : v.pre[j] = o.pre[j]
        BY <3>2, <3>3
      <4>2. \A j \in 1..(m + 3) : k[j] = l[j]
        BY <4>1, <2>7, <3>3
      <4>3. LexLess(k, l)
        BY <4>2, <2>3, <2>4, <3>3, <1>4 DEF LexLess
      <4> QED
        BY <4>3, <3>1, <3>3 DEF Agrees, Sign
    <3>4. CASE n < m
      <4>1. \A j \in 1..n : v.pre[j] = o.pre[j]
        BY <3>2, <3>4
      <4>2. \A j \in 1..(n + 3) : k[j] = l[j]
        BY <4>1, <2>7, <3>4
      <4>3. LexLess(l, k)
        BY <4>2, <2>3, <2>4, <3>4, <1>4 DEF LexLess
      <4> QED
        BY <4>3, <3>1, <3>4 DEF Agrees, Sign
    <3>5. CASE m = n
      <4>1. \A j \in 1..m : v.pre[j] = o.pre[j]
        BY <3>2, <3>5
      <4>2. \A j \in 1..(m + 3) : k[j] = l[j]
        BY <4>1, <2>7, <3>5
      <4>3. Len(k) = Len(l) /\ \A j \in 1..Len(k) : k[j] = l[j]
        BY <2>3, <2>4, <3>5, <4>2
      <4>4. k = l
        BY <1>2, <4>3, SeqEqual DEF Keys
      <4> QED
        BY <4>4, <3>1, <3>5 DEF Agrees, Sign
    <3> QED
      BY <3>3, <3>4, <3>5
  <2> QED
    BY <2>8, <2>9
<1> QED
  BY <1>6, <1>8, <1>9

\* Versions are totally preordered by SemVer's definition, and Compare agrees with it.
LEMMA VersionOrder ==
  ASSUME NEW u, NEW v, NEW w, IsVersion(u), IsVersion(v), IsVersion(w)
  PROVE  /\ ~Precedes(u, u)
         /\ Precedes(u, v) /\ Precedes(v, w) => Precedes(u, w)
         /\ ~Precedes(u, v) /\ ~Precedes(v, w) => ~Precedes(u, w)
         /\ Compare(u, v) \in {-1, 0, 1}
         /\ Compare(u, v) <= 0 <=> ~Precedes(v, u)
         /\ Compare(u, v) < 0 <=> Precedes(u, v)
<1>1. Key(u) \in Keys /\ Key(v) \in Keys /\ Key(w) \in Keys
  BY KeyFacts
<1>2. Agrees(u, v, Compare(u, v))
  BY CompareAgrees
<1>3. ~Precedes(u, u) /\ ~Precedes(v, v)
  BY <1>1, LexIrreflexive, PrecedesIsLex
<1>4. Precedes(u, v) /\ Precedes(v, w) => Precedes(u, w)
  BY <1>1, LexTransitive, PrecedesIsLex
<1>5. ~Precedes(u, v) /\ Precedes(u, w) => Precedes(v, w)
  <2>1. Precedes(u, v) \/ Precedes(v, u) \/ Key(u) = Key(v)
    BY <1>1, LexTotal, PrecedesIsLex
  <2>2. Precedes(v, u) /\ Precedes(u, w) => Precedes(v, w)
    BY <1>1, LexTransitive, PrecedesIsLex
  <2>3. Key(u) = Key(v) => (Precedes(u, w) <=> Precedes(v, w))
    BY PrecedesIsLex
  <2> QED
    BY <2>1, <2>2, <2>3
<1>6. ~(Precedes(u, v) /\ Precedes(v, u))
  BY <1>1, <1>3, LexTransitive, PrecedesIsLex
<1>7. Key(u) = Key(v) => ~Precedes(u, v) /\ ~Precedes(v, u)
  BY <1>3, PrecedesIsLex
<1>8. \/ Compare(u, v) = -1 /\ Precedes(u, v) /\ ~Precedes(v, u)
      \/ Compare(u, v) = 1 /\ Precedes(v, u) /\ ~Precedes(u, v)
      \/ Compare(u, v) = 0 /\ ~Precedes(v, u) /\ ~Precedes(u, v)
  BY <1>2, <1>6, <1>7, PrecedesIsLex DEF Agrees
<1>9. Compare(u, v) \in {-1, 0, 1} /\ (Compare(u, v) <= 0 <=> ~Precedes(v, u)) /\ (Compare(u, v) < 0 <=> Precedes(u, v))
  BY <1>8
<1> QED
  BY <1>3, <1>4, <1>5, <1>9

-----------------------------------------------------------------------------
(* What the policy decides. *)

\* A tag that parses is a version; none is a tag of its own.
LEMMA TagFacts ==
  /\ \A t \in Tag : t.parses => IsVersion(t)
  /\ ~NoTag.parses /\ NoTag \notin Tag
<1>1. ~NoTag.parses
  BY DEF NoTag, Unversioned
<1>2. ASSUME NEW t \in Tag, t.parses PROVE IsVersion(t)
  <2>1. ASSUME t = Unversioned(t.line) PROVE ~t.parses
    <3>1. PICK u : u = Unversioned(t.line)
      OBVIOUS
    <3>2. ~u.parses
      BY <3>1 DEF Unversioned
    <3> QED
      BY <2>1, <3>1, <3>2
  <2> QED
    BY <1>2, <2>1, TagAssumption
<1> QED
  BY <1>1, <1>2, TagAssumption

\* A non-empty set of places has a last one.
LEMMA LastExists ==
  ASSUME NEW n \in Nat, NEW S \in SUBSET (1..n), S # {}
  PROVE  \E i \in S : \A j \in S : j <= i
<1> DEFINE B == {m \in Nat : \A j \in S : j <= m}
<1>1. B \in SUBSET Nat /\ n \in B
  OBVIOUS
<1>2. PICK m \in B : \A k \in B : m <= k
  BY <1>1, Least
<1>3. m \in Nat /\ \A j \in S : j <= m
  BY <1>2
<1>4. CASE m \in S
  BY <1>3, <1>4
<1>5. CASE m \notin S
  <2>1. \A j \in S : j < m /\ j \in Nat
    BY <1>3, <1>5
  <2>0. m \in Nat /\ \A j \in S : j \in 1..n
    BY <1>3
  <2>4. m # 0
    <3>1. PICK j \in S : j \in 1..n /\ j < m
      BY <2>0, <2>1
    <3> QED
      BY <2>0, <3>1
  <2>2. m - 1 \in Nat /\ \A j \in S : j <= m - 1
    BY <2>0, <2>1, <2>4
  <2>3. m - 1 \in B
    BY <2>2
  <2> QED
    BY <1>2, <1>3, <2>3
<1> QED
  BY <1>4, <1>5

\* The candidates are places of s, with versions in them.
LEMMA CandidateFacts ==
  ASSUME NEW p, NEW s \in Seq(Tag)
  PROVE  /\ DOMAIN s = 1..Len(s) /\ Len(s) \in Nat
         /\ \A i \in DOMAIN s : s[i] \in Tag
         /\ Candidates(p, s) \in SUBSET (1..Len(s))
         /\ \A i \in Candidates(p, s) : s[i] \in Tag /\ IsVersion(s[i]) /\ Eligible(p, s[i])
<1>1. DOMAIN s = 1..Len(s) /\ Len(s) \in Nat /\ s \in [1..Len(s) -> Tag]
  BY LenProperties
<1>2. \A i \in Candidates(p, s) : i \in DOMAIN s /\ s[i].parses /\ Eligible(p, s[i])
  BY DEF Candidates
<1>3. \A i \in DOMAIN s : s[i] \in Tag
  BY <1>1
<1>4. Candidates(p, s) \in SUBSET (1..Len(s))
  BY <1>1, <1>2
<1>5. \A i \in Candidates(p, s) : s[i] \in Tag /\ IsVersion(s[i]) /\ Eligible(p, s[i])
  BY <1>2, <1>3, TagFacts
<1> QED
  BY <1>1, <1>3, <1>4, <1>5

\* No version is above itself.
LEMMA NotAbove ==
  ASSUME NEW v, IsVersion(v)
  PROVE  Compare(v, v) <= 0
<1>1. ~Precedes(v, v) /\ (Compare(v, v) <= 0 <=> ~Precedes(v, v))
  BY VersionOrder
<1> QED
  BY <1>1

\* Decide's loop (policy.go:87-95) ends with a candidate that none exceeds.
LEMMA BestIsBest ==
  ASSUME NEW p, NEW s \in Seq(Tag), Candidates(p, s) # {}
  PROVE  /\ Best(p, s) \in Candidates(p, s)
         /\ \A j \in Candidates(p, s) : ~Precedes(s[Best(p, s)], s[j])
<1>1. PICK C : C = Candidates(p, s)
  OBVIOUS
<1>2. C \in SUBSET (1..Len(s)) /\ Len(s) \in Nat /\ \A i \in C : IsVersion(s[i]) /\ i \in Nat /\ 1 <= i /\ i <= Len(s)
  BY <1>1, CandidateFacts
<1> DEFINE Above(i, j) == Compare(s[j], s[i]) <= 0 /\ (j < i => Compare(s[j], s[i]) < 0)
           Top(n, i) == i <= n /\ \A j \in C : j <= n => Above(i, j)
           B == {n \in Nat : (\E i \in C : i <= n) /\ ~\E i \in C : Top(n, i)}
<1>3. ASSUME NEW n \in B, \A k \in B : n <= k PROVE FALSE
  <2>1. n \in Nat /\ (\E i \in C : i <= n) /\ \A i \in C : ~Top(n, i)
    OBVIOUS
  <2>0. n # 0
    BY <1>2, <2>1
  <2>2. n # 0 /\ n - 1 \in Nat /\ n - 1 \notin B
    <3>1. n - 1 \in Nat /\ ~(n <= n - 1)
      BY <2>0, <2>1
    <3> QED
      BY <2>0, <3>1, <1>3
  <2>3. \/ \A i \in C : ~(i <= n - 1)
        \/ \E i \in C : Top(n - 1, i)
    BY <2>2
  <2>4. \A j \in C : j <= n <=> j <= n - 1 \/ j = n
    <3>1. \A j \in C : j \in Nat
      BY <1>2
    <3>2. \A j \in Nat : j <= n <=> j <= n - 1 \/ j = n
      BY <2>1
    <3> QED
      BY <3>1, <3>2
  <2>5. CASE n \notin C
    <3>1. PICK i \in C : Top(n - 1, i)
      BY <2>1, <2>3, <2>4, <2>5
    <3>2. i <= n /\ \A j \in C : j <= n => Above(i, j)
      BY <2>4, <2>5, <3>1
    <3> QED
      BY <2>1, <3>2
  <2>6. CASE n \in C /\ \A i \in C : ~(i <= n - 1)
    <3>1. Above(n, n)
      <4>1. Compare(s[n], s[n]) <= 0 /\ ~(n < n)
        BY <1>2, <2>1, <2>6, NotAbove
      <4> QED
        BY <4>1
    <3>2. n <= n /\ \A j \in C : j <= n => Above(n, j)
      BY <2>1, <2>4, <2>6, <3>1
    <3> QED
      BY <2>1, <2>6, <3>2
  <2>7. ASSUME n \in C, NEW i \in C, Top(n - 1, i) PROVE FALSE
    <3>1. i <= n - 1 /\ i \in Nat /\ \A j \in C : j <= n - 1 => Above(i, j)
      BY <1>2, <2>7
    <3>2. CASE Compare(s[n], s[i]) <= 0
      <4>1. i <= n /\ ~(n < i)
        BY <2>1, <3>1
      <4>2. \A j \in C : j <= n => Above(i, j)
        BY <2>4, <3>1, <3>2, <4>1
      <4> QED
        BY <2>1, <4>1, <4>2
    <3>3. CASE ~(Compare(s[n], s[i]) <= 0)
      <4>1. IsVersion(s[i]) /\ IsVersion(s[n]) /\ Precedes(s[i], s[n])
        BY <1>2, <2>7, <3>3, VersionOrder
      <4>2. ASSUME NEW j \in C, j <= n - 1 PROVE Above(n, j)
        <5>1. IsVersion(s[j]) /\ Compare(s[j], s[i]) <= 0
          BY <1>2, <3>1, <4>2
        <5>2. ~Precedes(s[i], s[j])
          BY <4>1, <5>1, VersionOrder
        <5>3. Precedes(s[j], s[n])
          BY <4>1, <5>1, <5>2, VersionOrder
        <5>4. Compare(s[j], s[n]) \in {-1, 0, 1} /\ Compare(s[j], s[n]) < 0
          BY <4>1, <5>1, <5>3, VersionOrder
        <5> QED
          BY <5>4
      <4>3. Above(n, n)
        <5>1. Compare(s[n], s[n]) <= 0 /\ ~(n < n)
          BY <4>1, <2>1, NotAbove
        <5> QED
          BY <5>1
      <4>4. n <= n /\ \A j \in C : j <= n => Above(n, j)
        BY <2>1, <2>4, <4>2, <4>3
      <4> QED
        BY <2>1, <2>7, <4>4
    <3> QED
      BY <3>2, <3>3
  <2> QED
    BY <2>3, <2>5, <2>6, <2>7
<1>4. B = {}
  <2>1. B \in SUBSET Nat
    OBVIOUS
  <2> QED
    BY <1>3, <2>1, Least
<1>5. PICK i \in C : Top(Len(s), i)
  <2>1. \E i \in C : i <= Len(s)
    BY <1>1, <1>2
  <2> QED
    BY <1>2, <1>4, <2>1
<1>6. \A j \in C : Above(i, j)
  BY <1>2, <1>5
<1>7. Best(p, s) \in C /\ \A j \in C : Compare(s[j], s[Best(p, s)]) <= 0
  BY <1>1, <1>6 DEF Best
<1> QED
  BY <1>1, <1>2, <1>7, VersionOrder

\* A tag is decided on only if it is eligible, of the highest version pushed and above
\* every version in play; none only if no tag is eligible, or one in play is as high as
\* every version pushed.
Decided(p, s, I, t) ==
  /\ t # NoTag =>
       /\ \E i \in DOMAIN s : t = s[i] /\ Eligible(p, t)
       /\ t.parses => /\ \A m \in Marks(p, I) : Precedes(m, t)
                      /\ \A j \in Candidates(p, s) : ~Precedes(t, s[j])
  /\ t = NoTag =>
       \/ \A i \in DOMAIN s : ~Eligible(p, s[i])
       \/ \E m \in Marks(p, I) : \A j \in Candidates(p, s) : ~Precedes(m, s[j])

\* That is what Policy.Decide does (policy.go:59-111).
LEMMA DecideFacts ==
  ASSUME NEW p, NEW s \in Seq(Tag), NEW I \in SUBSET Tag
  PROVE  Decided(p, s, I, Decide(p, s, I))
<1>0. PICK t : t = Decide(p, s, I)
  OBVIOUS
<1> SUFFICES Decided(p, s, I, t)
  BY <1>0
<1> USE <1>0 DEF Decided
<1> DEFINE E == {i \in DOMAIN s : Eligible(p, s[i])}
<1>1. /\ DOMAIN s = 1..Len(s) /\ Len(s) \in Nat
      /\ \A i \in DOMAIN s : s[i] \in Tag /\ s[i] # NoTag
      /\ \A i \in Candidates(p, s) : i \in DOMAIN s /\ s[i] \in Tag /\ IsVersion(s[i]) /\ Eligible(p, s[i])
  BY CandidateFacts, TagFacts
<1>2. \A m \in Marks(p, I) : IsVersion(m)
  BY TagFacts DEF Marks
<1>3. CASE E = {}
  <2>1. t = NoTag
    BY <1>3 DEF Decide
  <2> QED
    BY <1>3, <2>1
<1>4. CASE E # {} /\ Candidates(p, s) = {}
  <2>1. t = s[CHOOSE i \in E : \A j \in E : j <= i]
    BY <1>4 DEF Decide
  <2>2. \E i \in E : \A j \in E : j <= i
    <3>1. E \in SUBSET (1..Len(s))
      BY <1>1
    <3> QED
      BY <1>1, <1>4, <3>1, LastExists
  <2>3. PICK i \in E : t = s[i]
    BY <2>1, <2>2
  <2>4. i \in DOMAIN s /\ Eligible(p, s[i]) /\ i \notin Candidates(p, s)
    BY <1>4
  <2>5. ~s[i].parses
    BY <2>4 DEF Candidates
  <2>6. t # NoTag /\ Eligible(p, t) /\ ~t.parses
    BY <1>1, <2>3, <2>4, <2>5
  <2> QED
    BY <2>3, <2>4, <2>6
<1>5. CASE E # {} /\ Candidates(p, s) # {}
  <2>1. PICK b : b = s[Best(p, s)]
    OBVIOUS
  <2>2. Best(p, s) \in Candidates(p, s) /\ \A j \in Candidates(p, s) : ~Precedes(b, s[j])
    BY <1>5, <2>1, BestIsBest
  <2>3. IsVersion(b) /\ b # NoTag /\ Eligible(p, b) /\ \E i \in DOMAIN s : b = s[i]
    BY <1>1, <2>1, <2>2
  <2>4. t = IF \E m \in Marks(p, I) : Compare(b, m) <= 0 THEN NoTag ELSE b
    BY <1>5, <2>1 DEF Decide
  <2>5. CASE \E m \in Marks(p, I) : Compare(b, m) <= 0
    <3>1. PICK m \in Marks(p, I) : Compare(b, m) <= 0
      BY <2>5
    <3>2. ~Precedes(m, b)
      BY <1>2, <2>3, <3>1, VersionOrder
    <3>3. \A j \in Candidates(p, s) : ~Precedes(m, s[j])
      BY <1>1, <1>2, <2>2, <2>3, <3>1, <3>2, VersionOrder
    <3> QED
      BY <2>4, <2>5, <3>3
  <2>6. CASE ~\E m \in Marks(p, I) : Compare(b, m) <= 0
    <3>1. \A m \in Marks(p, I) : Precedes(m, b)
      BY <1>2, <2>3, <2>6, VersionOrder
    <3> QED
      BY <2>2, <2>3, <2>4, <2>6, <3>1
  <2> QED
    BY <2>5, <2>6
<1> QED
  BY <1>3, <1>4, <1>5

-----------------------------------------------------------------------------
(* The inductive invariant. *)

\* The rows are in the order of their ids: while one waits or is worked on, the later
\* ones of its app wait or are cancelled.
RowsInOrder ==
  /\ apps = App /\ OneActivePerApp
  /\ \A d \in Dep : IF d < next THEN owner[d] \in App /\ status[d] # "absent"
                    ELSE owner[d] = NoApp /\ status[d] = "absent"
  /\ \A d, e \in Dep :
       /\ d < e /\ owner[d] = owner[e] /\ e < next
       /\ status[d] \in {"queued", "building", "deploying"}
       => status[e] \in {"queued", "cancelled"}

\* Where a pipeline may be, by its row.
PlaceFits ==
  \A d \in Dep :
    /\ status[d] \in {"absent", "queued"} => place[d] = "none"
    /\ status[d] = "deploying" <=> place[d] = "ship"
    /\ place[d] \in {"load", "prepare", "build"} => status[d] \in {"building", "cancelled"}
    /\ place[d] = "retire" => status[d] \in {"running", "superseded"}

RunningRows(a) == {d \in Rows(a) : status[d] = "running"}

\* What a handler holds has been pushed.
HookOK(a) == \A i \in DOMAIN hook[a].pushed : hook[a].pushed[i] \in remote[a]

\* Of two tag events in flight the later is newer.
QueueOK(a) ==
  \A d, e \in InFlight(a) :
    d < e /\ event[d] /\ event[e] => (Comparable(tag[d], tag[e]) => Newer(tag[e], tag[d]))

\* Before a pipeline retires the others, its row or a later one is live.
RetireOK(a) ==
  ~late[a] => \A d \in Rows(a) : place[d] = "retire" => \E z \in RunningRows(a) : d <= z

\* An attempt whose tag has been settled, and which may still go live.
AtWork(d) == IsActive(status[d]) /\ place[d] \in {"build", "ship"}

\* A tag event that has been looked at again is still newer than what is live.
RegressOK(a) ==
  ~late[a] => \A d \in Rows(a), e \in LiveDeployment(a) :
                event[d] /\ AtWork(d) /\ Comparable(tag[d], tag[e]) => Newer(tag[d], tag[e])

\* A version of the repository that the policy takes.
Good(a, t) == t \in remote[a] /\ t.parses /\ Eligible(policy[a], t)

\* The settings are the ones the app began with, whoever has read them.
SettingsCalm(a) ==
  /\ mode[a] = "tag"
  /\ hook[a] # NoHook => hook[a].policy = policy[a]
  /\ heard[a] # NoTag => Good(a, heard[a])

\* Every attempt has a good tag, or is a click whose tag has not been settled.
RowCalm(a, d) ==
  /\ tag[d] # NoTag => Good(a, tag[d])
  /\ event[d] \/ AtWork(d) \/ status[d] \in {"running", "superseded"} => tag[d] # NoTag
  /\ ~event[d] /\ (status[d] = "queued" \/ place[d] \in {"load", "prepare"}) =>
        tag[d] = NoTag /\ ~built[d]
  /\ place[d] = "prepare" => loaded[d] = [mode |-> "tag", policy |-> policy[a]]

\* No attempt that may go live is older than what is live.
Ahead(a, d) == AtWork(d) => \A e \in LiveDeployment(a) : ~Precedes(tag[d], tag[e])

\* The newest eligible version an event brought is live or on its way, or a newer one is.
HeardOK(a) ==
  heard[a] # NoTag =>
    \E e \in LiveDeployment(a) \cup InFlight(a) : tag[e] # NoTag /\ ~Precedes(tag[e], heard[a])

\* What holds of an app while nothing but tag events and clicks has a hand in it.
Calm(a) ==
  /\ SettingsCalm(a)
  /\ \A d \in Rows(a) : RowCalm(a, d)
  /\ ~late[a] => HeardOK(a) /\ \A d \in Rows(a) : Ahead(a, d)

\* What holds of each app.
AppOK(a) ==
  /\ HookOK(a) /\ QueueOK(a) /\ RetireOK(a) /\ RegressOK(a)
  /\ ~excused[a] => Calm(a)

\* The inductive invariant.  That no release is dropped needs to know what each attempt
\* in flight will build, and that what goes live never steps back.
TagIInv == TagTypeOK /\ RowsInOrder /\ PlaceFits /\ \A a \in App : AppOK(a)

USE AppAssumption, MaxDepAssumption

-----------------------------------------------------------------------------
(* The rows, their types and the pipelines' places. *)

\* The statuses, as the deployments module knows them, are the ones named here.
LEMMA StatusFacts ==
  /\ \A s : IsActive(s) <=> s \in {"building", "deploying"}
  /\ \A s : CanCancel(s) <=> s \in {"queued", "building"}
  /\ \A s \in Status : transitions[s] =
       CASE s = "queued" -> {"building", "cancelled"}
         [] s = "building" -> {"deploying", "failed", "cancelled"}
         [] s = "deploying" -> {"running", "failed"}
         [] s = "running" -> {"superseded"}
         [] OTHER -> {}
BY DEF IsActive, CanCancel, transitions, Status

\* What the tag deploys do to the rows: all that the table allows but deletes.
RowMove ==
  \/ \E a \in App : Enqueue(a)
  \/ \E d \in Dep : Claim(d) \/ Retire(d) \/ \E to \in Status : Move(d, to)
  \/ Recover
  \/ UNCHANGED rows

\* A guarded write changes the row as asked, or nothing.
LEMMA SetStatusFacts ==
  ASSUME NEW d \in Dep, NEW from, NEW to, SetStatus(d, from, to)
  PROVE  /\ next' = next /\ apps' = apps /\ owner' = owner
         /\ status[d] = from => status' = [status EXCEPT ![d] = to]
         /\ status[d] # from => status' = status
BY DEF SetStatus, Move, rows

\* The three ways an event reaches its handler are one.
LEMMA Heard ==
  /\ \A A \in SUBSET App, s \in Pushes :
       handleGithubWebhook(A, s) => Hear(A, s) /\ \A a \in A : mode[a] = "tag"
  /\ \A a \in App, s \in Pushes :
       handleAppWebhook(a, s) \/ serve(a, s) => Hear({a}, s) /\ \A b \in {a} : mode[b] = "tag"
BY DEF handleGithubWebhook, handleAppWebhook, serve

\* Each step does to the rows what the table allows.
LEMMA RowSteps ==
  ASSUME TypeOK, [TagNext]_tagVars
  PROVE  RowMove
<1> USE DEF rows
<1>1. ASSUME NEW a \in App, (\E t \in Tag : PushTag(a, t)) \/ (\E m \in {"branch", "tag"}, p \in Policy : UpdateAppSettings(a, m, p))
      PROVE  RowMove
  BY <1>1 DEF PushTag, UpdateAppSettings, RowMove
<1>2. ASSUME NEW A \in SUBSET App, NEW s \in Pushes, Hear(A, s) PROVE RowMove
  BY <1>2 DEF Hear, RowMove
<1>3. ASSUME NEW a \in App, serveTagPush(a) \/ CreateDeployment(a) PROVE RowMove
  BY <1>3 DEF serveTagPush, EnqueueTagDeployment, CreateDeployment, Record, RowMove
<1>4. ASSUME NEW d \in Dep, CreateRollback(d) PROVE RowMove
  <2>1. Enqueue(owner[d])
    BY <1>4 DEF CreateRollback, Record
  <2>2. owner[d] \in App
    BY <2>1 DEF Enqueue, TypeOK
  <2> QED
    BY <2>1, <2>2 DEF RowMove
<1>5. ASSUME NEW d \in Dep, NEW from, NEW to \in Status, SetStatus(d, from, to) PROVE RowMove
  BY <1>5 DEF SetStatus, RowMove
<1>6. ASSUME NEW d \in Dep, Cancel(d) \/ Start(d) PROVE RowMove
  BY <1>6 DEF Cancel, Start, RowMove, Status
<1>7. ASSUME NEW d \in Dep, Pipeline(d) PROVE RowMove
  <2>1. CASE Load(d) \/ PrepareClick(d) \/ PrepareOther(d)
    BY <2>1 DEF Load, PrepareClick, PrepareOther, RowMove
  <2>2. CASE PrepareEvent(d) \/ Build(d) \/ Fail(d) \/ Ship(d)
    BY <2>2, <1>5 DEF PrepareEvent, Build, Fail, Ship, RowMove, Status
  <2>3. CASE SupersedeOthers(d)
    BY <2>3 DEF SupersedeOthers, RowMove
  <2> QED
    BY <1>7, <2>1, <2>2, <2>3 DEF Pipeline
<1>8. CASE Restart \/ UNCHANGED tagVars
  BY <1>8 DEF Restart, tagVars, RowMove
<1> QED
  BY <1>1, <1>2, <1>3, <1>4, <1>6, <1>7, <1>8, Heard DEF TagNext

\* The rows keep their order.
LEMMA RowsStep ==
  ASSUME TypeOK, RowsInOrder, RowMove
  PROVE  TypeOK' /\ RowsInOrder'
<1> USE StatusFacts DEF TypeOK, Dep
<1> DEFINE Waits(s) == s \in {"queued", "building", "deploying"}
<1>0. /\ \A d \in Dep : status[d] \in Status \cup {"absent"}
      /\ \A d, e \in Dep : owner[d] = owner[e] /\ IsActive(status[d]) /\ IsActive(status[e]) => d = e
      /\ next \in Nat
  BY DEF RowsInOrder, OneActivePerApp
<1>1. ASSUME NEW a \in App, Enqueue(a) PROVE TypeOK' /\ RowsInOrder'
  <2>1. /\ a \in apps /\ next \in Dep /\ next' = next + 1 /\ apps' = apps
        /\ owner' = [owner EXCEPT ![next] = a] /\ status' = [status EXCEPT ![next] = "queued"]
    BY <1>1 DEF Enqueue
  <2>2. TypeOK'
    BY <2>1 DEF Status
  <2>3. \A d \in Dep : d # next => owner'[d] = owner[d] /\ status'[d] = status[d]
    BY <2>1
  <2>4. owner'[next] = a /\ status'[next] = "queued"
    BY <2>1
  <2>5. OneActivePerApp'
    <3> SUFFICES ASSUME NEW d \in Dep, NEW e \in Dep, owner'[d] = owner'[e],
                        IsActive(status'[d]), IsActive(status'[e])
                 PROVE d = e
      BY DEF OneActivePerApp
    <3>1. d # next /\ e # next
      BY <2>4
    <3> QED
      BY <1>0, <2>3, <3>1
  <2>6. \A d \in Dep : IF d < next' THEN owner'[d] \in App /\ status'[d] # "absent"
                       ELSE owner'[d] = NoApp /\ status'[d] = "absent"
    BY <2>1, <2>3, <2>4 DEF RowsInOrder
  <2>7. ASSUME NEW d \in Dep, NEW e \in Dep, d < e, owner'[d] = owner'[e], e < next', Waits(status'[d])
        PROVE  status'[e] \in {"queued", "cancelled"}
    <3>1. CASE e = next
      BY <2>4, <3>1
    <3>2. CASE e # next
      <4>1. e < next /\ d # next /\ d < next
        BY <1>0, <2>1, <2>7, <3>2
      <4> QED
        BY <2>3, <2>7, <3>2, <4>1 DEF RowsInOrder
    <3> QED
      BY <3>1, <3>2
  <2>8. RowsInOrder'
    BY <2>1, <2>5, <2>6, <2>7 DEF RowsInOrder
  <2> QED
    BY <2>2, <2>8
<1>2. ASSUME NEW d \in Dep, Claim(d) PROVE TypeOK' /\ RowsInOrder'
  <2>1. /\ status[d] = "queued" /\ owner' = owner /\ next' = next /\ apps' = apps
        /\ status' = [status EXCEPT ![d] = "building"]
    BY <1>2 DEF Claim
  <2>2. TypeOK'
    BY <2>1 DEF Status
  <2>3. \A e \in Rows(owner[d]) : ~IsActive(status[e]) /\ (status[e] = "queued" => d <= e)
    BY <1>2 DEF Claim
  <2>4. OneActivePerApp'
    BY <1>0, <2>1, <2>3 DEF OneActivePerApp, Rows
  <2>5. ASSUME NEW e \in Dep, NEW f \in Dep, e < f, owner[e] = owner[f], f < next, Waits(status'[e])
        PROVE  status'[f] \in {"queued", "cancelled"}
    <3>1. Waits(status[e])
      BY <2>1, <2>5
    <3>2. status[f] \in {"queued", "cancelled"}
      BY <2>5, <3>1 DEF RowsInOrder
    <3>3. f # d
      BY <2>3, <2>5, <3>1 DEF Rows
    <3> QED
      BY <2>1, <3>2, <3>3
  <2>6. RowsInOrder'
    BY <2>1, <2>4, <2>5 DEF RowsInOrder
  <2> QED
    BY <2>2, <2>6
<1>3. ASSUME NEW d \in Dep, NEW to \in Status, Move(d, to) PROVE TypeOK' /\ RowsInOrder'
  <2>1. /\ status[d] \in Status /\ to \in transitions[status[d]] /\ to # "building" /\ to # "superseded"
        /\ owner' = owner /\ next' = next /\ apps' = apps
        /\ status' = [status EXCEPT ![d] = to]
    BY <1>3 DEF Move
  <2>2. TypeOK'
    BY <2>1
  <2>3. /\ IsActive(to) => IsActive(status[d])
        /\ Waits(status[d]) /\ (status[d] = "queued" => to = "cancelled")
        /\ Waits(to) => Waits(status[d])
        /\ to # "absent"
    BY <2>1 DEF Status
  <2>4. OneActivePerApp'
    BY <1>0, <2>1, <2>3 DEF OneActivePerApp
  <2>5. ASSUME NEW e \in Dep, NEW f \in Dep, e < f, owner[e] = owner[f], f < next, Waits(status'[e])
        PROVE  status'[f] \in {"queued", "cancelled"}
    <3>1. Waits(status[e])
      BY <2>1, <2>3, <2>5
    <3>2. status[f] \in {"queued", "cancelled"}
      BY <2>5, <3>1 DEF RowsInOrder
    <3> QED
      BY <2>1, <2>3, <3>2
  <2>6. RowsInOrder'
    BY <2>1, <2>3, <2>4, <2>5 DEF RowsInOrder, Status
  <2> QED
    BY <2>2, <2>6
<1>4. ASSUME NEW d \in Dep, Retire(d) PROVE TypeOK' /\ RowsInOrder'
  <2>1. /\ owner' = owner /\ next' = next /\ apps' = apps
        /\ status' = [e \in Dep |-> IF e \in Rows(owner[d]) \ {d} /\ status[e] = "running"
                                    THEN "superseded" ELSE status[e]]
    BY <1>4 DEF Retire
  <2>2. \A e \in Dep : status'[e] = status[e] \/ (status[e] = "running" /\ status'[e] = "superseded")
    BY <2>1
  <2>3. TypeOK'
    BY <2>1 DEF Status
  <2>4. RowsInOrder'
    BY <2>1, <2>2 DEF RowsInOrder, OneActivePerApp
  <2> QED
    BY <2>3, <2>4
<1>5. CASE Recover
  <2>1. /\ owner' = owner /\ next' = next /\ apps' = apps
        /\ status' = [d \in Dep |-> IF IsActive(status[d]) THEN "failed" ELSE status[d]]
    BY <1>5 DEF Recover
  <2>2. \A e \in Dep : status'[e] = status[e] \/ (IsActive(status[e]) /\ status'[e] = "failed")
    BY <2>1
  <2>3. TypeOK'
    BY <2>1 DEF Status
  <2>4. RowsInOrder'
    BY <2>1, <2>2 DEF RowsInOrder, OneActivePerApp
  <2> QED
    BY <2>3, <2>4
<1>6. CASE UNCHANGED rows
  <2>1. owner' = owner /\ next' = next /\ apps' = apps /\ status' = status
    BY <1>6 DEF rows
  <2> QED
    BY <2>1 DEF RowsInOrder, OneActivePerApp
<1> QED
  BY <1>1, <1>2, <1>3, <1>4, <1>5, <1>6 DEF RowMove

\* A pipeline works on a row of an app.
LEMMA WorkedOn ==
  ASSUME RowsInOrder, PlaceFits, NEW d \in Dep, place[d] # "none"
  PROVE  d < next /\ owner[d] \in App /\ d \in Rows(owner[d])
<1>1. status[d] # "absent"
  BY DEF PlaceFits
<1> QED
  BY <1>1 DEF RowsInOrder, Rows

\* The row a step inserts, and all others as they are.
Recorded(a, t, ev, im) ==
  /\ a \in apps /\ next \in Dep /\ next' = next + 1 /\ apps' = apps
  /\ owner'[next] = a /\ status'[next] = "queued"
  /\ tag'[next] = t /\ event'[next] = ev /\ built'[next] = im
  /\ \A d \in Dep : d # next =>
       /\ owner'[d] = owner[d] /\ status'[d] = status[d]
       /\ tag'[d] = tag[d] /\ event'[d] = event[d] /\ built'[d] = built[d]
  /\ tag' \in [Dep -> Tag \cup {NoTag}] /\ event' \in [Dep -> BOOLEAN] /\ built' \in [Dep -> BOOLEAN]

\* That is what an insert does.
LEMMA RecordFacts ==
  ASSUME TagTypeOK, NEW a, NEW t \in Tag \cup {NoTag}, NEW ev \in BOOLEAN, NEW im \in BOOLEAN,
         Record(a, t, ev, im)
  PROVE  Recorded(a, t, ev, im)
BY DEF Record, Enqueue, TagTypeOK, TypeOK, Recorded

\* The tags in play are tags.
LEMMA InPlayTags ==
  ASSUME TagTypeOK, NEW a
  PROVE  InPlay(a) \in SUBSET Tag
BY DEF InPlay, LiveDeployment, InFlight, Rows, TagTypeOK

\* A hook holds a sequence of tags and a policy.
LEMMA HookFacts ==
  ASSUME TagTypeOK, NEW a \in App, hook[a] # NoHook
  PROVE  /\ hook[a].pushed \in Pushes /\ hook[a].pushed \in Seq(Tag) /\ hook[a].policy \in Policy
         /\ Carried(hook[a].pushed) \subseteq Tag
         /\ \A i \in DOMAIN hook[a].pushed : hook[a].pushed[i] \in Tag
<1>1. hook[a] \in [pushed : Pushes, policy : Policy]
  BY DEF TagTypeOK
<1>2. hook[a].pushed \in Pushes /\ hook[a].pushed \in Seq(Tag) /\ hook[a].policy \in Policy
  BY <1>1, TagAssumption
<1>3. \A i \in DOMAIN hook[a].pushed : hook[a].pushed[i] \in Tag
  BY <1>2, CandidateFacts
<1> QED
  BY <1>2, <1>3 DEF Carried

\* A tag event deploys one of the tags it brought, if any.
LEMMA DecidedTag ==
  ASSUME TagTypeOK, NEW a \in App, serveTagPush(a)
  PROVE  Decide(hook[a].policy, hook[a].pushed, InPlay(a)) \in Tag \cup {NoTag}
<1>1. hook[a] # NoHook
  BY DEF serveTagPush
<1>2. hook[a].pushed \in Seq(Tag) /\ \A i \in DOMAIN hook[a].pushed : hook[a].pushed[i] \in Tag
  BY <1>1, HookFacts
<1>5. PICK I \in SUBSET Tag : I = InPlay(a)
  BY InPlayTags
<1>6. PICK s \in Seq(Tag) : s = hook[a].pushed
  BY <1>2
<1>7. PICK p : p = hook[a].policy
  OBVIOUS
<1>3. PICK t : t = Decide(p, s, I)
  OBVIOUS
<1>4. t # NoTag => \E i \in DOMAIN s : t = s[i]
  <2>1. t # NoTag => \E i \in DOMAIN s : t = s[i] /\ Eligible(p, t)
    BY <1>3, DecideFacts DEF Decided
  <2> QED
    BY <2>1
<1> QED
  BY <1>2, <1>3, <1>4, <1>5, <1>6, <1>7

\* Every variable keeps its type.
LEMMA TypeStep ==
  ASSUME TagTypeOK, RowsInOrder, PlaceFits, TypeOK', [TagNext]_tagVars
  PROVE  TagTypeOK'
<1> USE DEF settings, notes
<1> DEFINE Place == {"none", "load", "prepare", "build", "ship", "retire"}
           Settings == [mode : {"branch", "tag"}, policy : Policy] \cup {Unloaded}
<1>0. TagTypeOK
  OBVIOUS
<1>00. \A d \in Dep : place[d] # "none" => owner[d] \in App
  BY WorkedOn
<1>1. ASSUME NEW a \in App, NEW t \in Tag, PushTag(a, t) PROVE TagTypeOK'
  BY <1>1, <1>0 DEF PushTag, TagTypeOK
<1>2. ASSUME NEW A \in SUBSET App, NEW s \in Pushes, Hear(A, s) PROVE TagTypeOK'
  <2>1. hook' = [a \in App |-> IF a \in A THEN [pushed |-> s, policy |-> policy[a]] ELSE hook[a]]
    BY <1>2 DEF Hear
  <2>2. hook' \in [App -> [pushed : Pushes, policy : Policy] \cup {NoHook}]
    BY <2>1, <1>0 DEF TagTypeOK
  <2> QED
    BY <1>2, <1>0, <2>2 DEF Hear, TagTypeOK
<1>3. ASSUME NEW a \in App, serveTagPush(a) PROVE TagTypeOK'
  <2>1. PICK t \in Tag \cup {NoTag} : t = Decide(hook[a].policy, hook[a].pushed, InPlay(a))
    BY <1>3, DecidedTag
  <2>2. /\ tag' \in [Dep -> Tag \cup {NoTag}] /\ event' \in [Dep -> BOOLEAN] /\ built' \in [Dep -> BOOLEAN]
        /\ excused' \in [App -> BOOLEAN]
    <3>1. CASE t # NoTag
      <4>1. Record(a, t, TRUE, FALSE) /\ excused' = [excused EXCEPT ![a] = @ \/ ~t.parses]
        BY <1>3, <2>1, <3>1 DEF serveTagPush, EnqueueTagDeployment
      <4>2. excused' \in [App -> BOOLEAN]
        BY <4>1, <1>0 DEF TagTypeOK
      <4> QED
        BY <4>1, <4>2, RecordFacts DEF Recorded
    <3>2. CASE t = NoTag
      BY <1>3, <2>1, <3>2, <1>0 DEF serveTagPush, EnqueueTagDeployment, TagTypeOK
    <3> QED
      BY <3>1, <3>2
  <2>3. hook' \in [App -> [pushed : Pushes, policy : Policy] \cup {NoHook}]
    BY <1>3, <1>0 DEF serveTagPush, TagTypeOK
  <2>4. heard' \in [App -> Tag \cup {NoTag}]
    <3>1. Newest(hook[a].policy, Carried(hook[a].pushed) \cup ({heard[a]} \ {NoTag})) \subseteq Tag
      <4>1. Carried(hook[a].pushed) \subseteq Tag
        BY <1>3, HookFacts DEF serveTagPush
      <4> QED
        BY <4>1, <1>0 DEF Newest, TagTypeOK
    <3> QED
      BY <1>3, <3>1, <1>0 DEF serveTagPush, TagTypeOK
  <2> QED
    BY <1>3, <1>0, <2>2, <2>3, <2>4 DEF serveTagPush, TagTypeOK
<1>4. ASSUME NEW a \in App, CreateDeployment(a) PROVE TagTypeOK'
  <2>1. Record(a, NoTag, FALSE, FALSE)
    BY <1>4 DEF CreateDeployment
  <2>2. tag' \in [Dep -> Tag \cup {NoTag}] /\ event' \in [Dep -> BOOLEAN] /\ built' \in [Dep -> BOOLEAN]
    BY <2>1, RecordFacts DEF Recorded
  <2> QED
    BY <1>4, <1>0, <2>2 DEF CreateDeployment, TagTypeOK
<1>5. ASSUME NEW d \in Dep, CreateRollback(d) PROVE TagTypeOK'
  <2>1. Record(owner[d], tag[d], FALSE, TRUE) /\ tag[d] \in Tag \cup {NoTag}
    BY <1>5, <1>0 DEF CreateRollback, TagTypeOK
  <2>2. tag' \in [Dep -> Tag \cup {NoTag}] /\ event' \in [Dep -> BOOLEAN] /\ built' \in [Dep -> BOOLEAN]
    BY <2>1, RecordFacts DEF Recorded
  <2> QED
    BY <1>5, <1>0, <2>2 DEF CreateRollback, TagTypeOK
<1>6. ASSUME NEW a \in App, NEW m \in {"branch", "tag"}, NEW p \in Policy, UpdateAppSettings(a, m, p) PROVE TagTypeOK'
  BY <1>6, <1>0 DEF UpdateAppSettings, TagTypeOK
<1>7. ASSUME NEW d \in Dep, Cancel(d) PROVE TagTypeOK'
  BY <1>7, <1>0 DEF Cancel, TagTypeOK
<1>8. ASSUME NEW d \in Dep, NEW p \in Place, Goto(d, p) PROVE place' \in [Dep -> Place]
  BY <1>8, <1>0 DEF Goto, TagTypeOK
<1>9. ASSUME NEW d \in Dep, NEW p \in Place, Prepared(d, p) PROVE place' \in [Dep -> Place] /\ loaded' \in [Dep -> Settings]
  <2>1. loaded' = [loaded EXCEPT ![d] = Unloaded] /\ Goto(d, p)
    BY <1>9 DEF Prepared
  <2>2. loaded' \in [Dep -> Settings]
    BY <2>1, <1>0 DEF TagTypeOK
  <2> QED
    BY <2>1, <2>2, <1>8
<1>10. ASSUME NEW d \in Dep, Start(d) PROVE TagTypeOK'
  <2>1. place' \in [Dep -> Place]
    BY <1>10, <1>8 DEF Start
  <2> QED
    BY <1>10, <1>0, <2>1 DEF Start, TagTypeOK
<1>11. ASSUME NEW d \in Dep, Load(d) PROVE TagTypeOK'
  <2>1. place' \in [Dep -> Place]
    BY <1>11, <1>8 DEF Load
  <2>2. loaded' \in [Dep -> Settings]
    <3>1. loaded' = [loaded EXCEPT ![d] = [mode |-> mode[owner[d]], policy |-> policy[owner[d]]]]
      BY <1>11 DEF Load
    <3>2. owner[d] \in App
      BY <1>00, <1>11 DEF Load
    <3> QED
      BY <3>1, <3>2, <1>0 DEF TagTypeOK
  <2> QED
    BY <1>11, <1>0, <2>1, <2>2 DEF Load, TagTypeOK
<1>12. ASSUME NEW d \in Dep, PrepareEvent(d) PROVE TagTypeOK'
  <2>1. place' \in [Dep -> Place] /\ loaded' \in [Dep -> Settings]
    BY <1>12, <1>9 DEF PrepareEvent
  <2> QED
    BY <1>12, <1>0, <2>1 DEF PrepareEvent, TagTypeOK
<1>13. ASSUME NEW d \in Dep, PrepareClick(d) PROVE TagTypeOK'
  <2>1. place' \in [Dep -> Place] /\ loaded' \in [Dep -> Settings]
    BY <1>13, <1>9 DEF PrepareClick
  <2>2. tag' \in [Dep -> Tag \cup {NoTag}]
    <3>1. PICK t \in ClickTags(d) : tag' = [tag EXCEPT ![d] = t]
      BY <1>13 DEF PrepareClick
    <3>2. t \in Tag \cup {NoTag}
      <4>1. t \in remote[owner[d]] \/ \E e \in Dep : t = tag[e]
        BY <3>1 DEF ClickTags, Newest, LiveDeployment, Rows
      <4>2. owner[d] \in App
        BY <1>00, <1>13 DEF PrepareClick
      <4> QED
        BY <4>1, <4>2, <1>0 DEF TagTypeOK
    <3> QED
      BY <3>1, <3>2, <1>0 DEF TagTypeOK
  <2> QED
    BY <1>13, <1>0, <2>1, <2>2 DEF PrepareClick, TagTypeOK
<1>14. ASSUME NEW d \in Dep, PrepareOther(d) PROVE TagTypeOK'
  <2>1. place' \in [Dep -> Place] /\ loaded' \in [Dep -> Settings]
    BY <1>14, <1>9 DEF PrepareOther
  <2> QED
    BY <1>14, <1>0, <2>1 DEF PrepareOther, TagTypeOK
<1>15. ASSUME NEW d \in Dep, Build(d) PROVE TagTypeOK'
  <2>1. place' \in [Dep -> Place]
    BY <1>15, <1>8 DEF Build
  <2> QED
    BY <1>15, <1>0, <2>1 DEF Build, TagTypeOK
<1>16. ASSUME NEW d \in Dep, Fail(d) PROVE TagTypeOK'
  <2>1. place' \in [Dep -> Place] /\ loaded' \in [Dep -> Settings]
    BY <1>16, <1>9 DEF Fail
  <2> QED
    BY <1>16, <1>0, <2>1 DEF Fail, TagTypeOK
<1>17. ASSUME NEW d \in Dep, Ship(d) PROVE TagTypeOK'
  <2>1. place' \in [Dep -> Place]
    BY <1>17, <1>8 DEF Ship
  <2> QED
    BY <1>17, <1>0, <2>1 DEF Ship, TagTypeOK
<1>18. ASSUME NEW d \in Dep, SupersedeOthers(d) PROVE TagTypeOK'
  <2>1. place' \in [Dep -> Place]
    BY <1>18, <1>8 DEF SupersedeOthers
  <2>2. late' \in [App -> BOOLEAN]
    BY <1>18, <1>0 DEF SupersedeOthers, TagTypeOK
  <2> QED
    BY <1>18, <1>0, <2>1, <2>2 DEF SupersedeOthers, TagTypeOK
<1>19. CASE Restart
  <2>1. excused' \in [App -> BOOLEAN]
    BY <1>19, <1>0 DEF Restart, TagTypeOK
  <2>2. place' \in [Dep -> Place] /\ loaded' \in [Dep -> Settings] /\ hook' \in [App -> [pushed : Pushes, policy : Policy] \cup {NoHook}]
    BY <1>19 DEF Restart
  <2> QED
    BY <1>19, <1>0, <2>1, <2>2 DEF Restart, TagTypeOK
<1>20. CASE UNCHANGED tagVars
  BY <1>20, <1>0 DEF tagVars, TagTypeOK
<1> QED
  BY <1>1, <1>2, <1>3, <1>4, <1>5, <1>6, <1>7, <1>10, <1>11, <1>12, <1>13, <1>14, <1>15, <1>16,
     <1>17, <1>18, <1>19, <1>20, Heard DEF TagNext, Pipeline

\* A step that moves neither a pipeline nor its row leaves the places as they fit.
LEMMA PlacesUnmoved ==
  ASSUME PlaceFits, UNCHANGED place, \A d \in Dep : status'[d] = status[d] \/ (status[d] = "absent" /\ status'[d] = "queued")
  PROVE  PlaceFits'
BY DEF PlaceFits

\* The pipelines are where their rows say.
LEMMA PlacesStep ==
  ASSUME TagTypeOK, RowsInOrder, PlaceFits, [TagNext]_tagVars
  PROVE  PlaceFits'
<1> USE StatusFacts
<1>0. /\ place \in [Dep -> {"none", "load", "prepare", "build", "ship", "retire"}]
      /\ status \in [Dep -> Status \cup {"absent"}] /\ next \in Nat
      /\ \A d \in Dep : d = next => status[d] = "absent"
  BY DEF TagTypeOK, TypeOK, RowsInOrder, Dep
<1>1. ASSUME NEW a \in App, (\E t \in Tag : PushTag(a, t)) \/ (\E m \in {"branch", "tag"}, p \in Policy : UpdateAppSettings(a, m, p))
      PROVE  PlaceFits'
  BY <1>1, PlacesUnmoved DEF PushTag, UpdateAppSettings, rows
<1>2. ASSUME NEW A \in SUBSET App, NEW s \in Pushes, Hear(A, s) PROVE PlaceFits'
  BY <1>2, PlacesUnmoved DEF Hear, rows
<1>3. ASSUME NEW a, NEW t \in Tag \cup {NoTag}, NEW ev \in BOOLEAN, NEW im \in BOOLEAN, Record(a, t, ev, im), UNCHANGED place
      PROVE  PlaceFits'
  <2>0. next \in Dep /\ status'[next] = "queued" /\ \A d \in Dep : d # next => status'[d] = status[d]
    <3>1. Recorded(a, t, ev, im)
      BY <1>3, RecordFacts
    <3> QED
      BY <3>1 DEF Recorded
  <2>1. \A d \in Dep : status'[d] = status[d] \/ (status[d] = "absent" /\ status'[d] = "queued")
    BY <1>0, <2>0
  <2> QED
    BY <1>3, <2>1, PlacesUnmoved
<1>4. ASSUME NEW a \in App, serveTagPush(a) PROVE PlaceFits'
  <2>1. PICK t \in Tag \cup {NoTag} : t = Decide(hook[a].policy, hook[a].pushed, InPlay(a))
    BY <1>4, DecidedTag
  <2>2. UNCHANGED place /\ (UNCHANGED rows \/ Record(a, t, TRUE, FALSE))
    BY <1>4, <2>1 DEF serveTagPush, EnqueueTagDeployment
  <2> QED
    BY <2>2, <1>3, PlacesUnmoved DEF rows
<1>5. ASSUME NEW a \in App, CreateDeployment(a) PROVE PlaceFits'
  BY <1>3, <1>5 DEF CreateDeployment
<1>6. ASSUME NEW d \in Dep, CreateRollback(d) PROVE PlaceFits'
  <2>1. tag[d] \in Tag \cup {NoTag}
    BY DEF TagTypeOK
  <2> QED
    BY <1>3, <1>6, <2>1 DEF CreateRollback
<1>7. ASSUME NEW d \in Dep, Cancel(d) PROVE PlaceFits'
  <2>1. UNCHANGED place /\ status[d] \in {"queued", "building"} /\ status' = [status EXCEPT ![d] = "cancelled"]
    BY <1>7 DEF Cancel, Move
  <2> QED
    BY <1>0, <2>1 DEF PlaceFits
<1>8. ASSUME NEW d \in Dep, Start(d) PROVE PlaceFits'
  <2>1. place' = [place EXCEPT ![d] = "load"] /\ status[d] = "queued" /\ status' = [status EXCEPT ![d] = "building"]
    BY <1>8 DEF Start, Goto, Claim
  <2> QED
    BY <1>0, <2>1 DEF PlaceFits
<1>9. ASSUME NEW d \in Dep, Load(d) PROVE PlaceFits'
  <2>1. place' = [place EXCEPT ![d] = "prepare"] /\ place[d] = "load" /\ status' = status
    BY <1>9 DEF Load, Goto, rows
  <2> QED
    BY <1>0, <2>1 DEF PlaceFits
<1>10. ASSUME NEW d \in Dep, PrepareEvent(d) PROVE PlaceFits'
  <2>1. CASE StillNewer(d)
    <3>1. place' = [place EXCEPT ![d] = "build"] /\ place[d] = "prepare" /\ status' = status
      BY <1>10, <2>1 DEF PrepareEvent, Prepared, Goto, rows
    <3> QED
      BY <1>0, <3>1 DEF PlaceFits
  <2>2. CASE ~StillNewer(d)
    <3>1. place' = [place EXCEPT ![d] = "none"] /\ place[d] = "prepare" /\ SetStatus(d, "building", "cancelled")
      BY <1>10, <2>2 DEF PrepareEvent, Prepared, Goto
    <3>2. status[d] \in {"building", "cancelled"}
      BY <3>1 DEF PlaceFits
    <3>3. status'[d] = "cancelled" /\ \A e \in Dep : e # d => status'[e] = status[e]
      BY <1>0, <3>1, <3>2, SetStatusFacts
    <3> QED
      BY <1>0, <3>1, <3>3 DEF PlaceFits
  <2> QED
    BY <2>1, <2>2
<1>11. ASSUME NEW d \in Dep, PrepareClick(d) \/ PrepareOther(d) PROVE PlaceFits'
  <2>1. place' = [place EXCEPT ![d] = "build"] /\ place[d] = "prepare" /\ status' = status
    BY <1>11 DEF PrepareClick, PrepareOther, Prepared, Goto, rows
  <2> QED
    BY <1>0, <2>1 DEF PlaceFits
<1>12. ASSUME NEW d \in Dep, Build(d) PROVE PlaceFits'
  <2>1. /\ place[d] = "build" /\ place' = [place EXCEPT ![d] = IF status[d] = "building" THEN "ship" ELSE "none"]
        /\ SetStatus(d, "building", "deploying")
    BY <1>12 DEF Build, Goto
  <2>2. status[d] \in {"building", "cancelled"}
    BY <2>1 DEF PlaceFits
  <2>3. CASE status[d] = "building"
    <3>1. status' = [status EXCEPT ![d] = "deploying"]
      BY <2>1, <2>3, SetStatusFacts
    <3> QED
      BY <1>0, <2>1, <2>3, <3>1 DEF PlaceFits
  <2>4. CASE status[d] = "cancelled"
    <3>1. status' = status
      BY <2>1, <2>4, SetStatusFacts
    <3> QED
      BY <1>0, <2>1, <2>4, <3>1 DEF PlaceFits
  <2> QED
    BY <2>2, <2>3, <2>4
<1>13. ASSUME NEW d \in Dep, Fail(d) PROVE PlaceFits'
  <2>1. /\ place' = [place EXCEPT ![d] = "none"] /\ place[d] \in {"load", "prepare", "build", "ship"}
        /\ SetStatus(d, IF place[d] = "ship" THEN "deploying" ELSE "building", "failed")
    BY <1>13 DEF Fail, Prepared, Goto
  <2>2. status[d] \in {"building", "deploying", "cancelled"} /\ (place[d] = "ship" <=> status[d] = "deploying")
    BY <2>1 DEF PlaceFits
  <2>3. status'[d] \in {"failed", "cancelled"} /\ \A e \in Dep : e # d => status'[e] = status[e]
    BY <1>0, <2>1, <2>2, SetStatusFacts
  <2> QED
    BY <1>0, <2>1, <2>3 DEF PlaceFits
<1>14. ASSUME NEW d \in Dep, Ship(d) PROVE PlaceFits'
  <2>1. /\ place' = [place EXCEPT ![d] = "retire"] /\ place[d] = "ship" /\ SetStatus(d, "deploying", "running")
    BY <1>14 DEF Ship, Goto
  <2>2. status[d] = "deploying"
    BY <2>1 DEF PlaceFits
  <2>3. status' = [status EXCEPT ![d] = "running"]
    BY <2>1, <2>2, SetStatusFacts
  <2> QED
    BY <1>0, <2>1, <2>3 DEF PlaceFits
<1>15. ASSUME NEW d \in Dep, SupersedeOthers(d) PROVE PlaceFits'
  <2>1. place' = [place EXCEPT ![d] = "none"] /\ place[d] = "retire"
    BY <1>15 DEF SupersedeOthers, Goto
  <2>2. \A e \in Dep : status'[e] = status[e] \/ (status[e] = "running" /\ status'[e] = "superseded")
    BY <1>15 DEF SupersedeOthers, Retire
  <2>3. status[d] \in {"running", "superseded"}
    BY <2>1 DEF PlaceFits
  <2>4. \A e \in Dep : place'[e] = IF e = d THEN "none" ELSE place[e]
    BY <1>0, <2>1
  <2> QED
    BY <1>0, <2>2, <2>3, <2>4 DEF PlaceFits
<1>16. CASE Restart
  <2>1. /\ place' = [d \in Dep |-> "none"]
        /\ status' = [d \in Dep |-> IF IsActive(status[d]) THEN "failed" ELSE status[d]]
    BY <1>16 DEF Restart, Recover
  <2> QED
    BY <1>0, <2>1 DEF PlaceFits
<1>17. CASE UNCHANGED tagVars
  BY <1>17, PlacesUnmoved DEF tagVars, rows
<1>18. ASSUME NEW d \in Dep, Pipeline(d) PROVE PlaceFits'
  BY <1>18, <1>9, <1>10, <1>11, <1>12, <1>13, <1>14, <1>15 DEF Pipeline
<1>19. ASSUME NEW a \in App, NEW s \in Pushes, handleAppWebhook(a, s) \/ serve(a, s) PROVE PlaceFits'
  <2>1. {a} \in SUBSET App /\ Hear({a}, s)
    BY <1>19, Heard
  <2> QED
    BY <1>2, <2>1
<1>20. ASSUME NEW A \in SUBSET App, NEW s \in Pushes, handleGithubWebhook(A, s) PROVE PlaceFits'
  BY <1>2, <1>20, Heard
<1> QED
  BY <1>1, <1>4, <1>5, <1>6, <1>7, <1>8, <1>16, <1>17, <1>18, <1>19, <1>20 DEF TagNext

-----------------------------------------------------------------------------
(* What a step leaves alone. *)

\* Nothing of the app but the tags of its repository changes.
Still(b) ==
  /\ \A d \in Dep :
       /\ owner'[d] = b <=> owner[d] = b
       /\ owner[d] = b =>
            /\ status'[d] = status[d] /\ tag'[d] = tag[d] /\ event'[d] = event[d]
            /\ built'[d] = built[d] /\ place'[d] = place[d] /\ loaded'[d] = loaded[d]
  /\ mode'[b] = mode[b] /\ policy'[b] = policy[b] /\ hook'[b] = hook[b] /\ heard'[b] = heard[b]
  /\ excused'[b] = excused[b] /\ late'[b] = late[b]
  /\ remote[b] \subseteq remote'[b]

\* Nothing changes but an app's rows, or a row it gets, and its own settings.
Within(a) ==
  /\ \A d \in Dep :
       \/ owner'[d] = a /\ owner[d] \in {a, NoApp}
       \/ /\ owner'[d] = owner[d] /\ status'[d] = status[d] /\ tag'[d] = tag[d] /\ event'[d] = event[d]
          /\ built'[d] = built[d] /\ place'[d] = place[d] /\ loaded'[d] = loaded[d]
  /\ \A b \in App : b # a =>
       /\ mode'[b] = mode[b] /\ policy'[b] = policy[b] /\ hook'[b] = hook[b] /\ heard'[b] = heard[b]
       /\ excused'[b] = excused[b] /\ late'[b] = late[b]
       /\ remote[b] \subseteq remote'[b]

\* Then the other apps are as they were.
LEMMA OthersStill ==
  ASSUME NEW a, Within(a), NEW b \in App, b # a
  PROVE  Still(b)
<1>1. \A d \in Dep : owner'[d] = b <=> owner[d] = b
  BY DEF Within
<1>2. \A d \in Dep : owner[d] = b =>
            /\ status'[d] = status[d] /\ tag'[d] = tag[d] /\ event'[d] = event[d]
            /\ built'[d] = built[d] /\ place'[d] = place[d] /\ loaded'[d] = loaded[d]
  BY DEF Within
<1> QED
  BY <1>1, <1>2 DEF Within, Still

\* An app that is as it was is as well as it was.
LEMMA StillKeeps ==
  ASSUME NEW b \in App, Still(b), AppOK(b)
  PROVE  AppOK(b)'
<1>1. Rows(b)' = Rows(b)
  BY DEF Rows, Still, Dep
<1>2. \A d \in Rows(b) :
        /\ status'[d] = status[d] /\ tag'[d] = tag[d] /\ event'[d] = event[d]
        /\ built'[d] = built[d] /\ place'[d] = place[d] /\ loaded'[d] = loaded[d]
  BY DEF Rows, Still
<1>3. RunningRows(b)' = RunningRows(b) /\ LiveDeployment(b)' = LiveDeployment(b) /\ InFlight(b)' = InFlight(b)
  BY <1>1, <1>2 DEF RunningRows, LiveDeployment, InFlight
<1>4. RunningRows(b) \subseteq Rows(b) /\ LiveDeployment(b) \subseteq Rows(b) /\ InFlight(b) \subseteq Rows(b)
  BY DEF RunningRows, LiveDeployment, InFlight
<1>5. /\ mode'[b] = mode[b] /\ policy'[b] = policy[b] /\ hook'[b] = hook[b] /\ heard'[b] = heard[b]
      /\ excused'[b] = excused[b] /\ late'[b] = late[b]
      /\ remote[b] \subseteq remote'[b]
  BY DEF Still
<1>6. \A d \in Rows(b) : AtWork(d)' <=> AtWork(d)
  BY <1>2 DEF AtWork
<1>7. \A t : Good(b, t) => Good(b, t)'
  BY <1>5 DEF Good
<1>8. HookOK(b)'
  BY <1>5 DEF HookOK, AppOK
<1>9. QueueOK(b)'
  BY <1>2, <1>3, <1>4 DEF QueueOK, AppOK
<1>10. RetireOK(b)'
  BY <1>1, <1>2, <1>3, <1>5 DEF RetireOK, AppOK
<1>11. RegressOK(b)'
  BY <1>1, <1>2, <1>3, <1>4, <1>5, <1>6 DEF RegressOK, AppOK
<1>12. ASSUME Calm(b) PROVE Calm(b)'
  <2>1. SettingsCalm(b)'
    BY <1>5, <1>7, <1>12 DEF SettingsCalm, Calm
  <2>2. ASSUME NEW d \in Rows(b) PROVE RowCalm(b, d)'
    <3>1. RowCalm(b, d)
      BY <1>12 DEF Calm
    <3> QED
      BY <1>2, <1>5, <1>6, <1>7, <3>1 DEF RowCalm
  <2>3. ASSUME HeardOK(b) PROVE HeardOK(b)'
    BY <1>2, <1>3, <1>4, <1>5, <2>3 DEF HeardOK
  <2>4. ASSUME NEW d \in Rows(b), Ahead(b, d) PROVE Ahead(b, d)'
    BY <1>2, <1>3, <1>4, <1>6, <2>4 DEF Ahead
  <2> QED
    BY <1>1, <1>5, <1>12, <2>1, <2>2, <2>3, <2>4 DEF Calm
<1> QED
  BY <1>5, <1>8, <1>9, <1>10, <1>11, <1>12 DEF AppOK

\* What is live, its tag and whether a pipeline came late are as they were.
Frame(a) ==
  /\ LiveDeployment(a)' = LiveDeployment(a) /\ late'[a] = late[a]
  /\ \A e \in LiveDeployment(a) : tag'[e] = tag[e]

\* No tag event is new in flight.
LEMMA QueueKeeps ==
  ASSUME NEW a, QueueOK(a),
         \A d \in InFlight(a)' : event'[d] => d \in InFlight(a) /\ event[d] /\ tag'[d] = tag[d]
  PROVE  QueueOK(a)'
BY DEF QueueOK

\* No pipeline has come to retire the others.
LEMMA RetireKeeps ==
  ASSUME NEW a, RetireOK(a), late'[a] = late[a], RunningRows(a)' = RunningRows(a),
         \A d \in Rows(a)' : place'[d] = "retire" => d \in Rows(a) /\ place[d] = "retire"
  PROVE  RetireOK(a)'
BY DEF RetireOK

\* No tag event has been looked at again.
LEMMA RegressKeeps ==
  ASSUME NEW a, RegressOK(a), Frame(a),
         \A d \in Rows(a)' : event'[d] /\ AtWork(d)' =>
            d \in Rows(a) /\ event[d] /\ AtWork(d) /\ tag'[d] = tag[d]
  PROVE  RegressOK(a)'
<1> SUFFICES ASSUME ~late'[a], NEW d \in Rows(a)', NEW e \in LiveDeployment(a)',
                    event'[d], AtWork(d)', Comparable(tag'[d], tag'[e])
             PROVE  Newer(tag'[d], tag'[e])
  BY DEF RegressOK
<1>1. d \in Rows(a) /\ event[d] /\ AtWork(d) /\ tag'[d] = tag[d]
  OBVIOUS
<1>2. ~late[a] /\ e \in LiveDeployment(a) /\ tag'[e] = tag[e]
  BY DEF Frame
<1> QED
  BY <1>1, <1>2 DEF RegressOK

\* No attempt's tag has been settled.
LEMMA AheadKeeps ==
  ASSUME NEW a, Frame(a), NEW d, Ahead(a, d), AtWork(d)' => AtWork(d) /\ tag'[d] = tag[d]
  PROVE  Ahead(a, d)'
BY DEF Ahead, Frame

\* No attempt with a tag has left the queue.
LEMMA HeardKeeps ==
  ASSUME NEW a, Frame(a), HeardOK(a), heard'[a] = heard[a],
         \A e \in InFlight(a) : tag[e] # NoTag => e \in InFlight(a)' /\ tag'[e] = tag[e]
  PROVE  HeardOK(a)'
BY DEF Frame, HeardOK

\* The settings are as they were.
LEMMA SettingsKeep ==
  ASSUME NEW a, SettingsCalm(a), mode'[a] = mode[a], policy'[a] = policy[a], heard'[a] = heard[a],
         remote[a] \subseteq remote'[a], hook'[a] # NoHook => hook'[a] = hook[a]
  PROVE  SettingsCalm(a)'
BY DEF SettingsCalm, Good

\* Whether a pipeline has yet to settle its attempt's tag.
Unsettled(d) == status[d] = "queued" \/ place[d] \in {"load", "prepare"}

\* Whether it has.
SettledTag(d) == AtWork(d) \/ status[d] \in {"running", "superseded"}

\* An attempt's tag and how far it has come are as they were.
LEMMA RowKeeps ==
  ASSUME NEW a, NEW d, RowCalm(a, d), policy'[a] = policy[a], remote[a] \subseteq remote'[a],
         tag'[d] = tag[d], event'[d] = event[d], Unsettled(d)' => built'[d] = built[d],
         SettledTag(d)' => SettledTag(d), Unsettled(d)' => Unsettled(d),
         place'[d] = "prepare" => place[d] = "prepare" /\ loaded'[d] = loaded[d]
  PROVE  RowCalm(a, d)'
BY DEF RowCalm, Good, SettledTag, Unsettled

\* What is running decides what is live.
LEMMA LiveFromRunning ==
  ASSUME NEW a, RunningRows(a)' = RunningRows(a)
  PROVE  LiveDeployment(a)' = LiveDeployment(a)
<1>1. LiveDeployment(a) = {d \in RunningRows(a) : \A e \in RunningRows(a) : e <= d}
  BY DEF LiveDeployment, RunningRows
<1>2. LiveDeployment(a)' = {d \in RunningRows(a)' : \A e \in RunningRows(a)' : e <= d}
  BY DEF LiveDeployment, RunningRows
<1> QED
  BY <1>1, <1>2

\* What is live runs, and has no pipeline that may still fail it.
LEMMA LiveFacts ==
  ASSUME PlaceFits, NEW a, NEW e \in LiveDeployment(a)
  PROVE  /\ e \in Dep /\ e \in Rows(a) /\ e \in RunningRows(a) /\ owner[e] = a /\ status[e] = "running"
         /\ place[e] \notin {"load", "prepare", "build", "ship"}
BY DEF LiveDeployment, RunningRows, Rows, PlaceFits

-----------------------------------------------------------------------------
(* A step of one attempt. *)

\* Nothing changes but the row of d and the place of its pipeline, and what is noted of
\* its app.
OnlyRow(d) ==
  /\ owner' = owner
  /\ \A e \in Dep : e # d =>
       /\ status'[e] = status[e] /\ tag'[e] = tag[e] /\ event'[e] = event[e]
       /\ built'[e] = built[e] /\ place'[e] = place[e] /\ loaded'[e] = loaded[e]
  /\ UNCHANGED <<mode, policy, remote, hook, heard>>
  /\ \A b \in App : b # owner[d] => excused'[b] = excused[b] /\ late'[b] = late[b]

\* Then nothing changes outside its app, which keeps its rows.
LEMMA OnlyRowFacts ==
  ASSUME NEW d \in Dep, NEW a, a = owner[d], OnlyRow(d), status[d] # "absent", status'[d] # "absent"
  PROVE  Within(a) /\ Rows(a)' = Rows(a) /\ d \in Rows(a)
<1>1. Within(a)
  BY DEF OnlyRow, Within
<1>2. Rows(a)' = Rows(a) /\ d \in Rows(a)
  BY DEF OnlyRow, Rows, Dep
<1> QED
  BY <1>1, <1>2

\* An attempt that neither was nor comes live leaves its app as well as it was, but for
\* a tag event whose tag it settles.
LEMMA RowStepKeeps ==
  ASSUME NEW d \in Dep, NEW a \in App, a = owner[d], OnlyRow(d), AppOK(a),
         status[d] \notin {"absent", "running"}, status'[d] \notin {"absent", "running"},
         late'[a] = late[a], event'[d] = event[d], event[d] => tag'[d] = tag[d],
         place'[d] # "retire",
         status'[d] \in {"queued", "building", "deploying"} =>
           status[d] \in {"queued", "building", "deploying"}
  PROVE  /\ HookOK(a)' /\ QueueOK(a)' /\ RetireOK(a)' /\ Frame(a)
         /\ (event[d] /\ AtWork(d)' => AtWork(d)) => RegressOK(a)'
<1>1. /\ Rows(a)' = Rows(a) /\ d \in Rows(a)
      /\ \A e \in Rows(a) : e \in Dep
      /\ \A e \in Rows(a) : e # d =>
           /\ status'[e] = status[e] /\ tag'[e] = tag[e] /\ event'[e] = event[e]
           /\ built'[e] = built[e] /\ place'[e] = place[e] /\ loaded'[e] = loaded[e]
  BY DEF OnlyRow, Rows, Dep
<1>2. RunningRows(a)' = RunningRows(a) /\ d \notin RunningRows(a)
  BY <1>1 DEF RunningRows
<1>3. Frame(a)
  <2>1. LiveDeployment(a)' = LiveDeployment(a)
    BY <1>2, LiveFromRunning
  <2>2. \A e \in LiveDeployment(a) : e \in Rows(a) /\ e # d
    BY DEF LiveDeployment
  <2> QED
    BY <1>1, <2>1, <2>2 DEF Frame
<1>4. HookOK(a)'
  BY DEF OnlyRow, HookOK, AppOK
<1>5. QueueOK(a)'
  <2>1. \A e \in InFlight(a)' : event'[e] => e \in InFlight(a) /\ event[e] /\ tag'[e] = tag[e]
    BY <1>1 DEF InFlight
  <2> QED
    BY <2>1, QueueKeeps DEF AppOK
<1>6. RetireOK(a)'
  <2>1. \A e \in Rows(a)' : place'[e] = "retire" => e \in Rows(a) /\ place[e] = "retire"
    BY <1>1
  <2> QED
    BY <1>2, <2>1, RetireKeeps DEF AppOK
<1>7. ASSUME event[d] /\ AtWork(d)' => AtWork(d) PROVE RegressOK(a)'
  <2>1. \A e \in Rows(a)' : event'[e] /\ AtWork(e)' =>
            e \in Rows(a) /\ event[e] /\ AtWork(e) /\ tag'[e] = tag[e]
    BY <1>1, <1>7 DEF AtWork
  <2> QED
    BY <1>3, <2>1, RegressKeeps DEF AppOK
<1> QED
  BY <1>3, <1>4, <1>5, <1>6, <1>7

\* The settings of its app and the other attempts are as calm as they were.
LEMMA OthersCalm ==
  ASSUME NEW d \in Dep, NEW a \in App, a = owner[d], OnlyRow(d), Calm(a)
  PROVE  /\ SettingsCalm(a)'
         /\ \A e \in Rows(a) : e # d => RowCalm(a, e)' /\ (AtWork(e)' => AtWork(e) /\ tag'[e] = tag[e])
<1>1. \A e \in Rows(a) : e # d =>
           /\ status'[e] = status[e] /\ tag'[e] = tag[e] /\ event'[e] = event[e]
           /\ built'[e] = built[e] /\ place'[e] = place[e] /\ loaded'[e] = loaded[e]
  BY DEF OnlyRow, Rows, Dep
<1>2. /\ mode'[a] = mode[a] /\ policy'[a] = policy[a] /\ heard'[a] = heard[a] /\ hook'[a] = hook[a]
      /\ remote[a] \subseteq remote'[a]
  BY DEF OnlyRow
<1>3. SettingsCalm(a)'
  BY <1>2, SettingsKeep DEF Calm
<1>4. ASSUME NEW e \in Rows(a), e # d PROVE RowCalm(a, e)' /\ (AtWork(e)' => AtWork(e) /\ tag'[e] = tag[e])
  <2>1. (Unsettled(e)' <=> Unsettled(e)) /\ (SettledTag(e)' <=> SettledTag(e)) /\ (AtWork(e)' <=> AtWork(e))
    BY <1>1, <1>4 DEF Unsettled, SettledTag, AtWork
  <2>2. RowCalm(a, e)'
    BY <1>1, <1>2, <1>4, <2>1, RowKeeps DEF Calm
  <2> QED
    BY <1>1, <1>4, <2>1, <2>2
<1> QED
  BY <1>3, <1>4

\* And so is the app, if its own row is calm and it leaves no release behind.
LEMMA RowStepCalm ==
  ASSUME NEW d \in Dep, NEW a \in App, a = owner[d], OnlyRow(d), Calm(a), Frame(a),
         status[d] # "absent", status'[d] # "absent",
         RowCalm(a, d)', ~late[a] => Ahead(a, d)',
         ~late[a] => HeardOK(a)'
  PROVE  Calm(a)'
<1>1. Rows(a)' = Rows(a)
  BY DEF OnlyRow, Rows, Dep
<1>2. SettingsCalm(a)' /\ \A e \in Rows(a) : e # d => RowCalm(a, e)'
  BY OthersCalm
<1>3. ASSUME ~late[a], NEW e \in Rows(a), e # d PROVE Ahead(a, e)'
  <2>1. AtWork(e)' => AtWork(e) /\ tag'[e] = tag[e]
    BY <1>3, OthersCalm
  <2> QED
    BY <1>3, <2>1, AheadKeeps DEF Calm
<1>4. late'[a] = late[a]
  BY DEF Frame
<1> QED
  BY <1>1, <1>2, <1>3, <1>4 DEF Calm

\* A release on its way stays on its way, if d stays in flight or has no tag.
LEMMA HeardStays ==
  ASSUME NEW d \in Dep, NEW a \in App, a = owner[d], OnlyRow(d), HeardOK(a), Frame(a),
         d \in InFlight(a) /\ tag[d] # NoTag => status'[d] \in {"queued", "building", "deploying"} /\ tag'[d] = tag[d]
  PROVE  HeardOK(a)'
<1>1. \A e \in InFlight(a) : tag[e] # NoTag => e \in InFlight(a)' /\ tag'[e] = tag[e]
  BY DEF OnlyRow, InFlight, Rows, Dep
<1>2. heard'[a] = heard[a]
  BY DEF OnlyRow
<1> QED
  BY <1>1, <1>2, HeardKeeps

\* The apps are all well after a step of d if its own is.
LEMMA AllWell ==
  ASSUME TagIInv, NEW a \in App, Within(a), AppOK(a)'
  PROVE  \A b \in App : AppOK(b)'
<1>1. ASSUME NEW b \in App, b # a PROVE AppOK(b)'
  BY <1>1, OthersStill, StillKeeps DEF TagIInv
<1> QED
  BY <1>1

-----------------------------------------------------------------------------
(* The steps of an attempt, one by one. *)

\* A row there is belongs to an app there is.
LEMMA RowHasApp ==
  ASSUME TagIInv, NEW d \in Dep, status[d] # "absent"
  PROVE  owner[d] \in App /\ d < next /\ AppOK(owner[d])
BY DEF TagIInv, RowsInOrder

\* The worker's tables are functions of the attempts, and the settings of the apps.
LEMMA Tables ==
  ASSUME TagIInv
  PROVE  /\ status \in [Dep -> Status \cup {"absent"}]
         /\ place \in [Dep -> {"none", "load", "prepare", "build", "ship", "retire"}]
         /\ tag \in [Dep -> Tag \cup {NoTag}] /\ event \in [Dep -> BOOLEAN] /\ built \in [Dep -> BOOLEAN]
         /\ loaded \in [Dep -> [mode : {"branch", "tag"}, policy : Policy] \cup {Unloaded}]
         /\ excused \in [App -> BOOLEAN] /\ late \in [App -> BOOLEAN]
BY DEF TagIInv, TagTypeOK, TypeOK

\* A cancel excuses its app.
LEMMA CancelStep ==
  ASSUME TagIInv, NEW d \in Dep, Cancel(d)
  PROVE  \A b \in App : AppOK(b)'
<1> USE StatusFacts, Tables
<1>1. /\ status[d] \in {"queued", "building"} /\ owner' = owner
      /\ status' = [status EXCEPT ![d] = "cancelled"] /\ excused' = [excused EXCEPT ![owner[d]] = TRUE]
      /\ UNCHANGED <<mode, policy, remote, hook, tag, event, built, place, loaded, heard, late>>
  BY DEF Cancel, Move, settings, notes
<1>2. PICK a \in App : a = owner[d]
  BY <1>1, RowHasApp
<1>3. OnlyRow(d)
  BY <1>1 DEF OnlyRow
<1>4. AppOK(a)
  BY <1>1, <1>2, RowHasApp
<1>5. place[d] # "retire"
  BY <1>1 DEF TagIInv, PlaceFits
<1>6. status'[d] = "cancelled" /\ ~AtWork(d)' /\ excused'[a]
  BY <1>1, <1>2 DEF AtWork
<1>7. HookOK(a)' /\ QueueOK(a)' /\ RetireOK(a)' /\ RegressOK(a)'
  BY <1>1, <1>2, <1>3, <1>4, <1>5, <1>6, RowStepKeeps
<1>8. AppOK(a)'
  BY <1>6, <1>7 DEF AppOK
<1>9. Within(a)
  BY <1>1, <1>2, <1>3, <1>6, OnlyRowFacts
<1> QED
  BY <1>8, <1>9, AllWell

\* A claim starts a pipeline and settles nothing yet.
LEMMA StartStep ==
  ASSUME TagIInv, NEW d \in Dep, Start(d)
  PROVE  \A b \in App : AppOK(b)'
<1> USE StatusFacts, Tables
<1>1. /\ status[d] = "queued" /\ owner' = owner
      /\ status' = [status EXCEPT ![d] = "building"] /\ place' = [place EXCEPT ![d] = "load"]
      /\ UNCHANGED <<mode, policy, remote, hook, tag, event, built, loaded, heard, excused, late>>
  BY DEF Start, Claim, Goto, settings, notes
<1>2. PICK a \in App : a = owner[d]
  BY <1>1, RowHasApp
<1>3. OnlyRow(d)
  BY <1>1 DEF OnlyRow
<1>4. AppOK(a)
  BY <1>1, <1>2, RowHasApp
<1>6. status'[d] = "building" /\ place'[d] = "load" /\ ~AtWork(d)'
  BY <1>1 DEF AtWork
<1>7. HookOK(a)' /\ QueueOK(a)' /\ RetireOK(a)' /\ RegressOK(a)' /\ Frame(a)
  BY <1>1, <1>2, <1>3, <1>4, <1>6, RowStepKeeps
<1>8. ASSUME Calm(a) PROVE Calm(a)'
  <2>1. RowCalm(a, d)'
    <3>1. RowCalm(a, d)
      BY <1>1, <1>2, <1>8 DEF Calm, Rows
    <3>2. ~SettledTag(d)' /\ Unsettled(d)
      BY <1>1, <1>6 DEF SettledTag, Unsettled
    <3> QED
      BY <1>1, <1>6, <3>1, <3>2, RowKeeps
  <2>2. Ahead(a, d)'
    BY <1>6 DEF Ahead
  <2>3. HeardOK(a) => HeardOK(a)'
    BY <1>1, <1>2, <1>3, <1>6, <1>7, HeardStays
  <2> QED
    BY <1>1, <1>2, <1>3, <1>6, <1>7, <1>8, <2>1, <2>2, <2>3, RowStepCalm DEF Calm
<1>9. AppOK(a)'
  BY <1>1, <1>4, <1>7, <1>8 DEF AppOK
<1>10. Within(a)
  BY <1>1, <1>2, <1>3, <1>6, OnlyRowFacts
<1> QED
  BY <1>9, <1>10, AllWell

\* A pipeline reads the settings its app has.
LEMMA LoadStep ==
  ASSUME TagIInv, NEW d \in Dep, Load(d)
  PROVE  \A b \in App : AppOK(b)'
<1> USE StatusFacts, Tables
<1>1. /\ place[d] = "load" /\ owner' = owner /\ status' = status /\ place' = [place EXCEPT ![d] = "prepare"]
      /\ loaded' = [loaded EXCEPT ![d] = [mode |-> mode[owner[d]], policy |-> policy[owner[d]]]]
      /\ UNCHANGED <<mode, policy, remote, hook, tag, event, built, heard, excused, late>>
  BY DEF Load, Goto, settings, notes, rows
<1>0. status[d] \in {"building", "cancelled"}
  BY <1>1 DEF TagIInv, PlaceFits
<1>2. PICK a \in App : a = owner[d]
  BY <1>0, RowHasApp
<1>3. OnlyRow(d)
  BY <1>1 DEF OnlyRow
<1>4. AppOK(a)
  BY <1>0, <1>2, RowHasApp
<1>6. place'[d] = "prepare" /\ ~AtWork(d)' /\ loaded'[d] = [mode |-> mode[a], policy |-> policy[a]]
  BY <1>1, <1>2 DEF AtWork
<1>7. HookOK(a)' /\ QueueOK(a)' /\ RetireOK(a)' /\ RegressOK(a)' /\ Frame(a)
  BY <1>0, <1>1, <1>2, <1>3, <1>4, <1>6, RowStepKeeps
<1>8. ASSUME Calm(a) PROVE Calm(a)'
  <2>1. RowCalm(a, d)'
    <3>1. RowCalm(a, d) /\ mode[a] = "tag"
      BY <1>0, <1>2, <1>8 DEF Calm, Rows, SettingsCalm
    <3>2. (tag[d] # NoTag => Good(a, tag[d])) /\ (event[d] => tag[d] # NoTag)
      BY <3>1 DEF RowCalm
    <3>3. ~event[d] => tag[d] = NoTag /\ ~built[d]
      BY <1>1, <3>1 DEF RowCalm
    <3>4. (\A t : Good(a, t)' <=> Good(a, t)) /\ policy'[a] = policy[a]
      BY <1>1 DEF Good
    <3>5. status'[d] \notin {"running", "superseded"}
      BY <1>0, <1>1
    <3> QED
      BY <1>1, <1>6, <3>1, <3>2, <3>3, <3>4, <3>5 DEF RowCalm
  <2>2. Ahead(a, d)'
    BY <1>6 DEF Ahead
  <2>3. HeardOK(a) => HeardOK(a)'
    BY <1>1, <1>2, <1>3, <1>7, HeardStays DEF InFlight
  <2> QED
    BY <1>0, <1>1, <1>2, <1>3, <1>7, <1>8, <2>1, <2>2, <2>3, RowStepCalm DEF Calm
<1>9. AppOK(a)'
  BY <1>1, <1>4, <1>7, <1>8 DEF AppOK
<1>10. Within(a)
  BY <1>0, <1>1, <1>2, <1>3, OnlyRowFacts
<1> QED
  BY <1>9, <1>10, AllWell

\* Without an excuse every attempt has a tag to settle.
LEMMA PrepareOtherStep ==
  ASSUME TagIInv, NEW d \in Dep, PrepareOther(d)
  PROVE  \A b \in App : AppOK(b)'
<1> USE StatusFacts, Tables
<1>1. /\ place[d] = "prepare" /\ owner' = owner /\ status' = status /\ place' = [place EXCEPT ![d] = "build"]
      /\ loaded' = [loaded EXCEPT ![d] = Unloaded] /\ ~event[d]
      /\ built[d] \/ loaded[d].mode = "branch" \/ tag[d] # NoTag
      /\ UNCHANGED <<mode, policy, remote, hook, tag, event, built, heard, excused, late>>
  BY DEF PrepareOther, Prepared, Goto, settings, notes, rows
<1>0. status[d] \in {"building", "cancelled"}
  BY <1>1 DEF TagIInv, PlaceFits
<1>2. PICK a \in App : a = owner[d]
  BY <1>0, RowHasApp
<1>3. OnlyRow(d)
  BY <1>1 DEF OnlyRow
<1>4. AppOK(a)
  BY <1>0, <1>2, RowHasApp
<1>6. place'[d] = "build"
  BY <1>1
<1>7. HookOK(a)' /\ QueueOK(a)' /\ RetireOK(a)' /\ RegressOK(a)'
  BY <1>0, <1>1, <1>2, <1>3, <1>4, <1>6, RowStepKeeps
<1>8. ASSUME Calm(a) PROVE FALSE
  <2>1. RowCalm(a, d)
    BY <1>0, <1>2, <1>8 DEF Calm, Rows
  <2>2. tag[d] = NoTag /\ ~built[d] /\ loaded[d].mode = "tag"
    BY <1>1, <2>1 DEF RowCalm
  <2> QED
    BY <1>1, <2>2
<1>9. AppOK(a)'
  BY <1>1, <1>4, <1>7, <1>8 DEF AppOK
<1>10. Within(a)
  BY <1>0, <1>1, <1>2, <1>3, OnlyRowFacts
<1> QED
  BY <1>9, <1>10, AllWell

\* A build takes the attempt on with the tag it has.
LEMMA BuildStep ==
  ASSUME TagIInv, NEW d \in Dep, Build(d)
  PROVE  \A b \in App : AppOK(b)'
<1> USE StatusFacts, Tables
<1>1. /\ place[d] = "build" /\ place' = [place EXCEPT ![d] = IF status[d] = "building" THEN "ship" ELSE "none"]
      /\ built' = [built EXCEPT ![d] = TRUE] /\ SetStatus(d, "building", "deploying")
      /\ UNCHANGED <<mode, policy, remote, hook, tag, event, loaded, heard, excused, late>>
  BY DEF Build, Goto, settings
<1>0. status[d] \in {"building", "cancelled"}
  BY <1>1 DEF TagIInv, PlaceFits
<1>2. PICK a \in App : a = owner[d]
  BY <1>0, RowHasApp
<1>5. /\ owner' = owner /\ \A e \in Dep : e # d => status'[e] = status[e]
      /\ \/ status[d] = "building" /\ status'[d] = "deploying" /\ place'[d] = "ship"
         \/ status[d] = "cancelled" /\ status'[d] = "cancelled" /\ place'[d] = "none"
  BY <1>0, <1>1, SetStatusFacts
<1>3. OnlyRow(d)
  BY <1>1, <1>5 DEF OnlyRow
<1>4. AppOK(a)
  BY <1>0, <1>2, RowHasApp
<1>6. AtWork(d)' => AtWork(d)
  BY <1>1, <1>5 DEF AtWork
<1>7. HookOK(a)' /\ QueueOK(a)' /\ RetireOK(a)' /\ RegressOK(a)' /\ Frame(a)
  BY <1>0, <1>1, <1>2, <1>3, <1>4, <1>5, <1>6, RowStepKeeps
<1>8. ASSUME Calm(a) PROVE Calm(a)'
  <2>1. RowCalm(a, d)'
    <3>1. RowCalm(a, d)
      BY <1>0, <1>2, <1>8 DEF Calm, Rows
    <3>2. (SettledTag(d)' => SettledTag(d)) /\ ~Unsettled(d)'
      BY <1>5, <1>6 DEF SettledTag, Unsettled
    <3> QED
      BY <1>1, <1>5, <3>1, <3>2, RowKeeps
  <2>2. Ahead(a, d) => Ahead(a, d)'
    BY <1>1, <1>6, <1>7, AheadKeeps
  <2>3. HeardOK(a) => HeardOK(a)'
    BY <1>1, <1>2, <1>3, <1>5, <1>7, HeardStays DEF InFlight
  <2>4. d \in Rows(a)
    BY <1>0, <1>2 DEF Rows
  <2>5. ~late[a] => Ahead(a, d)' /\ HeardOK(a)'
    BY <1>8, <2>2, <2>3, <2>4 DEF Calm
  <2> QED
    BY <1>0, <1>2, <1>3, <1>5, <1>7, <1>8, <2>1, <2>5, RowStepCalm
<1>9. AppOK(a)'
  BY <1>1, <1>4, <1>7, <1>8 DEF AppOK
<1>10. Within(a)
  BY <1>0, <1>2, <1>3, <1>5, OnlyRowFacts
<1> QED
  BY <1>9, <1>10, AllWell

\* A failure excuses its app.
LEMMA FailStep ==
  ASSUME TagIInv, NEW d \in Dep, Fail(d)
  PROVE  \A b \in App : AppOK(b)'
<1> USE StatusFacts, Tables
<1>1. /\ place[d] \in {"load", "prepare", "build", "ship"} /\ place' = [place EXCEPT ![d] = "none"]
      /\ loaded' = [loaded EXCEPT ![d] = Unloaded] /\ excused' = [excused EXCEPT ![owner[d]] = TRUE]
      /\ SetStatus(d, IF place[d] = "ship" THEN "deploying" ELSE "building", "failed")
      /\ UNCHANGED <<mode, policy, remote, hook, tag, event, built, heard, late>>
  BY DEF Fail, Prepared, Goto, settings, notes
<1>0. status[d] \in {"building", "deploying", "cancelled"}
  BY <1>1 DEF TagIInv, PlaceFits
<1>2. PICK a \in App : a = owner[d]
  BY <1>0, RowHasApp
<1>5. /\ owner' = owner /\ \A e \in Dep : e # d => status'[e] = status[e]
      /\ status'[d] \in {"failed", status[d]} /\ place'[d] = "none"
  BY <1>0, <1>1, SetStatusFacts
<1>3. OnlyRow(d)
  BY <1>1, <1>5 DEF OnlyRow
<1>4. AppOK(a)
  BY <1>0, <1>2, RowHasApp
<1>6. ~AtWork(d)' /\ excused'[a]
  BY <1>1, <1>2, <1>5 DEF AtWork
<1>7. HookOK(a)' /\ QueueOK(a)' /\ RetireOK(a)' /\ RegressOK(a)'
  BY <1>0, <1>1, <1>2, <1>3, <1>4, <1>5, <1>6, RowStepKeeps
<1>9. AppOK(a)'
  BY <1>6, <1>7 DEF AppOK
<1>10. Within(a)
  BY <1>0, <1>2, <1>3, <1>5, OnlyRowFacts
<1> QED
  BY <1>9, <1>10, AllWell


-----------------------------------------------------------------------------
(* The tag of an attempt is settled. *)

\* A good tag is a version.
LEMMA GoodFacts ==
  ASSUME TagIInv, NEW a \in App, NEW t, Good(a, t)
  PROVE  /\ t \in Tag /\ t # NoTag /\ t.parses /\ IsVersion(t)
         /\ Eligible(policy[a], t) /\ MatchGlob(policy[a], t)
<1>1. remote[a] \subseteq Tag
  BY DEF TagIInv, TagTypeOK
<1> QED
  BY <1>1, TagFacts DEF Good, Eligible

\* In a calm app what is live has a good tag.
LEMMA LiveGood ==
  ASSUME TagIInv, NEW a \in App, Calm(a), NEW e \in LiveDeployment(a)
  PROVE  tag[e] # NoTag /\ Good(a, tag[e]) /\ IsVersion(tag[e])
<1>0. PlaceFits
  BY DEF TagIInv
<1>1. e \in Rows(a) /\ status[e] = "running"
  BY <1>0, LiveFacts
<1>2. RowCalm(a, e)
  BY <1>1 DEF Calm
<1>3. tag[e] # NoTag /\ Good(a, tag[e])
  BY <1>1, <1>2 DEF RowCalm
<1> QED
  BY <1>3, GoodFacts

\* What the policy decides on one tag: it goes on if it is newer than all that counts.
Alone(p, t, I) ==
  /\ Decide(p, <<t>>, I) # NoTag =>
       Eligible(p, t) /\ (t.parses => \A m \in Marks(p, I) : Precedes(m, t))
  /\ Decide(p, <<t>>, I) = NoTag /\ Eligible(p, t) /\ t.parses =>
       \E m \in Marks(p, I) : ~Precedes(m, t)

\* That is Decide on a single tag.
LEMMA AloneDecided ==
  ASSUME NEW p, NEW t \in Tag, NEW I \in SUBSET Tag
  PROVE  Alone(p, t, I)
<1>0. <<t>> \in Seq(Tag)
  OBVIOUS
<1>1. PICK s \in Seq(Tag) : s = <<t>>
  BY <1>0
<1>2. DOMAIN s = {1} /\ s[1] = t
  BY <1>1
<1>3. PICK u : u = Decide(p, s, I)
  OBVIOUS
<1>4. Decided(p, s, I, u)
  BY <1>3, DecideFacts
<1>5. Eligible(p, t) /\ t.parses => 1 \in Candidates(p, s)
  BY <1>2 DEF Candidates
<1>6. u # NoTag => u = t /\ Eligible(p, t) /\ (t.parses => \A m \in Marks(p, I) : Precedes(m, t))
  <2>1. u # NoTag => (\E i \in DOMAIN s : u = s[i] /\ Eligible(p, u))
                     /\ (u.parses => \A m \in Marks(p, I) : Precedes(m, u))
    BY <1>4 DEF Decided
  <2>2. u # NoTag => u = t /\ Eligible(p, u)
    BY <1>2, <2>1
  <2> QED
    BY <2>1, <2>2
<1>7. u = NoTag /\ Eligible(p, t) /\ t.parses => \E m \in Marks(p, I) : ~Precedes(m, t)
  <2>1. u = NoTag => \/ \A i \in DOMAIN s : ~Eligible(p, s[i])
                     \/ \E m \in Marks(p, I) : \A j \in Candidates(p, s) : ~Precedes(m, s[j])
    BY <1>4 DEF Decided
  <2> QED
    BY <1>2, <1>5, <2>1
<1> QED
  BY <1>1, <1>3, <1>6, <1>7 DEF Alone

\* The tags of what is live are tags.
LEMMA LiveTags ==
  ASSUME TagIInv, NEW a
  PROVE  {tag[e] : e \in LiveDeployment(a)} \ {NoTag} \in SUBSET Tag
<1>1. \A e \in LiveDeployment(a) : tag[e] \in Tag \cup {NoTag}
  BY DEF TagIInv, TagTypeOK, LiveDeployment, Rows
<1> QED
  BY <1>1

\* The second look of a tag event: it goes on only above what is live, and gives way only
\* to what is as new.
LEMMA PrepareEventStep ==
  ASSUME TagIInv, NEW d \in Dep, PrepareEvent(d)
  PROVE  \A b \in App : AppOK(b)'
<1> USE StatusFacts, Tables
<1>1. /\ place[d] = "prepare" /\ event[d] /\ loaded' = [loaded EXCEPT ![d] = Unloaded]
      /\ \/ StillNewer(d) /\ place' = [place EXCEPT ![d] = "build"] /\ owner' = owner /\ status' = status
         \/ ~StillNewer(d) /\ place' = [place EXCEPT ![d] = "none"] /\ SetStatus(d, "building", "cancelled")
      /\ UNCHANGED <<mode, policy, remote, hook, tag, event, built, heard, excused, late>>
  BY DEF PrepareEvent, Prepared, Goto, settings, notes, rows
<1>0. status[d] \in {"building", "cancelled"}
  BY <1>1 DEF TagIInv, PlaceFits
<1>2. PICK a \in App : a = owner[d]
  BY <1>0, RowHasApp
<1>5. /\ owner' = owner /\ \A e \in Dep : e # d => status'[e] = status[e]
      /\ status'[d] \in {"building", "cancelled"}
      /\ ~StillNewer(d) => status'[d] = "cancelled" /\ place'[d] = "none"
      /\ StillNewer(d) => status'[d] = status[d] /\ place'[d] = "build"
  BY <1>0, <1>1, SetStatusFacts
<1>3. OnlyRow(d)
  BY <1>1, <1>5 DEF OnlyRow
<1>4. AppOK(a) /\ d \in Rows(a) /\ PlaceFits
  BY <1>0, <1>2, RowHasApp DEF Rows, TagIInv
<1>6. Rows(a)' = Rows(a)
  BY <1>0, <1>1, <1>2, <1>3, <1>5, OnlyRowFacts
<1>7. HookOK(a)' /\ QueueOK(a)' /\ RetireOK(a)' /\ Frame(a) /\ (~AtWork(d)' => RegressOK(a)')
  BY <1>0, <1>1, <1>2, <1>3, <1>4, <1>5, RowStepKeeps
<1>8. PICK t : t = tag[d]
  OBVIOUS
<1>9. PICK p : p = loaded[d].policy
  OBVIOUS
<1>10. PICK I \in SUBSET Tag : I = {tag[e] : e \in LiveDeployment(a)} \ {NoTag}
  BY LiveTags
<1>11. StillNewer(d) <=> Decide(p, <<t>>, I) # NoTag
  BY <1>2, <1>8, <1>9, <1>10 DEF StillNewer
<1>12. t \in Tag => Alone(p, t, I)
  BY AloneDecided
<1>13. \A e \in LiveDeployment(a) : tag[e] # NoTag /\ tag[e].parses /\ MatchGlob(p, tag[e]) => tag[e] \in Marks(p, I)
  BY <1>10 DEF Marks
<1>14. RegressOK(a)'
  <2>1. CASE ~StillNewer(d)
    BY <1>5, <1>7, <2>1 DEF AtWork
  <2>2. ASSUME StillNewer(d), NEW x \in Rows(a), NEW e \in LiveDeployment(a), ~late[a],
               event[x], AtWork(x)', Comparable(tag[x], tag[e])
        PROVE  Newer(tag[x], tag[e])
    <3>1. CASE x # d
      <4>1. AtWork(x)
        <5>1. x \in Dep
          BY <2>2 DEF Rows
        <5> QED
          BY <1>1, <1>5, <2>2, <3>1, <5>1 DEF AtWork
      <4>2. RegressOK(a)
        BY <1>4 DEF AppOK
      <4> QED
        BY <2>2, <4>1, <4>2 DEF RegressOK
    <3>2. CASE x = d
      <4>1. t.parses /\ tag[e].parses /\ t.line = tag[e].line
        BY <1>8, <2>2, <3>2 DEF Comparable
      <4>2. t # NoTag /\ tag[e] # NoTag
        BY <4>1, TagFacts
      <4>3. t \in Tag
        BY <1>8, <4>2
      <4>4. Eligible(p, t) /\ \A m \in Marks(p, I) : Precedes(m, t)
        BY <1>11, <1>12, <2>2, <4>1, <4>3 DEF Alone
      <4>5. MatchGlob(p, tag[e])
        BY <4>1, <4>4 DEF Eligible, MatchGlob
      <4>6. Precedes(tag[e], t)
        BY <1>13, <4>1, <4>2, <4>4, <4>5
      <4> QED
        BY <1>8, <2>2, <3>2, <4>6 DEF Newer
    <3> QED
      BY <3>1, <3>2
  <2>3. CASE StillNewer(d)
    <3>1. LiveDeployment(a)' = LiveDeployment(a) /\ late' = late /\ event' = event /\ tag' = tag
      BY <1>1, <1>7 DEF Frame
    <3> QED
      BY <1>6, <2>2, <2>3, <3>1 DEF RegressOK
  <2> QED
    BY <2>1, <2>3
<1>15. ASSUME Calm(a) PROVE Calm(a)'
  <2>1. RowCalm(a, d)
    BY <1>4, <1>15 DEF Calm
  <2>2. t # NoTag /\ Good(a, t) /\ p = policy[a]
    BY <1>1, <1>8, <1>9, <2>1 DEF RowCalm
  <2>3. t \in Tag /\ IsVersion(t) /\ t.parses /\ Eligible(p, t)
    BY <2>2, GoodFacts
  <2>4. RowCalm(a, d)'
    <3>1. ~Unsettled(d)'
      BY <1>5 DEF Unsettled
    <3>2. /\ (tag[d] # NoTag => Good(a, tag[d]))' /\ tag'[d] # NoTag
      BY <1>1, <1>8, <2>2 DEF Good
    <3>3. place'[d] # "prepare"
      BY <1>5
    <3> QED
      BY <3>1, <3>2, <3>3 DEF RowCalm, Unsettled
  <2>5. Ahead(a, d)'
    <3>1. CASE ~StillNewer(d)
      BY <1>5, <3>1 DEF Ahead, AtWork
    <3>2. ASSUME StillNewer(d), NEW e \in LiveDeployment(a) PROVE ~Precedes(t, tag[e])
      <4>1. tag[e] # NoTag /\ Good(a, tag[e]) /\ IsVersion(tag[e])
        BY <1>15, LiveGood
      <4>2. tag[e].parses /\ MatchGlob(p, tag[e])
        BY <2>2, <4>1, GoodFacts
      <4>3. Precedes(tag[e], t)
        BY <1>11, <1>12, <1>13, <2>3, <3>2, <4>1, <4>2 DEF Alone
      <4> QED
        BY <2>3, <4>1, <4>3, VersionOrder
    <3>3. CASE StillNewer(d)
      <4>1. LiveDeployment(a)' = LiveDeployment(a) /\ tag' = tag
        BY <1>1, <1>7 DEF Frame
      <4> QED
        BY <1>8, <3>2, <3>3, <4>1 DEF Ahead
    <3> QED
      BY <3>1, <3>3
  <2>6. ASSUME HeardOK(a) PROVE HeardOK(a)'
    <3>1. CASE StillNewer(d)
      BY <1>0, <1>1, <1>2, <1>3, <1>5, <1>7, <2>6, <3>1, HeardStays DEF InFlight
    <3>2. CASE ~StillNewer(d)
      <4> SUFFICES ASSUME heard'[a] # NoTag
                   PROVE  \E e \in LiveDeployment(a)' \cup InFlight(a)' : tag'[e] # NoTag /\ ~Precedes(tag'[e], heard'[a])
        BY DEF HeardOK
      <4>1. PICK h : h = heard[a]
        OBVIOUS
      <4>2. h # NoTag /\ heard'[a] = h /\ tag' = tag /\ LiveDeployment(a)' = LiveDeployment(a)
        BY <1>1, <1>7, <4>1 DEF Frame
      <4>3. IsVersion(h)
        BY <1>15, <4>1, <4>2, GoodFacts DEF Calm, SettingsCalm
      <4>4. PICK e \in LiveDeployment(a) \cup InFlight(a) : tag[e] # NoTag /\ ~Precedes(tag[e], h)
        BY <2>6, <4>1, <4>2 DEF HeardOK
      <4>5. CASE e # d \/ e \in LiveDeployment(a)
        <5>1. e \in InFlight(a) /\ e # d => e \in InFlight(a)'
          BY <1>5, <1>6 DEF InFlight, Rows
        <5> QED
          BY <4>2, <4>4, <4>5, <5>1
      <4>6. CASE e = d
        <5>1. PICK m \in Marks(p, I) : ~Precedes(m, t)
          BY <1>11, <1>12, <2>3, <3>2 DEF Alone
        <5>2. PICK f \in LiveDeployment(a) : m = tag[f]
          BY <1>10, <5>1 DEF Marks
        <5>3. tag[f] # NoTag /\ IsVersion(m)
          BY <1>15, <5>2, LiveGood
        <5>4. ~Precedes(m, h)
          BY <1>8, <2>3, <4>3, <4>4, <4>6, <5>1, <5>3, VersionOrder
        <5> QED
          BY <4>2, <5>2, <5>3, <5>4
      <4> QED
        BY <4>5, <4>6
    <3> QED
      BY <3>1, <3>2
  <2> QED
    BY <1>0, <1>2, <1>3, <1>5, <1>7, <1>15, <2>4, <2>5, <2>6, RowStepCalm DEF Calm
<1>16. AppOK(a)'
  BY <1>1, <1>4, <1>7, <1>14, <1>15 DEF AppOK
<1>17. Within(a)
  BY <1>0, <1>2, <1>3, <1>5, OnlyRowFacts
<1> QED
  BY <1>16, <1>17, AllWell

\* A click takes the newest tag the policy has, which what is live does not exceed.
LEMMA PrepareClickStep ==
  ASSUME TagIInv, NEW d \in Dep, PrepareClick(d)
  PROVE  \A b \in App : AppOK(b)'
<1> USE StatusFacts, Tables
<1>1. /\ place[d] = "prepare" /\ ~event[d] /\ tag[d] = NoTag
      /\ loaded' = [loaded EXCEPT ![d] = Unloaded] /\ place' = [place EXCEPT ![d] = "build"]
      /\ owner' = owner /\ status' = status
      /\ UNCHANGED <<mode, policy, remote, hook, event, built, heard, excused, late>>
  BY DEF PrepareClick, Prepared, Goto, settings, rows
<1>0. status[d] \in {"building", "cancelled"}
  BY <1>1 DEF TagIInv, PlaceFits
<1>2. PICK a \in App : a = owner[d]
  BY <1>0, RowHasApp
<1>3. PICK t \in ClickTags(d) : tag' = [tag EXCEPT ![d] = t]
  BY DEF PrepareClick
<1>4. tag'[d] = t /\ \A e \in Dep : e # d => tag'[e] = tag[e]
  BY <1>3
<1>5. OnlyRow(d)
  BY <1>1, <1>4 DEF OnlyRow
<1>6. AppOK(a) /\ d \in Rows(a)
  BY <1>0, <1>2, RowHasApp DEF Rows
<1>7. HookOK(a)' /\ QueueOK(a)' /\ RetireOK(a)' /\ Frame(a) /\ RegressOK(a)'
  BY <1>0, <1>1, <1>2, <1>5, <1>6, RowStepKeeps
<1>8. ASSUME Calm(a) PROVE Calm(a)'
  <2>1. RowCalm(a, d)
    BY <1>6, <1>8 DEF Calm
  <2>2. PICK p : p = policy[a]
    OBVIOUS
  <2>3. loaded[d].policy = p
    BY <1>1, <2>1, <2>2 DEF RowCalm
  <2>4. \A e \in LiveDeployment(a) : Good(a, tag[e])
    BY <1>8, LiveGood
  <2>5. \/ t \in Newest(p, remote[a])
        \/ \E e \in LiveDeployment(a) : t = tag[e]
    BY <1>2, <1>3, <2>3 DEF ClickTags
  <2>6. Good(a, t)
    <3>1. t \in Newest(p, remote[a]) => Good(a, t)
      BY <2>2 DEF Newest, Good
    <3> QED
      BY <2>4, <2>5, <3>1
  <2>7. ASSUME NEW e \in LiveDeployment(a) PROVE ~Precedes(t, tag[e])
    <3>1. Good(a, tag[e]) /\ IsVersion(tag[e]) /\ IsVersion(t)
      BY <2>4, <2>6, GoodFacts
    <3>2. CASE t \in Newest(p, remote[a])
      <4>1. Compare(tag[e], t) <= 0
        BY <2>2, <3>1, <3>2 DEF Newest, Good
      <4> QED
        BY <3>1, <4>1, VersionOrder
    <3>3. ASSUME NEW f \in LiveDeployment(a), t = tag[f] PROVE ~Precedes(t, tag[e])
      <4>1. e = f
        BY DEF LiveDeployment, Rows, Dep
      <4> QED
        BY <3>1, <3>3, <4>1, VersionOrder
    <3> QED
      BY <2>5, <3>2, <3>3
  <2>8. RowCalm(a, d)'
    <3>1. Good(a, t)' /\ t # NoTag
      BY <1>1, <2>6, GoodFacts DEF Good
    <3>2. ~Unsettled(d)' /\ place'[d] # "prepare"
      BY <1>0, <1>1 DEF Unsettled
    <3> QED
      BY <1>4, <3>1, <3>2 DEF RowCalm, Unsettled
  <2>9. Ahead(a, d)'
    BY <1>4, <1>7, <2>7 DEF Ahead, Frame
  <2>10. HeardOK(a) => HeardOK(a)'
    BY <1>1, <1>2, <1>5, <1>7, HeardStays
  <2> QED
    BY <1>0, <1>1, <1>2, <1>5, <1>7, <1>8, <2>8, <2>9, <2>10, RowStepCalm DEF Calm
<1>9. AppOK(a)'
  BY <1>1, <1>6, <1>7, <1>8 DEF AppOK
<1>10. Within(a)
  BY <1>0, <1>1, <1>2, <1>5, OnlyRowFacts
<1> QED
  BY <1>9, <1>10, AllWell

\* Going live, an attempt is the last of its app that runs, and no older than what was
\* live before.
LEMMA ShipStep ==
  ASSUME TagIInv, NEW d \in Dep, Ship(d)
  PROVE  \A b \in App : AppOK(b)'
<1> USE StatusFacts, Tables
<1>1. /\ place[d] = "ship" /\ SetStatus(d, "deploying", "running") /\ place' = [place EXCEPT ![d] = "retire"]
      /\ UNCHANGED <<mode, policy, remote, hook, tag, event, built, loaded, heard, excused, late>>
  BY DEF Ship, Goto, settings, notes
<1>0. status[d] = "deploying"
  BY <1>1 DEF TagIInv, PlaceFits
<1>2. PICK a \in App : a = owner[d]
  BY <1>0, RowHasApp
<1>3. /\ owner' = owner /\ \A e \in Dep : e # d => status'[e] = status[e] /\ place'[e] = place[e]
      /\ status'[d] = "running" /\ place'[d] = "retire"
  BY <1>0, <1>1, SetStatusFacts
<1>4. OnlyRow(d)
  BY <1>1, <1>3 DEF OnlyRow
<1>5. AppOK(a) /\ Within(a) /\ Rows(a)' = Rows(a) /\ d \in Rows(a) /\ AtWork(d)
  BY <1>0, <1>1, <1>2, <1>3, <1>4, RowHasApp, OnlyRowFacts DEF AtWork
<1>6. ASSUME NEW e \in Rows(a), e # d PROVE ~AtWork(e)' /\ (status[e] = "running" => e < d)
  <2>1. e \in Dep /\ owner[e] = owner[d] /\ e < next
    <3>1. e \in Dep /\ owner[e] = a /\ status[e] # "absent"
      BY <1>6 DEF Rows
    <3> QED
      BY <1>2, <3>1, RowHasApp
  <2>2. ~IsActive(status[e])
    BY <1>0, <1>6, <2>1 DEF TagIInv, RowsInOrder, OneActivePerApp
  <2>3. d < e => status[e] \in {"queued", "cancelled"}
    BY <1>0, <2>1 DEF TagIInv, RowsInOrder
  <2> QED
    BY <1>3, <1>6, <2>1, <2>2, <2>3 DEF AtWork, Dep
<1>16. d <= d /\ d \in Nat
  BY DEF Dep
<1>7. RunningRows(a)' = RunningRows(a) \cup {d}
  BY <1>3, <1>5 DEF RunningRows, Rows
<1>8. LiveDeployment(a)' = {d}
  <2>1. \A e \in RunningRows(a)' : e <= d
    <3>1. ASSUME NEW e \in RunningRows(a)', e # d PROVE e <= d
      <4>1. e \in Rows(a) /\ status[e] = "running"
        BY <1>7, <3>1 DEF RunningRows
      <4>2. e < d /\ e \in Nat
        BY <1>6, <3>1, <4>1 DEF Rows, Dep
      <4> QED
        BY <1>16, <4>2
    <3> QED
      BY <1>16, <3>1
  <2>2. d \in RunningRows(a)' /\ \A e \in RunningRows(a)' : e \in Dep
    BY <1>7 DEF RunningRows, Rows
  <2>3. LiveDeployment(a)' = {e \in RunningRows(a)' : \A f \in RunningRows(a)' : f <= e}
    BY DEF LiveDeployment, RunningRows
  <2> QED
    BY <2>1, <2>2, <2>3 DEF Dep
<1>9. ~AtWork(d)'
  BY <1>3 DEF AtWork
<1>10. HookOK(a)'
  BY <1>1, <1>5 DEF HookOK, AppOK
<1>11. QueueOK(a)'
  <2>1. \A e \in InFlight(a)' : event'[e] => e \in InFlight(a) /\ event[e] /\ tag'[e] = tag[e]
    BY <1>1, <1>3, <1>5 DEF InFlight, Rows
  <2> QED
    BY <1>5, <2>1, QueueKeeps DEF AppOK
<1>12. RetireOK(a)'
  <2> SUFFICES ASSUME ~late'[a], NEW x \in Rows(a)', place'[x] = "retire"
               PROVE  \E z \in RunningRows(a)' : x <= z
    BY DEF RetireOK
  <2>1. CASE x = d
    BY <1>7, <1>16, <2>1
  <2>2. CASE x # d
    <3>1. x \in Rows(a) /\ place[x] = "retire" /\ ~late[a]
      BY <1>1, <1>3, <1>5, <2>2 DEF Rows
    <3>2. RetireOK(a)
      BY <1>5 DEF AppOK
    <3> QED
      BY <1>7, <3>1, <3>2 DEF RetireOK
  <2> QED
    BY <2>1, <2>2
<1>13. RegressOK(a)'
  BY <1>5, <1>6, <1>9 DEF RegressOK
<1>14. ASSUME Calm(a) PROVE Calm(a)'
  <2>1. SettingsCalm(a)' /\ \A e \in Rows(a) : e # d => RowCalm(a, e)'
    BY <1>2, <1>4, <1>14, OthersCalm
  <2>2. RowCalm(a, d)
    BY <1>5, <1>14 DEF Calm
  <2>3. tag[d] # NoTag /\ Good(a, tag[d]) /\ IsVersion(tag[d])
    <3>1. tag[d] # NoTag /\ Good(a, tag[d])
      BY <1>5, <2>2 DEF RowCalm
    <3> QED
      BY <3>1, GoodFacts
  <2>4. RowCalm(a, d)'
    <3>1. SettledTag(d) /\ ~Unsettled(d)' /\ place'[d] # "prepare"
      BY <1>3, <1>5 DEF SettledTag, Unsettled
    <3> QED
      BY <1>1, <2>2, <3>1, RowKeeps
  <2>5. \A e \in Rows(a) : Ahead(a, e)'
    BY <1>6, <1>9 DEF Ahead
  <2>6. ASSUME ~late[a] PROVE HeardOK(a)'
    <3> SUFFICES ASSUME heard'[a] # NoTag
                 PROVE  \E e \in LiveDeployment(a)' \cup InFlight(a)' : tag'[e] # NoTag /\ ~Precedes(tag'[e], heard'[a])
      BY DEF HeardOK
    <3>1. PICK h : h = heard[a]
      OBVIOUS
    <3>2. h # NoTag /\ heard'[a] = h /\ tag' = tag
      BY <1>1, <3>1
    <3>3. IsVersion(h)
      BY <1>14, <3>1, <3>2, GoodFacts DEF Calm, SettingsCalm
    <3>4. PICK e \in LiveDeployment(a) \cup InFlight(a) : tag[e] # NoTag /\ ~Precedes(tag[e], h)
      BY <1>14, <2>6, <3>1, <3>2 DEF HeardOK, Calm
    <3>5. CASE e = d
      BY <1>8, <3>2, <3>4, <3>5
    <3>6. CASE e \in InFlight(a) /\ e # d
      <4>1. e \in InFlight(a)'
        BY <1>3, <1>5, <3>6 DEF InFlight, Rows
      <4> QED
        BY <3>2, <3>4, <4>1
    <3>7. CASE e \in LiveDeployment(a)
      <4>1. IsVersion(tag[e])
        BY <1>14, <3>7, LiveGood
      <4>2. ~Precedes(tag[d], tag[e])
        BY <1>5, <1>14, <2>6, <3>7 DEF Calm, Ahead
      <4>3. ~Precedes(tag[d], h)
        BY <2>3, <3>3, <3>4, <4>1, <4>2, VersionOrder
      <4> QED
        BY <1>8, <2>3, <3>2, <4>3
    <3> QED
      BY <3>5, <3>6, <3>7
  <2> QED
    BY <1>1, <1>5, <2>1, <2>4, <2>5, <2>6 DEF Calm
<1>15. AppOK(a)'
  BY <1>1, <1>5, <1>10, <1>11, <1>12, <1>13, <1>14 DEF AppOK
<1> QED
  BY <1>5, <1>15, AllWell

\* Retiring the others changes nothing of what is live, unless it comes late.
LEMMA SupersedeStep ==
  ASSUME TagIInv, NEW d \in Dep, SupersedeOthers(d)
  PROVE  \A b \in App : AppOK(b)'
<1> USE StatusFacts, Tables
<1>1. /\ place[d] = "retire" /\ place' = [place EXCEPT ![d] = "none"]
      /\ late' = [late EXCEPT ![owner[d]] = @ \/ \E e \in Rows(owner[d]) : e > d /\ status[e] = "running"]
      /\ status' = [e \in Dep |-> IF e \in Rows(owner[d]) \ {d} /\ status[e] = "running"
                                  THEN "superseded" ELSE status[e]]
      /\ owner' = owner
      /\ UNCHANGED <<mode, policy, remote, hook, tag, event, built, loaded, heard, excused>>
  BY DEF SupersedeOthers, Retire, Goto, settings, notes
<1>0. status[d] \in {"running", "superseded"}
  BY <1>1 DEF TagIInv, PlaceFits
<1>2. PICK a \in App : a = owner[d]
  BY <1>0, RowHasApp
<1>3. AppOK(a) /\ d \in Rows(a)
  BY <1>0, <1>2, RowHasApp DEF Rows
<1>4. late'[a] <=> late[a] \/ \E e \in Rows(a) : e > d /\ status[e] = "running"
  BY <1>1, <1>2
<1>5. \A e \in Dep :
        /\ status'[e] = status[e] \/ (e \in Rows(a) /\ e # d /\ status[e] = "running" /\ status'[e] = "superseded")
        /\ e \in Rows(a) /\ e # d => status'[e] # "running"
        /\ place'[e] = IF e = d THEN "none" ELSE place[e]
  BY <1>1, <1>2
<1>6. Within(a)
  <2>1. \A e \in Dep : owner[e] = a \/ (status'[e] = status[e] /\ place'[e] = place[e])
    BY <1>2, <1>5 DEF Rows
  <2>2. \A b \in App : b # a => late'[b] = late[b]
    BY <1>1, <1>2
  <2> QED
    BY <1>1, <2>1, <2>2 DEF Within
<1>7. Rows(a)' = Rows(a) /\ InFlight(a)' = InFlight(a)
  <2>1. Rows(a)' = Rows(a)
    BY <1>1, <1>5 DEF Rows
  <2>2. \A e \in Rows(a) : status'[e] \in {"queued", "building", "deploying"} <=> status[e] \in {"queued", "building", "deploying"}
    BY <1>5 DEF Rows
  <2> QED
    BY <2>1, <2>2 DEF InFlight
<1>8. \A e \in Rows(a) : AtWork(e)' => AtWork(e)
  BY <1>5 DEF AtWork, Rows
<1>9. \A x, y \in Dep : x <= y <=> ~(y < x)
  BY DEF Dep
<1>10. ASSUME ~late'[a]
       PROVE  /\ RunningRows(a)' = {d} /\ LiveDeployment(a)' = {d} /\ LiveDeployment(a) = {d}
              /\ \A z \in RunningRows(a) : z <= d
  <2>1. ~late[a] /\ \A e \in RunningRows(a) : e <= d
    BY <1>4, <1>9, <1>10 DEF RunningRows, Rows
  <2>2. PICK z \in RunningRows(a) : d <= z
    BY <1>1, <1>3, <2>1 DEF AppOK, RetireOK
  <2>3. z = d /\ d \in RunningRows(a)
    <3>1. z \in Dep
      BY DEF RunningRows, Rows
    <3>2. z <= d
      BY <2>1
    <3>3. z = d
      BY <2>2, <3>1, <3>2 DEF Dep
    <3> QED
      BY <3>3
  <2>4. RunningRows(a)' = {d}
    <3>1. \A e \in Rows(a) : e \in Dep
      BY DEF Rows
    <3>2. status'[d] = "running"
      BY <1>5, <2>3 DEF RunningRows
    <3> QED
      BY <1>3, <1>5, <1>7, <3>1, <3>2 DEF RunningRows
  <2>5. LiveDeployment(a)' = {d}
    <3>1. LiveDeployment(a)' = {e \in RunningRows(a)' : \A f \in RunningRows(a)' : f <= e}
      BY DEF LiveDeployment, RunningRows
    <3>2. d <= d
      BY DEF Dep
    <3> QED
      BY <2>4, <3>1, <3>2
  <2>6. LiveDeployment(a) = {d}
    <3>1. LiveDeployment(a) = {e \in RunningRows(a) : \A f \in RunningRows(a) : f <= e}
      BY DEF LiveDeployment, RunningRows
    <3>2. \A e \in RunningRows(a) : d <= e => e = d
      BY <2>1 DEF RunningRows, Rows, Dep
    <3>3. \A e \in LiveDeployment(a) : e = d
      BY <2>3, <3>1, <3>2
    <3>4. d \in LiveDeployment(a)
      BY <2>1, <2>3, <3>1
    <3> QED
      BY <3>3, <3>4
  <2> QED
    BY <2>1, <2>4, <2>5, <2>6
<1>11. ~late'[a] => Frame(a)
  <2> SUFFICES ASSUME ~late'[a] PROVE Frame(a)
    OBVIOUS
  <2>1. LiveDeployment(a)' = LiveDeployment(a)
    BY <1>10
  <2>2. ~late[a]
    BY <1>4
  <2>3. late'[a] = late[a]
    <3>1. late[a] \in BOOLEAN /\ late \in [App -> BOOLEAN]
      BY DEF TagIInv, TagTypeOK
    <3>2. late'[a] = (late[a] \/ \E e \in Rows(a) : e > d /\ status[e] = "running")
      BY <1>1, <1>2, <3>1
    <3> QED
      BY <2>2, <3>1, <3>2
  <2>4. tag' = tag
    BY <1>1
  <2> QED
    BY <2>1, <2>3, <2>4 DEF Frame
<1>12. HookOK(a)'
  BY <1>1, <1>3 DEF HookOK, AppOK
<1>13. QueueOK(a)'
  BY <1>1, <1>3, <1>7, QueueKeeps DEF AppOK
<1>14. RetireOK(a)'
  <2> SUFFICES ASSUME ~late'[a], NEW x \in Rows(a)', place'[x] = "retire"
               PROVE  x <= d /\ d \in RunningRows(a)'
    BY DEF RetireOK
  <2>1. x \in Rows(a) /\ place[x] = "retire" /\ ~late[a]
    BY <1>4, <1>5, <1>7 DEF Rows
  <2>2. PICK z \in RunningRows(a) : x <= z
    BY <1>3, <2>1 DEF AppOK, RetireOK
  <2>3. z <= d
    BY <1>10
  <2> QED
    BY <1>10, <2>1, <2>2, <2>3 DEF RunningRows, Rows, Dep
<1>15. RegressOK(a)'
  <2>1. CASE late'[a]
    BY <2>1 DEF RegressOK
  <2>2. CASE ~late'[a]
    BY <1>1, <1>3, <1>7, <1>8, <1>11, <2>2, RegressKeeps DEF AppOK
  <2> QED
    BY <2>1, <2>2
<1>16. ASSUME Calm(a) PROVE Calm(a)'
  <2>1. SettingsCalm(a)'
    BY <1>1, <1>16, SettingsKeep DEF Calm
  <2>2. ASSUME NEW e \in Rows(a) PROVE RowCalm(a, e)'
    <3>1. e \in Dep
      BY <2>2 DEF Rows
    <3>2. (SettledTag(e)' => SettledTag(e)) /\ (Unsettled(e)' => Unsettled(e)) /\ (place'[e] = "prepare" => place[e] = "prepare")
      BY <1>5, <1>8, <2>2, <3>1 DEF SettledTag, Unsettled
    <3>3. RowCalm(a, e)
      BY <1>16, <2>2 DEF Calm
    <3> QED
      BY <1>1, <3>2, <3>3, RowKeeps
  <2>3. ASSUME ~late'[a] PROVE HeardOK(a)' /\ \A e \in Rows(a) : Ahead(a, e)'
    <3>1. ~late[a] /\ Frame(a)
      BY <1>4, <1>11, <2>3
    <3>2. HeardOK(a) /\ \A e \in Rows(a) : Ahead(a, e)
      BY <1>16, <3>1 DEF Calm
    <3>3. HeardOK(a)'
      BY <1>1, <1>7, <3>1, <3>2, HeardKeeps
    <3>4. ASSUME NEW e \in Rows(a) PROVE Ahead(a, e)'
      BY <1>1, <1>8, <3>1, <3>2, <3>4, AheadKeeps
    <3> QED
      BY <3>3, <3>4
  <2> QED
    BY <1>7, <2>1, <2>2, <2>3 DEF Calm
<1>17. AppOK(a)'
  BY <1>1, <1>3, <1>12, <1>13, <1>14, <1>15, <1>16 DEF AppOK
<1> QED
  BY <1>6, <1>17, AllWell

\* A restart excuses the apps whose attempts it fails, and only them.
LEMMA RestartStep ==
  ASSUME TagIInv, Restart
  PROVE  \A b \in App : AppOK(b)'
<1> USE StatusFacts, Tables
<1>1. /\ status' = [d \in Dep |-> IF IsActive(status[d]) THEN "failed" ELSE status[d]]
      /\ place' = [d \in Dep |-> "none"] /\ hook' = [a \in App |-> NoHook] /\ owner' = owner
      /\ excused' = [a \in App |-> excused[a] \/ \E d \in Rows(a) : IsActive(status[d])]
      /\ UNCHANGED <<mode, policy, remote, tag, event, built, heard, late>>
  BY DEF Restart, Recover, settings, notes
<1> SUFFICES ASSUME NEW a \in App PROVE AppOK(a)'
  OBVIOUS
<1>2. AppOK(a)
  BY DEF TagIInv
<1>3. \A d \in Dep : place'[d] = "none" /\ status'[d] = IF IsActive(status[d]) THEN "failed" ELSE status[d]
  BY <1>1
<1>4. Rows(a)' = Rows(a) /\ \A d \in Rows(a) : d \in Dep
  BY <1>1, <1>3 DEF Rows
<1>5. RunningRows(a)' = RunningRows(a)
  BY <1>3, <1>4 DEF RunningRows
<1>6. LiveDeployment(a)' = LiveDeployment(a) /\ Frame(a)
  BY <1>1, <1>5, LiveFromRunning DEF Frame
<1>7. \A d \in Dep : ~AtWork(d)'
  BY <1>3 DEF AtWork
<1>8. HookOK(a)'
  BY <1>1 DEF HookOK, NoHook
<1>9. QueueOK(a)'
  <2>1. \A d \in InFlight(a)' : event'[d] => d \in InFlight(a) /\ event[d] /\ tag'[d] = tag[d]
    BY <1>1, <1>3, <1>4 DEF InFlight
  <2> QED
    BY <1>2, <2>1, QueueKeeps DEF AppOK
<1>10. RetireOK(a)'
  BY <1>3, <1>4 DEF RetireOK
<1>11. RegressOK(a)'
  BY <1>4, <1>7 DEF RegressOK
<1>12. ASSUME Calm(a), ~excused'[a] PROVE Calm(a)'
  <2>1. \A d \in Rows(a) : ~IsActive(status[d]) /\ status'[d] = status[d]
    BY <1>1, <1>3, <1>4, <1>12
  <2>2. SettingsCalm(a)'
    BY <1>1, <1>12, SettingsKeep DEF Calm
  <2>3. ASSUME NEW d \in Rows(a) PROVE RowCalm(a, d)'
    <3>1. (SettledTag(d)' => SettledTag(d)) /\ (Unsettled(d)' => Unsettled(d)) /\ place'[d] # "prepare"
      BY <1>3, <1>4, <1>7, <2>1, <2>3 DEF SettledTag, Unsettled
    <3>2. RowCalm(a, d)
      BY <1>12, <2>3 DEF Calm
    <3> QED
      BY <1>1, <3>1, <3>2, RowKeeps
  <2>4. HeardOK(a) => HeardOK(a)'
    <3>1. \A e \in InFlight(a) : e \in InFlight(a)'
      BY <1>4, <2>1 DEF InFlight
    <3> QED
      BY <1>1, <1>6, <3>1, HeardKeeps
  <2>5. \A d \in Rows(a) : Ahead(a, d)'
    BY <1>4, <1>7 DEF Ahead
  <2> QED
    BY <1>1, <1>4, <1>12, <2>2, <2>3, <2>4, <2>5 DEF Calm
<1> QED
  BY <1>1, <1>2, <1>8, <1>9, <1>10, <1>11, <1>12 DEF AppOK

-----------------------------------------------------------------------------
(* The handlers. *)

\* Where no row changes, what its rows promise stays.
LEMMA RowsStill ==
  ASSUME NEW a, AppOK(a), UNCHANGED <<owner, status, tag, event, place, late>>
  PROVE  /\ Rows(a)' = Rows(a) /\ InFlight(a)' = InFlight(a) /\ Frame(a)
         /\ \A d : AtWork(d)' <=> AtWork(d)
         /\ QueueOK(a)' /\ RetireOK(a)' /\ RegressOK(a)'
<1>1. Rows(a)' = Rows(a)
  BY DEF Rows, Dep
<1>2. InFlight(a)' = InFlight(a) /\ RunningRows(a)' = RunningRows(a) /\ LiveDeployment(a)' = LiveDeployment(a)
  BY <1>1 DEF InFlight, RunningRows, LiveDeployment
<1>3. \A d : AtWork(d)' <=> AtWork(d)
  BY DEF AtWork
<1>4. Frame(a)
  BY <1>2 DEF Frame
<1>5. QueueOK(a)'
  BY <1>2, QueueKeeps DEF AppOK
<1>6. RetireOK(a)'
  BY <1>1, <1>2, RetireKeeps DEF AppOK
<1>7. RegressOK(a)'
  BY <1>1, <1>3, <1>4, RegressKeeps DEF AppOK
<1> QED
  BY <1>1, <1>2, <1>3, <1>4, <1>5, <1>6, <1>7

\* And its calm, if the settings stay calm and the releases heard of are on their way.
LEMMA CalmStill ==
  ASSUME NEW a, AppOK(a), Calm(a), UNCHANGED <<owner, status, tag, event, built, place, loaded, late>>,
         policy'[a] = policy[a], remote[a] \subseteq remote'[a],
         SettingsCalm(a)', ~late[a] => HeardOK(a)'
  PROVE  Calm(a)'
<1>1. Rows(a)' = Rows(a) /\ Frame(a) /\ \A d : AtWork(d)' <=> AtWork(d)
  BY RowsStill
<1>2. ASSUME NEW d \in Rows(a) PROVE RowCalm(a, d)'
  <2>1. RowCalm(a, d)
    BY <1>2 DEF Calm
  <2>2. (SettledTag(d)' => SettledTag(d)) /\ (Unsettled(d)' => Unsettled(d))
    BY <1>1 DEF SettledTag, Unsettled
  <2> QED
    BY <2>1, <2>2, RowKeeps
<1>3. ASSUME NEW d \in Rows(a), ~late[a] PROVE Ahead(a, d)'
  <2>1. Ahead(a, d)
    BY <1>3 DEF Calm
  <2> QED
    BY <1>1, <2>1, AheadKeeps
<1> QED
  BY <1>1, <1>2, <1>3 DEF Calm

\* A tag in the repository is not yet an event.
LEMMA PushTagStep ==
  ASSUME TagIInv, NEW a \in App, NEW t \in Tag, PushTag(a, t)
  PROVE  \A b \in App : AppOK(b)'
<1>1. /\ remote' = [remote EXCEPT ![a] = @ \cup {t}] /\ remote \in [App -> SUBSET Tag]
      /\ UNCHANGED <<owner, status, mode, policy, hook, tag, event, built, place, loaded, heard, excused, late>>
  BY DEF PushTag, rows, settings, notes, TagIInv, TagTypeOK
<1>2. \A b \in App : remote[b] \subseteq remote'[b]
  BY <1>1
<1>3. \A b \in App : Still(b)
  BY <1>1, <1>2 DEF Still
<1> QED
  BY <1>3, StillKeeps DEF TagIInv

\* A handler holds pushed tags and the app's policy.
LEMMA HearStep ==
  ASSUME TagIInv, NEW A \in SUBSET App, NEW s \in Pushes, Hear(A, s)
  PROVE  \A b \in App : AppOK(b)'
<1> SUFFICES ASSUME NEW a \in App PROVE AppOK(a)'
  OBVIOUS
<1>1. /\ hook' = [b \in App |-> IF b \in A THEN [pushed |-> s, policy |-> policy[b]] ELSE hook[b]]
      /\ \A b \in A : hook[b] = NoHook /\ \A i \in DOMAIN s : s[i] \in remote[b]
      /\ UNCHANGED <<owner, status, mode, policy, remote, tag, event, built, place, loaded, heard, excused, late>>
  BY DEF Hear, rows, settings, notes
<1>2. AppOK(a)
  BY DEF TagIInv
<1>3. hook'[a] = IF a \in A THEN [pushed |-> s, policy |-> policy[a]] ELSE hook[a]
  BY <1>1
<1>4. HookOK(a)'
  BY <1>1, <1>2, <1>3 DEF HookOK, AppOK
<1>5. InFlight(a)' = InFlight(a) /\ Frame(a) /\ QueueOK(a)' /\ RetireOK(a)' /\ RegressOK(a)'
  BY <1>1, <1>2, RowsStill
<1>6. ASSUME Calm(a) PROVE Calm(a)'
  <2>1. SettingsCalm(a)'
    BY <1>1, <1>3, <1>6 DEF Calm, SettingsCalm, Good
  <2>2. HeardOK(a) => HeardOK(a)'
    BY <1>1, <1>5, HeardKeeps
  <2> QED
    BY <1>1, <1>2, <1>6, <2>1, <2>2, CalmStill DEF Calm
<1> QED
  BY <1>1, <1>2, <1>4, <1>5, <1>6 DEF AppOK

\* New settings excuse their app.
LEMMA UpdateStep ==
  ASSUME TagIInv, NEW a \in App, NEW m, NEW p, UpdateAppSettings(a, m, p)
  PROVE  \A b \in App : AppOK(b)'
<1>1. /\ mode' = [mode EXCEPT ![a] = m] /\ policy' = [policy EXCEPT ![a] = p]
      /\ excused' = [excused EXCEPT ![a] = TRUE]
      /\ UNCHANGED <<owner, status, remote, hook, tag, event, built, place, loaded, heard, late>>
  BY DEF UpdateAppSettings, rows, notes
<1>2. AppOK(a)
  BY DEF TagIInv
<1>3. \A b \in App : b # a => mode'[b] = mode[b] /\ policy'[b] = policy[b] /\ excused'[b] = excused[b]
  BY <1>1 DEF TagIInv, TagTypeOK
<1>4. Within(a)
  BY <1>1, <1>3 DEF Within
<1>5. excused'[a]
  BY <1>1, Tables
<1>6. HookOK(a)' /\ QueueOK(a)' /\ RetireOK(a)' /\ RegressOK(a)'
  BY <1>1, <1>2, RowsStill DEF HookOK, AppOK
<1> QED
  BY <1>4, <1>5, <1>6, AllWell DEF AppOK

-----------------------------------------------------------------------------
(* New attempts. *)

\* A new row is the last of its app, waits, and changes nothing of what is live.
Grown(a, n, t, ev, im) ==
  /\ n \in Dep /\ n \notin Rows(a) /\ Rows(a)' = Rows(a) \cup {n}
  /\ InFlight(a)' = InFlight(a) \cup {n} /\ \A d \in Rows(a) : d \in Dep /\ d # n /\ d < n
  /\ Frame(a) /\ RetireOK(a)' /\ RegressOK(a)' /\ owner[n] = NoApp
  /\ \A d \in Rows(a) : /\ status'[d] = status[d] /\ tag'[d] = tag[d] /\ event'[d] = event[d]
                        /\ built'[d] = built[d] /\ (AtWork(d)' <=> AtWork(d))
  /\ status'[n] = "queued" /\ tag'[n] = t /\ event'[n] = ev /\ built'[n] = im
  /\ place'[n] = "none" /\ ~AtWork(n)'

\* That is what an insert makes of an app.
LEMMA Inserted ==
  ASSUME TagIInv, NEW a \in App, NEW t, NEW ev, NEW im, NEW n, n = next, Recorded(a, t, ev, im),
         place' = place, late' = late
  PROVE  Grown(a, n, t, ev, im)
<1> USE StatusFacts
<1>0. AppOK(a)
  BY DEF TagIInv
<1>1. /\ n \in Dep /\ owner'[n] = a /\ status'[n] = "queued"
      /\ tag'[n] = t /\ event'[n] = ev /\ built'[n] = im
      /\ \A d \in Dep : d # n =>
           /\ owner'[d] = owner[d] /\ status'[d] = status[d]
           /\ tag'[d] = tag[d] /\ event'[d] = event[d] /\ built'[d] = built[d]
  BY DEF Recorded, Dep
<1>2. owner[n] = NoApp /\ status[n] = "absent"
  BY <1>1 DEF TagIInv, RowsInOrder, Dep
<1>3. n \notin Rows(a) /\ \A d \in Rows(a) : d \in Dep /\ d # n /\ d < n
  <2>1. ASSUME NEW d \in Rows(a) PROVE d \in Dep /\ status[d] # "absent"
    BY <2>1 DEF Rows
  <2>2. ASSUME NEW d \in Rows(a) PROVE d < n
    BY <2>1, <2>2 DEF TagIInv, RowsInOrder
  <2> QED
    BY <1>2, <2>1, <2>2
<1>4. Rows(a)' = Rows(a) \cup {n}
  BY <1>1, <1>3 DEF Rows, Dep
<1>5. \A d \in Rows(a) : /\ status'[d] = status[d] /\ tag'[d] = tag[d] /\ event'[d] = event[d]
                         /\ built'[d] = built[d]
  BY <1>1, <1>3
<1>6. InFlight(a)' = InFlight(a) \cup {n}
  BY <1>1, <1>4, <1>5 DEF InFlight
<1>7. RunningRows(a)' = RunningRows(a)
  BY <1>1, <1>4, <1>5 DEF RunningRows
<1>8. LiveDeployment(a)' = LiveDeployment(a)
  BY <1>7, LiveFromRunning
<1>9. Frame(a)
  BY <1>5, <1>8 DEF Frame, LiveDeployment
<1>10. place'[n] = "none"
  BY <1>1, <1>2 DEF TagIInv, PlaceFits
<1>11. ~AtWork(n)' /\ \A d \in Rows(a) : AtWork(d)' <=> AtWork(d)
  BY <1>1, <1>5 DEF AtWork
<1>12. RetireOK(a)'
  <2>1. \A d \in Rows(a)' : place'[d] = "retire" => d \in Rows(a) /\ place[d] = "retire"
    BY <1>4, <1>10
  <2> QED
    BY <1>0, <1>7, <2>1, RetireKeeps DEF AppOK
<1>13. RegressOK(a)'
  <2>1. \A d \in Rows(a)' : event'[d] /\ AtWork(d)' =>
            d \in Rows(a) /\ event[d] /\ AtWork(d) /\ tag'[d] = tag[d]
    BY <1>4, <1>5, <1>11
  <2> QED
    BY <1>0, <1>9, <2>1, RegressKeeps DEF AppOK
<1> QED
  BY <1>1, <1>2, <1>3, <1>4, <1>5, <1>6, <1>9, <1>10, <1>11, <1>12, <1>13 DEF Grown

\* An insert is within its app.
LEMMA InsertWithin ==
  ASSUME TagIInv, NEW a \in App, NEW t, NEW ev, NEW im, Recorded(a, t, ev, im),
         UNCHANGED <<place, loaded>>,
         \A b \in App : b # a =>
           /\ mode'[b] = mode[b] /\ policy'[b] = policy[b] /\ hook'[b] = hook[b] /\ heard'[b] = heard[b]
           /\ excused'[b] = excused[b] /\ late'[b] = late[b] /\ remote[b] \subseteq remote'[b]
  PROVE  Within(a)
<1>1. owner[next] = NoApp /\ owner'[next] = a
  BY DEF Recorded, TagIInv, RowsInOrder, Dep
<1>2. \A d \in Dep : d # next =>
        /\ owner'[d] = owner[d] /\ status'[d] = status[d]
        /\ tag'[d] = tag[d] /\ event'[d] = event[d] /\ built'[d] = built[d]
  BY DEF Recorded
<1> QED
  BY <1>1, <1>2 DEF Within

\* The other rows of an app that gets one are as calm as they were.
LEMMA InsertCalm ==
  ASSUME TagIInv, NEW a \in App, NEW t, NEW ev, NEW im, NEW n, n = next, Recorded(a, t, ev, im), Calm(a),
         place' = place, loaded' = loaded, late' = late, remote' = remote, policy'[a] = policy[a],
         SettingsCalm(a)', RowCalm(a, n)', ~late[a] => HeardOK(a)'
  PROVE  Calm(a)'
<1>1. /\ Rows(a)' = Rows(a) \cup {n} /\ Frame(a) /\ ~AtWork(n)'
      /\ \A d \in Rows(a) : /\ status'[d] = status[d] /\ tag'[d] = tag[d] /\ event'[d] = event[d]
                            /\ built'[d] = built[d] /\ (AtWork(d)' <=> AtWork(d))
  BY Inserted DEF Grown
<1>2. ASSUME NEW d \in Rows(a) PROVE RowCalm(a, d)'
  <2>1. RowCalm(a, d)
    BY <1>2 DEF Calm
  <2>2. (SettledTag(d)' => SettledTag(d)) /\ (Unsettled(d)' => Unsettled(d))
    BY <1>1, <1>2 DEF SettledTag, Unsettled
  <2> QED
    BY <1>1, <1>2, <2>1, <2>2, RowKeeps
<1>3. ASSUME NEW d \in Rows(a), ~late[a] PROVE Ahead(a, d)'
  <2>1. Ahead(a, d)
    BY <1>3 DEF Calm
  <2> QED
    BY <1>1, <1>3, <2>1, AheadKeeps
<1>4. Ahead(a, n)'
  BY <1>1 DEF Ahead
<1> QED
  BY <1>1, <1>2, <1>3, <1>4 DEF Calm

\* A release on its way stays so when a row comes.
LEMMA InsertHeard ==
  ASSUME TagIInv, NEW a \in App, NEW t, NEW ev, NEW im, Recorded(a, t, ev, im),
         place' = place, late' = late, HeardOK(a), heard'[a] = heard[a]
  PROVE  HeardOK(a)'
<1>0. PICK n : n = next
  OBVIOUS
<1>1. /\ InFlight(a)' = InFlight(a) \cup {n} /\ Frame(a)
      /\ \A d \in Rows(a) : tag'[d] = tag[d]
  BY <1>0, Inserted DEF Grown
<1>2. \A e \in InFlight(a) : e \in InFlight(a)' /\ tag'[e] = tag[e]
  BY <1>1 DEF InFlight
<1> QED
  BY <1>1, <1>2, HeardKeeps

\* A click waits without a tag.
LEMMA CreateDeploymentStep ==
  ASSUME TagIInv, NEW a \in App, CreateDeployment(a)
  PROVE  \A b \in App : AppOK(b)'
<1>1. UNCHANGED <<mode, policy, remote, hook, place, loaded, heard, excused, late>>
  BY DEF CreateDeployment, settings
<1>2. Recorded(a, NoTag, FALSE, FALSE)
  BY RecordFacts DEF CreateDeployment, TagIInv
<1>0. PICK n : n = next
  OBVIOUS
<1>3. AppOK(a)
  BY DEF TagIInv
<1>4. Within(a)
  BY <1>1, <1>2, InsertWithin
<1>20. Grown(a, n, NoTag, FALSE, FALSE)
  BY <1>0, <1>1, <1>2, Inserted
<1>5. /\ InFlight(a)' = InFlight(a) \cup {n} /\ RetireOK(a)' /\ RegressOK(a)'
      /\ \A d \in Rows(a) : tag'[d] = tag[d] /\ event'[d] = event[d]
      /\ tag'[n] = NoTag /\ event'[n] = FALSE /\ built'[n] = FALSE
      /\ status'[n] = "queued" /\ place'[n] = "none" /\ ~AtWork(n)'
  BY <1>20 DEF Grown
<1>6. HookOK(a)'
  BY <1>1, <1>3 DEF HookOK, AppOK
<1>7. QueueOK(a)'
  <2>1. \A d \in InFlight(a)' : event'[d] => d \in InFlight(a) /\ event[d] /\ tag'[d] = tag[d]
    BY <1>5 DEF InFlight
  <2> QED
    BY <1>3, <2>1, QueueKeeps DEF AppOK
<1>8. ASSUME Calm(a) PROVE Calm(a)'
  <2>1. SettingsCalm(a)'
    BY <1>1, <1>8, SettingsKeep DEF Calm
  <2>2. RowCalm(a, n)'
    BY <1>5 DEF RowCalm
  <2>3. HeardOK(a) => HeardOK(a)'
    BY <1>1, <1>2, InsertHeard
  <2> QED
    BY <1>0, <1>1, <1>2, <1>8, <2>1, <2>2, <2>3, InsertCalm DEF Calm
<1> QED
  BY <1>1, <1>3, <1>4, <1>5, <1>6, <1>7, <1>8, AllWell DEF AppOK

\* A rollback excuses its app.
LEMMA CreateRollbackStep ==
  ASSUME TagIInv, NEW d \in Dep, CreateRollback(d)
  PROVE  \A b \in App : AppOK(b)'
<1>1. /\ UNCHANGED <<mode, policy, remote, hook, place, loaded, heard, late>>
      /\ excused' = [excused EXCEPT ![owner[d]] = TRUE] /\ status[d] # "absent"
  BY DEF CreateRollback, settings
<1>2. PICK a \in App : a = owner[d]
  BY <1>1, RowHasApp
<1>0. PICK n : n = next
  OBVIOUS
<1>3. AppOK(a)
  BY DEF TagIInv
<1>4. PICK t \in Tag \cup {NoTag} : t = tag[d]
  BY Tables
<1>5. Recorded(a, t, FALSE, TRUE)
  BY <1>2, <1>4, RecordFacts DEF CreateRollback, TagIInv
<1>6. excused'[a] /\ \A b \in App : b # a => excused'[b] = excused[b]
  BY <1>1, <1>2, Tables
<1>7. Within(a)
  BY <1>1, <1>5, <1>6, InsertWithin
<1>20. Grown(a, n, t, FALSE, TRUE)
  BY <1>0, <1>1, <1>5, Inserted
<1>8. /\ InFlight(a)' = InFlight(a) \cup {n} /\ RetireOK(a)' /\ RegressOK(a)'
      /\ \A e \in Rows(a) : tag'[e] = tag[e] /\ event'[e] = event[e]
      /\ event'[n] = FALSE
  BY <1>20 DEF Grown
<1>9. HookOK(a)'
  BY <1>1, <1>3 DEF HookOK, AppOK
<1>10. QueueOK(a)'
  <2>1. \A e \in InFlight(a)' : event'[e] => e \in InFlight(a) /\ event[e] /\ tag'[e] = tag[e]
    BY <1>8 DEF InFlight
  <2> QED
    BY <1>3, <2>1, QueueKeeps DEF AppOK
<1> QED
  BY <1>6, <1>7, <1>8, <1>9, <1>10, AllWell DEF AppOK

\* What a tag event is decided on: its tags have been pushed, and are weighed against
\* those in play.
LEMMA ServeDecides ==
  ASSUME TagIInv, NEW a \in App, serveTagPush(a), NEW p, p = hook[a].policy
  PROVE  \E s \in Seq(Tag), I \in SUBSET Tag, t \in Tag \cup {NoTag} :
           /\ s = hook[a].pushed /\ I = InPlay(a) /\ t = Decide(p, s, I)
           /\ Decided(p, s, I, t) /\ \A i \in DOMAIN s : s[i] \in remote[a]
<1>0. hook[a] # NoHook /\ TagTypeOK /\ HookOK(a)
  BY DEF serveTagPush, TagIInv, AppOK
<1>1. PICK s \in Seq(Tag) : s = hook[a].pushed
  BY <1>0, HookFacts
<1>2. PICK I \in SUBSET Tag : I = InPlay(a)
  BY <1>0, InPlayTags
<1>3. PICK t \in Tag \cup {NoTag} : t = Decide(p, s, I)
  BY <1>0, <1>1, <1>2, DecidedTag
<1>4. Decided(p, s, I, t)
  BY <1>3, DecideFacts
<1>5. \A i \in DOMAIN s : s[i] \in remote[a]
  BY <1>0, <1>1 DEF HookOK
<1> QED
  BY <1>1, <1>2, <1>3, <1>4, <1>5

\* What is in play is live or on its way.
LEMMA InPlayHas ==
  ASSUME NEW a, NEW p, NEW m \in Marks(p, InPlay(a))
  PROVE  \E e \in LiveDeployment(a) \cup InFlight(a) : m = tag[e] /\ tag[e] # NoTag
BY DEF Marks, InPlay

\* A served tag event leaves the app's events in version order, and every release it
\* brought on its way or overtaken.
LEMMA ServeStep ==
  ASSUME TagIInv, NEW a \in App, serveTagPush(a)
  PROVE  \A b \in App : AppOK(b)'
<1> USE Tables
<1>1. /\ hook[a] # NoHook /\ hook' = [hook EXCEPT ![a] = NoHook]
      /\ UNCHANGED <<mode, policy, remote, place, loaded, late>>
  BY DEF serveTagPush, settings
<1>2. PICK p : p = hook[a].policy
  OBVIOUS
<1>3. PICK s \in Seq(Tag), I \in SUBSET Tag, t \in Tag \cup {NoTag} :
        /\ s = hook[a].pushed /\ I = InPlay(a) /\ t = Decide(p, s, I)
        /\ Decided(p, s, I, t) /\ \A i \in DOMAIN s : s[i] \in remote[a]
  BY <1>2, ServeDecides
<1>4. PICK N : N = Newest(p, Carried(s) \cup ({heard[a]} \ {NoTag}))
  OBVIOUS
<1>5. \/ \E h \in N : heard' = [heard EXCEPT ![a] = h]
      \/ heard' = heard
  BY <1>2, <1>3, <1>4 DEF serveTagPush
<1>6. \/ /\ t # NoTag /\ Record(a, t, TRUE, FALSE)
         /\ excused' = [excused EXCEPT ![a] = @ \/ ~t.parses]
      \/ t = NoTag /\ UNCHANGED <<owner, status, tag, event, built, excused>>
  BY <1>2, <1>3 DEF serveTagPush, EnqueueTagDeployment, rows, notes
<1>7. t # NoTag => Recorded(a, t, TRUE, FALSE)
  BY <1>6, RecordFacts DEF TagIInv
<1>0. PICK n : n = next
  OBVIOUS
<1>8. AppOK(a)
  BY DEF TagIInv
<1>20. t # NoTag => Grown(a, n, t, TRUE, FALSE)
  BY <1>0, <1>1, <1>7, Inserted
<1>9. /\ hook'[a] = NoHook
      /\ \A b \in App : b # a => hook'[b] = hook[b] /\ heard'[b] = heard[b] /\ excused'[b] = excused[b]
  BY <1>1, <1>5, <1>6 DEF TagIInv, TagTypeOK
<1>10. HookOK(a)'
  BY <1>9 DEF HookOK, NoHook
<1>11. Within(a)
  <2>1. CASE t # NoTag
    BY <1>1, <1>7, <1>9, <2>1, InsertWithin
  <2>2. CASE t = NoTag
    BY <1>1, <1>6, <1>9, <2>2 DEF Within
  <2> QED
    BY <2>1, <2>2
<1>12. RetireOK(a)' /\ RegressOK(a)' /\ Frame(a)
  <2>1. CASE t # NoTag
    BY <1>20, <2>1 DEF Grown
  <2>2. CASE t = NoTag
    BY <1>1, <1>6, <1>8, <2>2, RowsStill
  <2> QED
    BY <2>1, <2>2
<1>13. QueueOK(a)'
  <2>1. CASE t = NoTag
    BY <1>1, <1>6, <1>8, <2>1, RowsStill
  <2>2. CASE t # NoTag
    <3>1. /\ n \in Dep /\ InFlight(a)' = InFlight(a) \cup {n}
          /\ \A d \in Rows(a) : d \in Dep /\ d < n /\ tag'[d] = tag[d] /\ event'[d] = event[d]
          /\ tag'[n] = t
      BY <1>20, <2>2 DEF Grown
    <3>2. Eligible(p, t) /\ (t.parses => \A m \in Marks(p, I) : Precedes(m, t))
      BY <1>3, <2>2 DEF Decided
    <3>3. ASSUME NEW d \in InFlight(a), Comparable(tag[d], t) PROVE Newer(t, tag[d])
      <4>1. tag[d].parses /\ t.parses /\ tag[d].line = t.line
        BY <3>3 DEF Comparable
      <4>2. tag[d] # NoTag /\ MatchGlob(p, tag[d])
        BY <3>2, <4>1, TagFacts DEF Eligible, MatchGlob
      <4>3. tag[d] \in I
        BY <1>3, <4>2 DEF InPlay
      <4>4. Precedes(tag[d], t)
        BY <3>2, <4>1, <4>2, <4>3 DEF Marks
      <4> QED
        BY <4>1, <4>4 DEF Newer, Comparable
    <3>4. ASSUME NEW d \in InFlight(a)', NEW e \in InFlight(a)', d < e, event'[d], event'[e],
                 Comparable(tag'[d], tag'[e])
          PROVE  Newer(tag'[e], tag'[d])
      <4>0. InFlight(a) \subseteq Rows(a)
        BY DEF InFlight
      <4>1. d # n
        <5>1. ASSUME d = n PROVE FALSE
          <6>1. n < e /\ n \in Nat
            BY <3>1, <3>4, <5>1 DEF Dep
          <6>2. e # n
            BY <6>1
          <6>3. e \in Rows(a)
            BY <3>1, <3>4, <4>0, <6>2
          <6>4. e < n /\ e \in Nat
            BY <3>1, <6>3 DEF Dep
          <6> QED
            BY <6>1, <6>4
        <5> QED
          BY <5>1
      <4>2. d \in InFlight(a) /\ tag'[d] = tag[d] /\ event'[d] = event[d]
        BY <3>1, <3>4, <4>0, <4>1
      <4>3. CASE e = n
        BY <3>1, <3>3, <3>4, <4>2, <4>3
      <4>4. CASE e # n
        <5>1. e \in InFlight(a) /\ tag'[e] = tag[e] /\ event'[e] = event[e]
          BY <3>1, <3>4, <4>0, <4>4
        <5> QED
          BY <1>8, <3>4, <4>2, <5>1 DEF AppOK, QueueOK
      <4> QED
        BY <4>3, <4>4
    <3> QED
      BY <3>4 DEF QueueOK
  <2> QED
    BY <2>1, <2>2
<1>14. ASSUME Calm(a), ~excused'[a] PROVE Calm(a)'
  <2>1. p = policy[a] /\ SettingsCalm(a)
    BY <1>1, <1>2, <1>14 DEF Calm, SettingsCalm
  <2>2. t # NoTag => t.parses
    BY <1>6, <1>14
  <2>3. heard'[a] = heard[a] \/ \E j \in Candidates(p, s) : heard'[a] = s[j]
    <3>1. ASSUME NEW h \in N, heard' = [heard EXCEPT ![a] = h]
          PROVE  h = heard[a] \/ \E j \in Candidates(p, s) : h = s[j]
      <4>1. h \in Carried(s) \/ h = heard[a]
        BY <1>4, <3>1 DEF Newest
      <4>2. Eligible(p, h) /\ h.parses
        BY <1>4, <3>1 DEF Newest
      <4>3. h \in Carried(s) => \E j \in Candidates(p, s) : h = s[j]
        BY <4>2 DEF Carried, Candidates
      <4> QED
        BY <4>1, <4>3
    <3>2. \A h : heard' = [heard EXCEPT ![a] = h] => heard'[a] = h
      BY DEF TagIInv, TagTypeOK
    <3> QED
      BY <1>5, <3>1, <3>2
  <2>4. \A j \in Candidates(p, s) : j \in DOMAIN s /\ Good(a, s[j]) /\ Eligible(p, s[j]) /\ IsVersion(s[j])
    <3>1. \A j \in Candidates(p, s) : j \in DOMAIN s /\ Eligible(p, s[j]) /\ s[j].parses
      BY DEF Candidates
    <3> QED
      BY <1>3, <2>1, <3>1, GoodFacts DEF Good
  <2>5. SettingsCalm(a)'
    <3>1. heard'[a] # NoTag => Good(a, heard'[a])
      BY <2>1, <2>3, <2>4 DEF SettingsCalm
    <3> QED
      BY <1>1, <1>9, <2>1, <3>1 DEF SettingsCalm, Good
  <2>6. \A e \in LiveDeployment(a) \cup InFlight(a) :
          tag[e] # NoTag => e \in LiveDeployment(a)' \cup InFlight(a)' /\ tag'[e] = tag[e]
    <3>1. CASE t = NoTag
      BY <1>1, <1>6, <1>8, <1>12, <3>1, RowsStill DEF Frame
    <3>2. CASE t # NoTag
      <4>1. InFlight(a)' = InFlight(a) \cup {n} /\ \A d \in Rows(a) : tag'[d] = tag[d]
        BY <1>20, <3>2 DEF Grown
      <4> QED
        BY <1>12, <4>1 DEF Frame, InFlight
    <3> QED
      BY <3>1, <3>2
  <2>7. ASSUME NEW j \in Candidates(p, s)
        PROVE  \E e \in LiveDeployment(a)' \cup InFlight(a)' : tag'[e] # NoTag /\ ~Precedes(tag'[e], s[j])
    <3>1. CASE t # NoTag
      <4>1. InFlight(a)' = InFlight(a) \cup {n} /\ tag'[n] = t
        BY <1>20, <3>1 DEF Grown
      <4>2. ~Precedes(t, s[j])
        BY <1>3, <2>2, <3>1 DEF Decided
      <4> QED
        BY <3>1, <4>1, <4>2
    <3>2. CASE t = NoTag
      <4>1. \/ \A i \in DOMAIN s : ~Eligible(p, s[i])
            \/ \E m \in Marks(p, I) : \A i \in Candidates(p, s) : ~Precedes(m, s[i])
        BY <1>3, <3>2 DEF Decided
      <4>2. PICK m \in Marks(p, I) : ~Precedes(m, s[j])
        BY <2>4, <4>1
      <4>3. PICK e \in LiveDeployment(a) \cup InFlight(a) : m = tag[e] /\ tag[e] # NoTag
        BY <1>3, <4>2, InPlayHas
      <4> QED
        BY <2>6, <4>2, <4>3
    <3> QED
      BY <3>1, <3>2
  <2>8. ASSUME ~late[a] PROVE HeardOK(a)'
    <3>1. HeardOK(a)
      BY <1>14, <2>8 DEF Calm
    <3>2. CASE heard'[a] = heard[a]
      BY <2>6, <3>1, <3>2 DEF HeardOK
    <3>3. ASSUME NEW j \in Candidates(p, s), heard'[a] = s[j] PROVE HeardOK(a)'
      BY <2>7, <3>3 DEF HeardOK
    <3> QED
      BY <2>3, <3>2, <3>3
  <2>9. CASE t = NoTag
    BY <1>1, <1>6, <1>8, <1>14, <2>5, <2>8, <2>9, CalmStill
  <2>10. CASE t # NoTag
    <3>1. /\ tag'[n] = t /\ event'[n] = TRUE /\ status'[n] = "queued" /\ place'[n] = "none"
          /\ ~AtWork(n)'
      BY <1>20, <2>10 DEF Grown
    <3>2. Good(a, t)
      <4>1. \E i \in DOMAIN s : t = s[i] /\ Eligible(p, t)
        BY <1>3, <2>10 DEF Decided
      <4> QED
        BY <1>3, <2>1, <2>2, <2>10, <4>1 DEF Good
    <3>3. Good(a, t)'
      BY <1>1, <3>2 DEF Good
    <3>4. RowCalm(a, n)'
      BY <2>10, <3>1, <3>3 DEF RowCalm
    <3> QED
      BY <1>0, <1>1, <1>7, <1>14, <2>5, <2>8, <2>10, <3>4, InsertCalm
  <2> QED
    BY <2>9, <2>10
<1>15. ~excused'[a] => ~excused[a]
  BY <1>6
<1>16. AppOK(a)'
  BY <1>8, <1>10, <1>12, <1>13, <1>14, <1>15 DEF AppOK
<1> QED
  BY <1>11, <1>16, AllWell

-----------------------------------------------------------------------------
(* The invariant holds. *)

\* Every step keeps every app well.
LEMMA AppsStep ==
  ASSUME TagIInv, [TagNext]_tagVars
  PROVE  \A b \in App : AppOK(b)'
<1> DEFINE Well == \A b \in App : AppOK(b)'
<1>1. ASSUME NEW a \in App, NEW t \in Tag, PushTag(a, t) PROVE Well
  BY <1>1, PushTagStep
<1>2. ASSUME NEW A \in SUBSET App, NEW s \in Pushes, Hear(A, s) PROVE Well
  BY <1>2, HearStep
<1>3. ASSUME NEW A \in SUBSET App, NEW s \in Pushes, handleGithubWebhook(A, s) PROVE Well
  BY <1>2, <1>3, Heard
<1>4. ASSUME NEW a \in App, NEW s \in Pushes, handleAppWebhook(a, s) \/ serve(a, s) PROVE Well
  <2>1. {a} \in SUBSET App /\ Hear({a}, s)
    BY <1>4, Heard
  <2> QED
    BY <1>2, <2>1
<1>5. ASSUME NEW a \in App, serveTagPush(a) \/ CreateDeployment(a) PROVE Well
  BY <1>5, ServeStep, CreateDeploymentStep
<1>6. ASSUME NEW a \in App, NEW m, NEW p, UpdateAppSettings(a, m, p) PROVE Well
  BY <1>6, UpdateStep
<1>7. ASSUME NEW d \in Dep, CreateRollback(d) \/ Cancel(d) \/ Start(d) PROVE Well
  BY <1>7, CreateRollbackStep, CancelStep, StartStep
<1>8. ASSUME NEW d \in Dep, Pipeline(d) PROVE Well
  <2>1. CASE Load(d) \/ PrepareEvent(d) \/ PrepareClick(d) \/ PrepareOther(d)
    BY <2>1, LoadStep, PrepareEventStep, PrepareClickStep, PrepareOtherStep
  <2>2. CASE Build(d) \/ Fail(d) \/ Ship(d) \/ SupersedeOthers(d)
    BY <2>2, BuildStep, FailStep, ShipStep, SupersedeStep
  <2> QED
    BY <1>8, <2>1, <2>2 DEF Pipeline
<1>9. ASSUME Restart PROVE Well
  BY <1>9, RestartStep
<1>10. ASSUME UNCHANGED tagVars PROVE Well
  <2>1. \A b \in App : Still(b)
    BY <1>10 DEF tagVars, rows, settings, notes, Still
  <2> QED
    BY <2>1, StillKeeps DEF TagIInv
<1> DEFINE OfApp(a) ==
             \/ \E t \in Tag : PushTag(a, t)
             \/ \E s \in Pushes : handleAppWebhook(a, s) \/ serve(a, s)
             \/ serveTagPush(a)
             \/ CreateDeployment(a)
             \/ \E m \in {"branch", "tag"}, p \in Policy : UpdateAppSettings(a, m, p)
           OfRow(d) == CreateRollback(d) \/ Cancel(d) \/ Start(d) \/ Pipeline(d)
<1>11. \/ \E a \in App : OfApp(a)
       \/ \E A \in SUBSET App, s \in Pushes : handleGithubWebhook(A, s)
       \/ \E d \in Dep : OfRow(d)
       \/ Restart
       \/ UNCHANGED tagVars
  BY DEF TagNext
<1> HIDE DEF Well
<1>12. ASSUME NEW a \in App, OfApp(a) PROVE Well
  BY <1>1, <1>4, <1>5, <1>6, <1>12
<1>13. ASSUME NEW d \in Dep, OfRow(d) PROVE Well
  BY <1>7, <1>8, <1>13
<1> HIDE DEF OfApp, OfRow
<1>14. Well
  BY <1>3, <1>9, <1>10, <1>11, <1>12, <1>13
<1> QED
  BY <1>14 DEF Well

\* Every step keeps the invariant.
LEMMA TagStep ==
  ASSUME TagIInv, [TagNext]_tagVars
  PROVE  TagIInv'
<1>1. TagTypeOK /\ TypeOK /\ RowsInOrder /\ PlaceFits
  BY DEF TagIInv, TagTypeOK
<1>2. RowMove
  BY <1>1, RowSteps
<1>3. TypeOK' /\ RowsInOrder'
  BY <1>1, <1>2, RowsStep
<1>4. TagTypeOK'
  BY <1>1, <1>3, TypeStep
<1>5. PlaceFits'
  BY <1>1, PlacesStep
<1>6. \A b \in App : AppOK(b)'
  BY AppsStep
<1> QED
  BY <1>3, <1>4, <1>5, <1>6 DEF TagIInv

\* It holds of empty tables and of handlers that hold nothing.
LEMMA TagStart ==
  ASSUME TagInit
  PROVE  TagIInv
<1> USE DEF TagInit, Init
<1>1. \A a : Rows(a) = {}
  BY DEF Rows
<1>2. \A a : InFlight(a) = {} /\ LiveDeployment(a) = {} /\ RunningRows(a) = {}
  BY <1>1 DEF InFlight, LiveDeployment, RunningRows
<1>3. TagTypeOK
  BY DEF TagTypeOK, TypeOK, Dep, Status
<1>4. RowsInOrder
  <2>1. \A d \in Dep : status[d] = "absent" /\ owner[d] = NoApp /\ ~(d < next)
    BY DEF Dep
  <2> QED
    BY <2>1, StatusFacts DEF RowsInOrder, OneActivePerApp
<1>5. PlaceFits
  BY DEF PlaceFits
<1>6. ASSUME NEW a \in App PROVE AppOK(a)
  <2>1. HookOK(a)
    BY DEF HookOK, NoHook
  <2>2. QueueOK(a) /\ RetireOK(a) /\ RegressOK(a)
    BY <1>1, <1>2 DEF QueueOK, RetireOK, RegressOK
  <2>3. SettingsCalm(a) /\ HeardOK(a)
    BY DEF SettingsCalm, HeardOK
  <2> QED
    BY <1>1, <2>1, <2>2, <2>3 DEF AppOK, Calm
<1> QED
  BY <1>3, <1>4, <1>5, <1>6 DEF TagIInv

\* Calm apps, events in order and pipelines in their places, whatever is delivered,
\* clicked, cancelled, reconfigured or restarted, and however often.
THEOREM TagDeployIInv == TagSpec => []TagIInv
<1>1. TagInit => TagIInv
  BY TagStart
<1>2. TagIInv /\ [TagNext]_tagVars => TagIInv'
  BY TagStep
<1> QED
  BY <1>1, <1>2, PTL DEF TagSpec

\* Two tag events in flight are always in version order, and no release an event has
\* brought is ever dropped without an excuse, for any tags, policies, apps and events
\* (EnqueueTagDeployment's transaction and prepareTag's second look).
THEOREM TagSafety == TagSpec => []TagInv
<1>1. ASSUME TagIInv PROVE TagInv
  <2>1. TagTypeOK
    BY <1>1 DEF TagIInv
  <2>2. EventsQueueInOrder
    <3> SUFFICES ASSUME NEW d \in Dep, NEW e \in Dep, d < e, owner[d] = owner[e], event[d], event[e],
                        {d, e} \subseteq InFlight(owner[d]), Comparable(tag[d], tag[e])
                 PROVE  Newer(tag[e], tag[d])
      BY DEF EventsQueueInOrder
    <3>1. status[d] # "absent"
      BY DEF InFlight
    <3>2. QueueOK(owner[d])
      BY <1>1, <3>1, RowHasApp DEF AppOK
    <3> QED
      BY <3>2 DEF QueueOK
  <2>3. NoReleaseDropped
    <3> SUFFICES ASSUME NEW a \in App, ~excused[a], ~late[a], InFlight(a) = {}, heard[a] # NoTag
                 PROVE  \E e \in LiveDeployment(a) : ~Precedes(tag[e], heard[a])
      BY DEF NoReleaseDropped
    <3>1. HeardOK(a)
      BY <1>1 DEF TagIInv, AppOK, Calm
    <3> QED
      BY <3>1 DEF HeardOK
  <2> QED
    BY <2>1, <2>2, <2>3 DEF TagInv
<1> QED
  BY <1>1, TagDeployIInv, PTL

\* An older tag never replaces a newer live one: what goes live on a tag event was
\* looked at again under the worker's claim, and nothing of its app went live since
\* (prepareTag, and the one active attempt per app).
THEOREM NeverRegresses == TagSpec => EventNeverRegresses
<1> DEFINE Kept == \A d \in Dep :
                     /\ event[d] /\ status[d] = "deploying" /\ status'[d] = "running"
                     /\ ~late[owner[d]]
                     => \A e \in LiveDeployment(owner[d]) :
                          Comparable(tag[d], tag[e]) => Newer(tag[d], tag[e])
<1>1. ASSUME TagIInv PROVE Kept
  <2> SUFFICES ASSUME NEW d \in Dep, event[d], status[d] = "deploying", ~late[owner[d]],
                      NEW e \in LiveDeployment(owner[d]), Comparable(tag[d], tag[e])
               PROVE  Newer(tag[d], tag[e])
    OBVIOUS
  <2>1. AtWork(d) /\ d \in Rows(owner[d])
    BY <1>1, StatusFacts DEF TagIInv, PlaceFits, AtWork, Rows
  <2>2. RegressOK(owner[d])
    BY <1>1, RowHasApp DEF AppOK
  <2> QED
    BY <2>1, <2>2 DEF RegressOK
<1>2. TagIInv /\ [TagNext]_tagVars => [Kept]_tagVars
  BY <1>1
<1> QED
  BY <1>2, TagDeployIInv, PTL DEF TagSpec, EventNeverRegresses

=============================================================================

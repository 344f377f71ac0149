----------------------------- MODULE TagDeploy -----------------------------
(***************************************************************************)
(* Apps that deploy on version tags: the tag events of webhooks and git    *)
(* pushes, the transaction that decides and enqueues, the worker's second  *)
(* look when it claims, Deploy clicks, rollbacks and settings changes, on  *)
(* top of the deployments table (module Deployments).                      *)
(*                                                                         *)
(* Deliveries may be late, repeated or out of order.  A handler reads the  *)
(* app before it enqueues, a pipeline before it prepares, and either may   *)
(* by then hold settings that are no longer the app's.                     *)
(***************************************************************************)
EXTENDS Deployments, TagPolicy

CONSTANTS
  Tag,      \* the tags anyone pushes
  Policy,   \* the policies an operator sets
  Pushes    \* the sequences of tags one event carries

\* A tag is one a policy can parse, or cannot; the empty one stands for none.
ASSUME TagAssumption ==
  /\ \A t \in Tag : IsVersion(t) \/ t = Unversioned(t.line)
  /\ NoTag \notin Tag
  /\ Pushes \subseteq Seq(Tag)

VARIABLES
  mode,     \* apps.deploy_trigger, with auto_deploy: "branch" or "tag"
  policy,   \* apps.tag_pattern and tag_prereleases
  remote,   \* by app, the tags its repository has
  hook,     \* by app, a tag event's handler between its read and its write
  tag,      \* deployments.tag
  event,    \* deployments.from_tag_event
  built,    \* whether deployments.image is set
  place,    \* by deployment, the pipeline's place
  loaded,   \* by deployment, the settings its pipeline read
  \* History, for the properties alone.
  heard,    \* by app, the newest eligible version an event has brought, or NoTag
  excused,  \* by app, whether a failure, a cancel, a rollback, a settings change or a
            \* tag without a version has had a hand in what runs
  late      \* by app, whether a pipeline retired its successor's row (module Deploy)

settings == <<mode, policy>>
rows     == <<owner, status, next, apps>>
notes    == <<tag, event, built>>
tagVars  == <<rows, settings, remote, hook, notes, place, loaded, heard, excused, late>>

NoHook == [pushed |-> <<>>, policy |-> [lines |-> {}, pre |-> FALSE]]
Unloaded == [mode |-> "branch", policy |-> NoHook.policy]

TagInit ==
  /\ Init
  /\ mode = [a \in App |-> "tag"]
  /\ policy \in [App -> Policy]
  /\ remote = [a \in App |-> {}]
  /\ hook = [a \in App |-> NoHook]
  /\ tag = [d \in Dep |-> NoTag]
  /\ event = [d \in Dep |-> FALSE]
  /\ built = [d \in Dep |-> FALSE]
  /\ place = [d \in Dep |-> "none"]
  /\ loaded = [d \in Dep |-> Unloaded]
  /\ heard = [a \in App |-> NoTag]
  /\ excused = [a \in App |-> FALSE]
  /\ late = [a \in App |-> FALSE]

-----------------------------------------------------------------------------

InFlight(a) == {d \in Rows(a) : status[d] \in {"queued", "building", "deploying"}}

\* The newest running row: none, or one.
LiveDeployment(a) ==
  {d \in Rows(a) : status[d] = "running" /\ \A e \in Rows(a) : status[e] = "running" => e <= d}

InPlay(a) == {tag[d] : d \in LiveDeployment(a) \cup InFlight(a)} \ {NoTag}

Carried(s) == {s[i] : i \in DOMAIN s}

Record(a, t, fromEvent, image) ==
  /\ Enqueue(a)
  /\ tag' = [tag EXCEPT ![next] = t]
  /\ event' = [event EXCEPT ![next] = fromEvent]
  /\ built' = [built EXCEPT ![next] = image]

PushTag(a, t) ==
  /\ remote' = [remote EXCEPT ![a] = @ \cup {t}]
  /\ UNCHANGED <<rows, settings, hook, notes, place, loaded, heard, excused, late>>

\* One transaction reads the tags in play, decides and inserts.
EnqueueTagDeployment(a, pushed, p) ==
  LET t == Decide(p, pushed, InPlay(a))
  IN \/ /\ t # NoTag
        /\ Record(a, t, TRUE, FALSE)
        /\ excused' = [excused EXCEPT ![a] = @ \/ ~t.parses]
     \/ t = NoTag /\ UNCHANGED <<rows, notes, excused>>

\* An event names tags of the repository; its handler has read the app, and holds the
\* policy it had then.
Hear(A, s) ==
  /\ \A a \in A : hook[a] = NoHook /\ \A i \in DOMAIN s : s[i] \in remote[a]
  /\ hook' = [a \in App |-> IF a \in A THEN [pushed |-> s, policy |-> policy[a]] ELSE hook[a]]
  /\ UNCHANGED <<rows, settings, remote, notes, place, loaded, heard, excused, late>>

\* A webhook names one tag.  GitHub's is for all apps of the repository, whose rows
\* are read together and then served one after another; the generic one is for the
\* app of its URL.  Apps in branch mode are left alone.
handleGithubWebhook(A, s) ==
  /\ Len(s) = 1 /\ A # {} /\ \A a \in A : mode[a] = "tag"
  /\ Hear(A, s)

handleAppWebhook(a, s) == Len(s) = 1 /\ mode[a] = "tag" /\ Hear({a}, s)

\* A git push names all its tags, but for the ones it deletes, in its own order.
serve(a, s) == mode[a] = "tag" /\ Hear({a}, s)

\* maybeDeployTag and serveTagPush: decide, and answer the sender.
serveTagPush(a) ==
  /\ hook[a] # NoHook
  /\ EnqueueTagDeployment(a, hook[a].pushed, hook[a].policy)
  /\ hook' = [hook EXCEPT ![a] = NoHook]
  /\ \/ \E t \in Newest(hook[a].policy, Carried(hook[a].pushed) \cup ({heard[a]} \ {NoTag})) :
           heard' = [heard EXCEPT ![a] = t]
     \/ /\ Newest(hook[a].policy, Carried(hook[a].pushed) \cup ({heard[a]} \ {NoTag})) = {}
        /\ UNCHANGED heard
  /\ UNCHANGED <<settings, remote, place, loaded, late>>

\* A Deploy click, or a push of the branch whose handler read the app in branch mode.
CreateDeployment(a) ==
  /\ Record(a, NoTag, FALSE, FALSE)
  /\ UNCHANGED <<settings, remote, hook, place, loaded, heard, excused, late>>

\* A rollback carries the tag of the attempt whose image it reuses.
CreateRollback(d) ==
  /\ status[d] # "absent" /\ built[d]
  /\ Record(owner[d], tag[d], FALSE, TRUE)
  /\ excused' = [excused EXCEPT ![owner[d]] = TRUE]
  /\ UNCHANGED <<settings, remote, hook, place, loaded, heard, late>>

UpdateAppSettings(a, m, p) ==
  /\ <<m, p>> # <<mode[a], policy[a]>>
  /\ mode' = [mode EXCEPT ![a] = m]
  /\ policy' = [policy EXCEPT ![a] = p]
  /\ excused' = [excused EXCEPT ![a] = TRUE]
  /\ UNCHANGED <<rows, remote, hook, notes, place, loaded, heard, late>>

Cancel(d) ==
  /\ CanCancel(status[d])
  /\ Move(d, "cancelled")
  /\ excused' = [excused EXCEPT ![owner[d]] = TRUE]
  /\ UNCHANGED <<settings, remote, hook, notes, place, loaded, heard, late>>

-----------------------------------------------------------------------------
(* The pipeline, as far as tags are concerned. *)

Goto(d, p) == place' = [place EXCEPT ![d] = p]

Start(d) ==
  /\ Claim(d)
  /\ Goto(d, "load")
  /\ UNCHANGED <<settings, remote, hook, notes, loaded, heard, excused, late>>

Load(d) ==
  /\ place[d] = "load"
  /\ loaded' = [loaded EXCEPT ![d] = [mode |-> mode[owner[d]], policy |-> policy[owner[d]]]]
  /\ Goto(d, "prepare")
  /\ UNCHANGED <<rows, settings, remote, hook, notes, heard, excused, late>>

\* prepareTag is done; the pipeline goes on with the tag, the policy is not needed again.
Prepared(d, p) ==
  /\ Goto(d, p)
  /\ loaded' = [loaded EXCEPT ![d] = Unloaded]

\* A guarded status write: it has no effect once the row has moved on.
SetStatus(d, from, to) ==
  IF status[d] = from THEN Move(d, to) ELSE UNCHANGED rows

\* Mutant of StillNewer: the claim trusts the decision made on enqueueing.
Trusted(d) == TRUE

\* A tag event's tag against the live one, under the settings the pipeline read.
StillNewer(d) ==
  Decide(loaded[d].policy, <<tag[d]>>,
         {tag[e] : e \in LiveDeployment(owner[d])} \ {NoTag}) # NoTag

\* prepareTag, a tag event: re-check, and cancel the attempt if it lost.
PrepareEvent(d) ==
  /\ place[d] = "prepare" /\ event[d]
  /\ \/ StillNewer(d) /\ Prepared(d, "build") /\ UNCHANGED rows
     \/ ~StillNewer(d) /\ Prepared(d, "none") /\ SetStatus(d, "building", "cancelled")
  /\ UNCHANGED <<settings, remote, hook, notes, heard, excused, late>>

\* prepareTag, a click on an app in tag mode: the newest tag of the repository, or
\* else the live tag if the repository and the policy still have it.
ClickTags(d) ==
  LET p == loaded[d].policy
      tags == remote[owner[d]]
  IN IF Newest(p, tags) # {} THEN Newest(p, tags)
     ELSE {tag[e] : e \in {e \in LiveDeployment(owner[d]) :
                             tag[e] \in tags /\ Eligible(p, tag[e])}}

PrepareClick(d) ==
  /\ place[d] = "prepare"
  /\ ~event[d] /\ ~built[d] /\ loaded[d].mode = "tag" /\ tag[d] = NoTag
  /\ \E t \in ClickTags(d) : tag' = [tag EXCEPT ![d] = t]
  /\ Prepared(d, "build")
  /\ UNCHANGED <<rows, settings, remote, hook, event, built, heard, excused, late>>

\* prepareTag, anything else: there is no tag to settle.
PrepareOther(d) ==
  /\ place[d] = "prepare"
  /\ ~event[d] /\ (built[d] \/ loaded[d].mode = "branch" \/ tag[d] # NoTag)
  /\ Prepared(d, "build")
  /\ UNCHANGED <<rows, settings, remote, hook, notes, heard, excused, late>>

\* Build the image, record it, and take the row to deploying if it is still ours.
Build(d) ==
  /\ place[d] = "build"
  /\ built' = [built EXCEPT ![d] = TRUE]
  /\ Goto(d, IF status[d] = "building" THEN "ship" ELSE "none")
  /\ SetStatus(d, "building", "deploying")
  /\ UNCHANGED <<settings, remote, hook, tag, event, loaded, heard, excused, late>>

\* Whatever fails before the attempt is live: no tag, the clone, the build, the cutover.
Fail(d) ==
  /\ place[d] \in {"load", "prepare", "build", "ship"}
  /\ Prepared(d, "none")
  /\ SetStatus(d, IF place[d] = "ship" THEN "deploying" ELSE "building", "failed")
  /\ excused' = [excused EXCEPT ![owner[d]] = TRUE]
  /\ UNCHANGED <<settings, remote, hook, notes, heard, late>>

Ship(d) ==
  /\ place[d] = "ship"
  /\ SetStatus(d, "deploying", "running")
  /\ Goto(d, "retire")
  /\ UNCHANGED <<settings, remote, hook, notes, loaded, heard, excused, late>>

SupersedeOthers(d) ==
  /\ place[d] = "retire"
  /\ Retire(d)
  /\ Goto(d, "none")
  /\ late' = [late EXCEPT ![owner[d]] = @ \/ \E e \in Rows(owner[d]) : e > d /\ status[e] = "running"]
  /\ UNCHANGED <<settings, remote, hook, notes, loaded, heard, excused>>

\* A crash and the next boot: every pipeline is gone and its row has failed.
Restart ==
  /\ \E d \in Dep : place[d] # "none"
  /\ Recover
  /\ place' = [d \in Dep |-> "none"]
  /\ loaded' = [d \in Dep |-> Unloaded]
  /\ hook' = [a \in App |-> NoHook]
  /\ excused' = [a \in App |-> excused[a] \/ \E d \in Rows(a) : IsActive(status[d])]
  /\ UNCHANGED <<settings, remote, notes, heard, late>>

Pipeline(d) ==
  \/ Load(d) \/ PrepareEvent(d) \/ PrepareClick(d) \/ PrepareOther(d)
  \/ Build(d) \/ Fail(d) \/ Ship(d) \/ SupersedeOthers(d)

TagNext ==
  \/ \E a \in App :
       \/ \E t \in Tag : PushTag(a, t)
       \/ \E s \in Pushes : handleAppWebhook(a, s) \/ serve(a, s)
       \/ serveTagPush(a)
       \/ CreateDeployment(a)
       \/ \E m \in {"branch", "tag"}, p \in Policy : UpdateAppSettings(a, m, p)
  \/ \E A \in SUBSET App, s \in Pushes : handleGithubWebhook(A, s)
  \/ \E d \in Dep : CreateRollback(d) \/ Cancel(d) \/ Start(d) \/ Pipeline(d)
  \/ Restart

TagSpec == TagInit /\ [][TagNext]_tagVars

-----------------------------------------------------------------------------

TagTypeOK ==
  /\ TypeOK
  /\ mode \in [App -> {"branch", "tag"}] /\ policy \in [App -> Policy]
  /\ remote \in [App -> SUBSET Tag] /\ heard \in [App -> Tag \cup {NoTag}]
  /\ hook \in [App -> [pushed : Pushes, policy : Policy] \cup {NoHook}]
  /\ tag \in [Dep -> Tag \cup {NoTag}]
  /\ event \in [Dep -> BOOLEAN] /\ built \in [Dep -> BOOLEAN]
  /\ place \in [Dep -> {"none", "load", "prepare", "build", "ship", "retire"}]
  /\ loaded \in [Dep -> [mode : {"branch", "tag"}, policy : Policy] \cup {Unloaded}]
  /\ excused \in [App -> BOOLEAN] /\ late \in [App -> BOOLEAN]

\* Two tags are ordered when they belong to one line and both are versions, by
\* SemVer's definition and not by the code's.
Comparable(t, u) == t.line = u.line /\ t.parses /\ u.parses
Newer(t, u) == Comparable(t, u) /\ Precedes(u, t)

\* The design's anti-goal: an older tag never replaces a newer live one, however
\* late, repeated or reordered the deliveries, whatever is clicked, rolled back,
\* cancelled, reconfigured or restarted meanwhile.
EventNeverRegresses ==
  [][\A d \in Dep :
       /\ event[d] /\ status[d] = "deploying" /\ status'[d] = "running"
       /\ ~late[owner[d]]
       => \A e \in LiveDeployment(owner[d]) :
            Comparable(tag[d], tag[e]) => Newer(tag[d], tag[e])]_tagVars

\* Two tag events in flight are in version order, so the later one wins.
EventsQueueInOrder ==
  \A d, e \in Dep :
    /\ d < e /\ owner[d] = owner[e] /\ event[d] /\ event[e]
    /\ {d, e} \subseteq InFlight(owner[d])
    => (Comparable(tag[d], tag[e]) => Newer(tag[e], tag[d]))

\* "Not knowing must never silently drop a release": once nothing is in flight, and
\* unless something failed, was cancelled, rolled back or reconfigured, or a push of
\* tags without a version took over, the live attempt is at least as new as every
\* eligible tag an event has brought.
NoReleaseDropped ==
  \A a \in App :
    /\ ~excused[a] /\ ~late[a] /\ InFlight(a) = {} /\ hook[a] = NoHook
    => heard[a] = NoTag \/ \E e \in LiveDeployment(a) : ~Precedes(tag[e], heard[a])

\* Types, the order of the events in flight and the releases none of them drops, at
\* every moment of the queue, the hook and the pipelines (worker.go, prepareTag).
TagInv == TagTypeOK /\ EventsQueueInOrder /\ NoReleaseDropped

=============================================================================

------------------------------ MODULE Console ------------------------------
(***************************************************************************)
(* The rows the operator edits and how they refer to each other: projects, *)
(* apps, databases, attachments, connected GitHub accounts and volumes     *)
(* (internal/server over internal/store).  SQLite runs one statement or    *)
(* transaction at a time, and enforces the foreign keys of attachments and *)
(* volumes.  The other references are guarded by handlers that read,       *)
(* decide, and write later, and the write goes ahead whatever happened in  *)
(* between: pend holds the requests that have read.                        *)
(***************************************************************************)
EXTENDS Naturals, FiniteSets

CONSTANTS
  Project, DefaultProject,   \* the projects, and the one the migration creates
  App, Db,                   \* the apps and the managed databases
  Source, NoSource,          \* the GitHub Apps, each with its installation; 0
  MaxPending                 \* how many requests may be between read and write

ASSUME ConsoleAssumption ==
  /\ DefaultProject \in Project
  /\ NoSource \notin Source
  /\ App \cap Db = {}   \* rows of two tables

VARIABLES
  used,       \* the ids that were ever given out (AUTOINCREMENT)
  projects,   \* the rows of projects
  live, app,  \* the ids in apps, and by id, its columns
  dbs, home,  \* the ids in databases, and by id, its project
  atts,       \* attachments: <<app, database>>
  sources,    \* the rows of git_sources
  bound,      \* by source, the installation it holds
  volRows,    \* the apps with a row in volumes
  volumes,    \* the Docker volumes: <<app, "data">>, or <<app, "stack">> of a stack
  mounts,     \* the volumes a container mounts
  pend,       \* the requests between their read and their write
  loose       \* history: the apps and databases that a request wrote, or left behind,
              \* though what it had read no longer held

rows == <<used, projects, live, app, dbs, home, atts, sources, bound>>
data == <<volRows, volumes, mounts>>
consoleVars == <<rows, data, pend, loose>>

Kind == {"nixpacks", "dockerfile", "compose"}
AppRow == [project : Project, kind : Kind, composePath : BOOLEAN, dockerfilePath : BOOLEAN,
           source : {"public", "github", "template"}, git : Source \cup {NoSource}]
Volume == App \X {"data", "stack"}

\* An app as it is inserted, with the path its kind needs.
NewRow(p, k, s, g) ==
  [project |-> p, kind |-> k, composePath |-> k = "compose",
   dockerfilePath |-> k = "dockerfile", source |-> s, git |-> g]
Fetch(g, p, k) == NewRow(p, k, IF g = NoSource THEN "public" ELSE "github", g)
NoRow == NewRow(DefaultProject, "nixpacks", "public", NoSource)

ConsoleInit ==
  /\ used = {DefaultProject} /\ projects = {DefaultProject}
  /\ live = {} /\ app = [a \in App |-> NoRow]
  /\ dbs = {} /\ home = [d \in Db |-> DefaultProject]
  /\ atts = {}
  /\ sources = {} /\ bound = [s \in Source |-> NoSource]
  /\ volRows = {} /\ volumes = {} /\ mounts = {}
  /\ pend = {} /\ loose = {}

(***************************************************************************)
(* What the handlers ask before they write.                                *)
(***************************************************************************)
Users(s) == {a \in live : app[a].git = s}

\* resolveRepoSource, and what it stands for.  It may refuse more, from its cache.
Resolves(g) == g = NoSource \/ (g \in sources /\ bound[g] # NoSource)
Usable(g) == g = NoSource \/ (g \in sources /\ bound[g] = g)

\* The name of an app's volume follows from the app and the path, not from the row: a
\* row that is added again has the volume of the one before.
VolumeName(a) == <<a, "data">>

\* inventory: a data volume belongs to the app whose row names it, a stack's to the
\* compose app of the stack's name.
ListAllVolumes == volRows \cap live
Orphan(v) ==
  IF v[2] = "data" THEN v \notin {VolumeName(a) : a \in ListAllVolumes}
  ELSE v[1] \notin live \/ app[v[1]].kind # "compose"

\* What a request relies on: that must hold when it writes, but is only read before.
Sound(o) ==
  /\ o.op \in {"create", "createDb"} => o.row.project \in projects
  /\ o.op \in {"create", "createDb", "source"} => Usable(o.row.git)
  /\ o.op = "drop" => Users(o.id) = {}
  /\ o.op = "reclaim" => Orphan(o.id)

NewRequest(op, id, row) == [op |-> op, id |-> id, row |-> row, held |-> TRUE]

Read(op, id, row) ==
  /\ Cardinality(pend) < MaxPending
  /\ LET o == NewRequest(op, id, row)
     IN  pend' = pend \cup {[o EXCEPT !.held = Sound(o)]}
  /\ UNCHANGED <<rows, data, loose>>

\* The write, which answers the request; the ones it touches are loose if what the
\* request had read no longer holds.
Written(o, touched) ==
  /\ pend' = pend \ {o}
  /\ loose' = IF o.held /\ ~Sound(o) THEN loose \cup touched ELSE loose

\* A request whose browser has gone, or that is refused after its read.
Abandon(o) == pend' = pend \ {o} /\ UNCHANGED <<rows, data, loose>>

(***************************************************************************)
(* Projects.  The delete counts and deletes in one transaction.            *)
(***************************************************************************)
CreateProject(p) ==
  /\ p \notin used
  /\ used' = used \cup {p} /\ projects' = projects \cup {p}

\* Mutant of DeleteProject: the databases are not counted.
DeleteProjectWithoutApps(p) ==
  /\ \A a \in live : app[a].project # p
  /\ projects' = projects \ {p}

\* ErrProjectNotEmpty, or the row goes.
DeleteProject(p) ==
  /\ \A a \in live : app[a].project # p
  /\ \A d \in dbs : home[d] # p
  /\ projects' = projects \ {p}

notProjects == <<live, app, dbs, home, atts, sources, bound, data, pend, loose>>
handleCreateProject(p) == CreateProject(p) /\ UNCHANGED notProjects
handleDeleteProject(p) == p \in projects /\ DeleteProject(p) /\ UNCHANGED <<used, notProjects>>

(***************************************************************************)
(* Apps and databases: the form is checked, then the row is inserted.      *)
(***************************************************************************)
CreateAppRead(a, p, k, g) ==
  /\ a \notin used /\ p \in projects /\ Resolves(g)
  /\ Read("create", a, Fetch(g, p, k))

DeployTemplateRead(a, p) ==
  /\ a \notin used /\ p \in projects
  /\ Read("create", a, NewRow(p, "compose", "template", NoSource))

Insert(a, row) ==
  /\ used' = used \cup {a} /\ live' = live \cup {a} /\ app' = [app EXCEPT ![a] = row]
  /\ UNCHANGED <<projects, dbs, home, atts, sources, bound, data>>

\* A name that is taken is refused.
CreateAppWithDomains(o) ==
  /\ o.op = "create"
  /\ \/ o.id \in used /\ Abandon(o)
     \/ o.id \notin used /\ Insert(o.id, o.row) /\ Written(o, {o.id})

\* A push to a name nobody has: the app joins the default project, unasked.
ColdCreate(a, k) ==
  /\ a \notin used
  /\ Insert(a, NewRow(DefaultProject, k, "public", NoSource))
  /\ loose' = IF DefaultProject \in projects THEN loose ELSE loose \cup {a}
  /\ UNCHANGED pend

CreateDatabaseRead(d, p) ==
  /\ d \notin used /\ p \in projects
  /\ Read("createDb", d, NewRow(p, "nixpacks", "public", NoSource))

CreateDatabase(o) ==
  /\ o.op = "createDb"
  /\ \/ o.id \in used /\ Abandon(o)
     \/ /\ o.id \notin used
        /\ used' = used \cup {o.id} /\ dbs' = dbs \cup {o.id}
        /\ home' = [home EXCEPT ![o.id] = o.row.project]
        /\ Written(o, {o.id})
        /\ UNCHANGED <<projects, live, app, atts, sources, bound, data>>

\* The containers go by the kind the app has now; the volumes stay.
DeleteApp(a) ==
  /\ a \in live
  /\ mounts' = mounts \ {<<a, IF app[a].kind = "compose" THEN "stack" ELSE "data">>}
  /\ live' = live \ {a} /\ app' = [app EXCEPT ![a] = NoRow]
  /\ atts' = {t \in atts : t[1] # a} /\ volRows' = volRows \ {a} /\ loose' = loose \ {a}
  /\ UNCHANGED <<used, projects, dbs, home, sources, bound, volumes, pend>>

\* Refused while it is attached, and by the foreign key of a later attachment.
DeleteDatabase(d) ==
  /\ d \in dbs /\ \A t \in atts : t[2] # d
  /\ dbs' = dbs \ {d} /\ home' = [home EXCEPT ![d] = DefaultProject] /\ loose' = loose \ {d}
  /\ UNCHANGED <<used, projects, live, app, atts, sources, bound, data, pend>>

(***************************************************************************)
(* The app's forms.                                                        *)
(***************************************************************************)
SetRow(a, row) ==
  /\ app' = IF a \in live THEN [app EXCEPT ![a] = row] ELSE app
  /\ UNCHANGED <<used, projects, live, dbs, home, atts, sources, bound, data>>

UpdateAppKind(a, k) ==
  /\ a \in live
  /\ SetRow(a, [app[a] EXCEPT !.kind = k, !.composePath = k = "compose",
                              !.dockerfilePath = k = "dockerfile"])
  /\ UNCHANGED <<pend, loose>>

\* Settings that save no path have nothing more to do here.
AppSettingsRead(a) ==
  /\ a \in live /\ app[a].kind # "nixpacks"
  /\ Read("settings", a, NewRow(DefaultProject, app[a].kind, "public", NoSource))

\* Mutant of UpdateAppPath: both paths, as the kind that was read has them.
UpdateAppBothPaths(o) ==
  /\ o.op = "settings"
  /\ SetRow(o.id, [app[o.id] EXCEPT !.composePath = o.row.kind = "compose",
                                    !.dockerfilePath = o.row.kind = "dockerfile"])
  /\ Written(o, {})

\* By the kind that was read: one column, whatever kind the app has now.
UpdateAppPath(o) ==
  /\ o.op = "settings"
  /\ SetRow(o.id, IF o.row.kind = "compose" THEN [app[o.id] EXCEPT !.composePath = TRUE]
                  ELSE [app[o.id] EXCEPT !.dockerfilePath = TRUE])
  /\ Written(o, {})

UpdateSourceRead(a, g) ==
  /\ a \in live /\ app[a].source # "template" /\ Resolves(g)
  /\ Read("source", a, Fetch(g, DefaultProject, "nixpacks"))

UpdateAppSource(o) ==
  /\ o.op = "source"
  /\ SetRow(o.id, [app[o.id] EXCEPT !.source = o.row.source, !.git = o.row.git])
  /\ Written(o, {o.id} \cap live)

AttachRead(a, d) ==
  /\ a \in live /\ d \in dbs /\ app[a].project = home[d]
  /\ Read("attach", <<a, d>>, NoRow)

\* The foreign keys refuse an attachment whose app or database has gone.
AttachDatabase(o) ==
  /\ o.op = "attach"
  /\ IF o.id[1] \in live /\ o.id[2] \in dbs
     THEN /\ atts' = atts \cup {o.id}
          /\ Written(o, {})
          /\ UNCHANGED <<used, projects, live, app, dbs, home, sources, bound, data>>
     ELSE Abandon(o)

DetachDatabase(t) == atts' = atts \ {t}

handleDetachDatabase(t) ==
  /\ t \in atts
  /\ DetachDatabase(t)
  /\ UNCHANGED <<used, projects, live, app, dbs, home, sources, bound, data, pend, loose>>

(***************************************************************************)
(* Connected GitHub accounts: the App is recorded, then installed on       *)
(* GitHub, which calls back with the installation's number and nothing     *)
(* else.                                                                   *)
(***************************************************************************)
CreateGithubAppSource(s) ==
  /\ s \notin used
  /\ used' = used \cup {s} /\ sources' = sources \cup {s}

\* GitHub gives the code out once: an App has one row.
handleGithubCallback(s) ==
  /\ CreateGithubAppSource(s)
  /\ UNCHANGED <<projects, live, app, dbs, home, atts, bound, data, pend, loose>>

\* GitHub tells an App of its own installations only.
Owns(s, installation) == s = installation

\* bindInstallation asks the source that holds the installation, then the ones that
\* hold none; the first that gets an answer is bound.
Candidates(i) ==
  {s \in sources : bound[s] \in {i, NoSource} /\ Owns(s, i)}

BindGithubInstallation(s, i) == bound' = [bound EXCEPT ![s] = i]

\* Anybody may call it: an installation that no App owns is refused.
handleGithubSetup(i) ==
  /\ \E s \in Candidates(i) : BindGithubInstallation(s, i)
  /\ UNCHANGED <<used, projects, live, app, dbs, home, atts, sources, data, pend, loose>>

DropSourceRead(s) ==
  /\ s \in sources /\ Users(s) = {}
  /\ Read("drop", s, NoRow)

\* The credentials, and with them the installation, cascade.
DeleteGitSource(s) ==
  /\ sources' = sources \ {s}
  /\ bound' = [bound EXCEPT ![s] = NoSource]

DropSource(o) ==
  /\ o.op = "drop"
  /\ DeleteGitSource(o.id)
  /\ Written(o, Users(o.id))
  /\ UNCHANGED <<used, projects, live, app, dbs, home, atts, data>>

(***************************************************************************)
(* Volumes.  A deploy creates and mounts them; the inventory reclaims the  *)
(* ones nobody owns.                                                       *)
(***************************************************************************)
\* One path of an app is mounted once.
AddVolume(a) == a \in live \ volRows /\ volRows' = volRows \cup {a}

handleAddVolume(a) ==
  /\ app[a].kind # "compose"
  /\ AddVolume(a)
  /\ UNCHANGED <<rows, volumes, mounts, pend, loose>>

\* The Docker volume stays, without an owner.
DeleteVolume(a) == volRows' = volRows \ {a}

handleDeleteVolume(a) ==
  /\ a \in volRows
  /\ DeleteVolume(a)
  /\ UNCHANGED <<rows, volumes, mounts, pend, loose>>

\* The new container or stack of a deploy replaces the app's last one of that sort.
Deploy(a) ==
  /\ a \in live
  /\ LET sort == IF app[a].kind = "compose" THEN "stack" ELSE "data"
         mounted == IF sort = "stack" THEN {<<a, sort>>} ELSE {VolumeName(b) : b \in volRows \cap {a}}
     IN  /\ volumes' = volumes \cup mounted
         /\ mounts' = (mounts \ {<<a, sort>>}) \cup mounted
  /\ UNCHANGED <<rows, volRows, pend, loose>>

ReclaimRead(v) ==
  /\ v \in volumes /\ Orphan(v)
  /\ Read("reclaim", v, NoRow)

\* Mutant of CanRemove: force is true.
CanRemoveForced(v) == v \in volumes

\* Docker refuses while a container mounts the volume: force is false.
CanRemove(v) == v \in volumes \ mounts

ReclaimVolume(o) ==
  /\ o.op = "reclaim"
  /\ IF CanRemove(o.id)
     THEN /\ volumes' = volumes \ {o.id}
          /\ Written(o, {})
          /\ UNCHANGED <<rows, volRows, mounts>>
     ELSE Abandon(o)

Start ==
  \/ \E a \in App, p \in Project :
       \/ DeployTemplateRead(a, p)
       \/ \E k \in Kind, g \in Source \cup {NoSource} : CreateAppRead(a, p, k, g)
  \/ \E d \in Db, p \in Project : CreateDatabaseRead(d, p)
  \/ \E a \in App : AppSettingsRead(a) \/ \E g \in Source \cup {NoSource} : UpdateSourceRead(a, g)
  \/ \E a \in App, d \in Db : AttachRead(a, d)
  \/ \E s \in Source : DropSourceRead(s)
  \/ \E v \in volumes : ReclaimRead(v)

Write(o) ==
  \/ CreateAppWithDomains(o)
  \/ CreateDatabase(o)
  \/ UpdateAppPath(o)
  \/ UpdateAppSource(o)
  \/ AttachDatabase(o)
  \/ DropSource(o)
  \/ ReclaimVolume(o)

AtOnce ==
  \/ \E p \in Project :
       handleCreateProject(p) \/ handleDeleteProject(p)
  \/ \E a \in App :
       \/ DeleteApp(a) \/ handleAddVolume(a) \/ handleDeleteVolume(a) \/ Deploy(a)
       \/ \E k \in Kind : UpdateAppKind(a, k) \/ ColdCreate(a, k)
  \/ \E d \in Db : DeleteDatabase(d)
  \/ \E t \in atts : handleDetachDatabase(t)
  \/ \E s \in Source : handleGithubCallback(s) \/ handleGithubSetup(s)

ConsoleNext == Start \/ (\E o \in pend : Write(o) \/ Abandon(o)) \/ AtOnce

ConsoleSpec == ConsoleInit /\ [][ConsoleNext]_consoleVars

-----------------------------------------------------------------------------
\* Types.
ConsoleTypeOK ==
  /\ projects \subseteq Project
  /\ live \subseteq App /\ app \in [App -> AppRow]
  /\ dbs \subseteq Db /\ home \in [Db -> Project]
  /\ atts \subseteq live \X dbs
  /\ sources \subseteq Source /\ bound \in [Source -> Source \cup {NoSource}]
  /\ volRows \subseteq live /\ volumes \subseteq Volume /\ mounts \subseteq volumes

\* The next deploy of an app finds the file its kind needs, also when a settings form
\* rendered for the kind it had before is saved after the change (handlers.go:377-502).
KindHasItsPath ==
  \A a \in live : /\ app[a].kind = "compose" => app[a].composePath
                  /\ app[a].kind = "dockerfile" => app[a].dockerfilePath

\* No app or database is in a project that has gone, and no app fetches through an
\* account that has gone or holds another App's installation, but for the rows of
\* requests that overlapped the removal, and of pushes that come when the default
\* project has gone (projects.go:65-67, settings.go:247-250).
NothingDangles ==
  /\ \A a \in live \ loose : app[a].project \in projects /\ Usable(app[a].git)
  /\ \A d \in dbs \ loose : home[d] \in projects
  /\ \A a \in live : app[a].source = "github" <=> app[a].git # NoSource

\* An attachment joins an app and a database that exist, of one project, whatever was
\* deleted between the check and the insert (attachments.go:14-40).
AttachmentsJoin ==
  \A t \in atts : /\ t[1] \in live /\ t[2] \in dbs
                  /\ app[t[1]].project = home[t[2]]

\* A volume is only ever removed by a request that saw it without an owner, and never
\* under a container, not even one that a deploy has created since
\* (volumes_page.go:102-136).
DataKept ==
  [][\A v \in volumes \ volumes' :
       /\ v \notin mounts
       /\ \E o \in pend \ pend' : o.op = "reclaim" /\ o.id = v /\ o.held]_consoleVars

\* What the rows say of each other (internal/store, and the handlers that guard it).
ConsoleInv == ConsoleTypeOK /\ NothingDangles /\ AttachmentsJoin

=============================================================================

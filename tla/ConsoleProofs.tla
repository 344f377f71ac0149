--------------------------- MODULE ConsoleProofs ---------------------------
(***************************************************************************)
(* The web console, in three parts that share no state: the rows its forms *)
(* write, for any number of projects, apps, databases, accounts and        *)
(* requests at once; the update its button starts, for any number of       *)
(* buttons, pieces of work, versions and power losses; and the deploy log  *)
(* it shows, for any number of deployments and viewers and any limits on   *)
(* lines, buffers and closed topics.                                       *)
(***************************************************************************)
EXTENDS Console, Update, LogStream, SequenceTheorems, FiniteSetTheorems, TLAPS

-----------------------------------------------------------------------------
(***************************************************************************)
(* The rows.  What the runs' properties need besides themselves is what a  *)
(* request between its read and its write carries: ReqOK.                  *)
(***************************************************************************)

\* A row as every form and every push writes it.
GoodRow(r) ==
  /\ r \in AppRow
  /\ r.kind = "compose" => r.composePath
  /\ r.kind = "dockerfile" => r.dockerfilePath
  /\ r.source = "github" <=> r.git # NoSource

\* What a request has in hand: its read was sound, and an attachment's two ends are of
\* one project for as long as they exist, because an id is never given out again.
ReqOK(o) ==
  /\ o.held = TRUE
  /\ o.op \in {"create", "settings", "source"} => o.id \in App
  /\ o.op = "createDb" => o.id \in Db
  /\ o.op = "drop" => o.id \in Source
  /\ o.op = "attach" =>
       /\ o.id \in App \X Db
       /\ o.id[1] \in used /\ o.id[2] \in used
       /\ o.id[1] \in live /\ o.id[2] \in dbs => app[o.id[1]].project = home[o.id[2]]
  /\ o.op \in {"create", "createDb", "settings", "source"} => GoodRow(o.row)

Ids ==
  /\ live \subseteq used /\ dbs \subseteq used
  /\ loose \subseteq App \cup Db
  /\ \A s \in Source : bound[s] \in {s, NoSource}
  /\ \A a \in App : GoodRow(app[a])

AllReqOK == \A o \in pend : ReqOK(o)

IInv == ConsoleTypeOK /\ Ids /\ AllReqOK /\ NothingDangles /\ AttachmentsJoin

\* A row as a form inserts it.
LEMMA NewRowIsGood ==
  ASSUME NEW p \in Project, NEW k \in Kind, NEW s \in {"public", "github", "template"},
         NEW g \in Source \cup {NoSource}, s = "github" <=> g # NoSource
  PROVE  GoodRow(NewRow(p, k, s, g)) /\ NewRow(p, k, s, g).project = p /\ NewRow(p, k, s, g).git = g
  BY DEF GoodRow, NewRow, AppRow, Kind

\* A row as the form that picks a repository makes it.
LEMMA FetchIsGood ==
  ASSUME NEW p \in Project, NEW k \in Kind, NEW g \in Source \cup {NoSource}
  PROVE  GoodRow(Fetch(g, p, k)) /\ Fetch(g, p, k).project = p /\ Fetch(g, p, k).git = g
<1> DEFINE s == IF g = NoSource THEN "public" ELSE "github"
<1>1. s \in {"public", "github", "template"} /\ (s = "github" <=> g # NoSource)
  OBVIOUS
<1> HIDE DEF s
<1>2. GoodRow(NewRow(p, k, s, g)) /\ NewRow(p, k, s, g).project = p /\ NewRow(p, k, s, g).git = g
  BY <1>1, NewRowIsGood
<1> QED
  BY <1>2 DEF Fetch, s

\* The absence of a row.
LEMMA NoRowIsGood == GoodRow(NoRow)
  BY NewRowIsGood, ConsoleAssumption DEF NoRow, Kind

\* The installation an account holds is its own, so what resolves can be used.
LEMMA ResolvedIsUsable ==
  ASSUME Ids, NEW g \in Source \cup {NoSource}, Resolves(g)
  PROVE  Usable(g)
  BY DEF Ids, Resolves, Usable

\* An empty console satisfies the invariant.
LEMMA ConsoleStart == ConsoleInit => IInv
<1> SUFFICES ASSUME ConsoleInit PROVE IInv
  OBVIOUS
<1> USE DEF ConsoleInit
<1>1. GoodRow(NoRow)
  BY NoRowIsGood
<1>2. ConsoleTypeOK
  BY <1>1, ConsoleAssumption DEF ConsoleTypeOK, GoodRow, Volume
<1>3. Ids /\ AllReqOK
  BY <1>1 DEF Ids, AllReqOK
<1>4. NothingDangles /\ AttachmentsJoin
  BY DEF NothingDangles, AttachmentsJoin
<1> QED
  BY <1>2, <1>3, <1>4 DEF IInv

(***************************************************************************)
(* The reads, and the requests that end without a write.                   *)
(***************************************************************************)
LEMMA ReadKeeps ==
  ASSUME IInv, NEW op, NEW id, NEW row, Read(op, id, row),
         Sound(NewRequest(op, id, row)), ReqOK(NewRequest(op, id, row))
  PROVE  IInv'
<1> DEFINE o == NewRequest(op, id, row)
<1>1. [o EXCEPT !.held = Sound(o)] = o
  BY Zenon DEF NewRequest, ReqOK
<1>2. pend' = pend \cup {o} /\ UNCHANGED <<rows, data, loose>>
  BY <1>1 DEF Read
<1> HIDE DEF o
<1>3. UNCHANGED <<used, projects, live, app, dbs, home, atts, sources, bound, volRows, volumes, mounts, loose>>
  BY <1>2 DEF rows, data
<1>4. \A q : ReqOK(q)' <=> ReqOK(q)
  BY <1>3 DEF ReqOK, GoodRow
<1>5. AllReqOK'
  BY <1>2, <1>4 DEF AllReqOK, IInv, o
<1>6. ConsoleTypeOK' /\ Ids' /\ NothingDangles' /\ AttachmentsJoin'
  BY <1>3 DEF IInv, ConsoleTypeOK, Ids, NothingDangles, AttachmentsJoin, Usable
<1> QED
  BY <1>5, <1>6 DEF IInv

\* A request that ends without a write.
LEMMA AbandonKeeps ==
  ASSUME IInv, NEW o, Abandon(o)
  PROVE  IInv'
<1>1. UNCHANGED <<used, projects, live, app, dbs, home, atts, sources, bound, volRows, volumes, mounts, loose>>
      /\ pend' \subseteq pend
  BY DEF Abandon, rows, data
<1>2. AllReqOK'
  BY <1>1 DEF AllReqOK, IInv, ReqOK
<1>3. ConsoleTypeOK' /\ Ids' /\ NothingDangles' /\ AttachmentsJoin'
  BY <1>1 DEF IInv, ConsoleTypeOK, Ids, NothingDangles, AttachmentsJoin, Usable
<1> QED
  BY <1>2, <1>3 DEF IInv

\* What a request has read is there at that moment.
LEMMA StartKeeps == ASSUME IInv, Start PROVE IInv'
<1> USE DEF NewRequest
<1>1. Ids
  BY DEF IInv
<1>2. ASSUME NEW a \in App, NEW p \in Project, DeployTemplateRead(a, p) PROVE IInv'
  <2> DEFINE row == NewRow(p, "compose", "template", NoSource)
  <2>1. GoodRow(row) /\ row.project = p /\ row.git = NoSource
    BY NewRowIsGood, ConsoleAssumption DEF Kind
  <2> HIDE DEF row
  <2>2. Read("create", a, row) /\ p \in projects
    BY <1>2 DEF DeployTemplateRead, row
  <2>3. Sound(NewRequest("create", a, row))
    BY <2>1, <2>2 DEF Sound, Usable
  <2>4. ReqOK(NewRequest("create", a, row))
    BY <2>1 DEF ReqOK
  <2> QED
    BY <2>2, <2>3, <2>4, ReadKeeps
<1>3. ASSUME NEW a \in App, NEW p \in Project, NEW k \in Kind, NEW g \in Source \cup {NoSource},
             CreateAppRead(a, p, k, g)
      PROVE  IInv'
  <2> DEFINE row == Fetch(g, p, k)
  <2>1. GoodRow(row) /\ row.project = p /\ row.git = g
    BY FetchIsGood
  <2> HIDE DEF row
  <2>2. Read("create", a, row) /\ p \in projects /\ Usable(g)
    BY <1>1, <1>3, ResolvedIsUsable DEF CreateAppRead, row
  <2>3. Sound(NewRequest("create", a, row))
    BY <2>1, <2>2 DEF Sound
  <2>4. ReqOK(NewRequest("create", a, row))
    BY <2>1 DEF ReqOK
  <2> QED
    BY <2>2, <2>3, <2>4, ReadKeeps
<1>4. ASSUME NEW d \in Db, NEW p \in Project, CreateDatabaseRead(d, p) PROVE IInv'
  <2> DEFINE row == NewRow(p, "nixpacks", "public", NoSource)
  <2>1. GoodRow(row) /\ row.project = p /\ row.git = NoSource
    BY NewRowIsGood, ConsoleAssumption DEF Kind
  <2> HIDE DEF row
  <2>2. Read("createDb", d, row) /\ p \in projects
    BY <1>4 DEF CreateDatabaseRead, row
  <2>3. Sound(NewRequest("createDb", d, row))
    BY <2>1, <2>2 DEF Sound, Usable
  <2>4. ReqOK(NewRequest("createDb", d, row))
    BY <2>1 DEF ReqOK
  <2> QED
    BY <2>2, <2>3, <2>4, ReadKeeps
<1>5. ASSUME NEW a \in App, AppSettingsRead(a) PROVE IInv'
  <2> DEFINE row == NewRow(DefaultProject, app[a].kind, "public", NoSource)
  <2>1. app[a].kind \in Kind
    BY <1>1 DEF Ids, GoodRow, AppRow
  <2>2. GoodRow(row)
    BY <2>1, NewRowIsGood, ConsoleAssumption
  <2> HIDE DEF row
  <2>3. Read("settings", a, row)
    BY <1>5 DEF AppSettingsRead, row
  <2>4. Sound(NewRequest("settings", a, row))
    BY DEF Sound
  <2>5. ReqOK(NewRequest("settings", a, row))
    BY <2>2 DEF ReqOK
  <2> QED
    BY <2>3, <2>4, <2>5, ReadKeeps
<1>6. ASSUME NEW a \in App, NEW g \in Source \cup {NoSource}, UpdateSourceRead(a, g) PROVE IInv'
  <2> DEFINE row == Fetch(g, DefaultProject, "nixpacks")
  <2>1. GoodRow(row) /\ row.git = g
    BY FetchIsGood, ConsoleAssumption DEF Kind
  <2> HIDE DEF row
  <2>2. Read("source", a, row) /\ Usable(g)
    BY <1>1, <1>6, ResolvedIsUsable DEF UpdateSourceRead, row
  <2>3. Sound(NewRequest("source", a, row))
    BY <2>1, <2>2 DEF Sound
  <2>4. ReqOK(NewRequest("source", a, row))
    BY <2>1 DEF ReqOK
  <2> QED
    BY <2>2, <2>3, <2>4, ReadKeeps
<1>7. ASSUME NEW a \in App, NEW d \in Db, AttachRead(a, d) PROVE IInv'
  <2>1. Read("attach", <<a, d>>, NoRow)
    BY <1>7 DEF AttachRead
  <2>2. Sound(NewRequest("attach", <<a, d>>, NoRow))
    BY DEF Sound
  <2>3. ReqOK(NewRequest("attach", <<a, d>>, NoRow))
    BY <1>1, <1>7 DEF ReqOK, AttachRead, Ids
  <2> QED
    BY <2>1, <2>2, <2>3, ReadKeeps
<1>8. ASSUME NEW s \in Source, DropSourceRead(s) PROVE IInv'
  <2>1. Read("drop", s, NoRow) /\ Users(s) = {}
    BY <1>8 DEF DropSourceRead
  <2>2. Sound(NewRequest("drop", s, NoRow))
    BY <2>1 DEF Sound
  <2>3. ReqOK(NewRequest("drop", s, NoRow))
    BY DEF ReqOK
  <2> QED
    BY <2>1, <2>2, <2>3, ReadKeeps
<1>9. ASSUME NEW v \in volumes, ReclaimRead(v) PROVE IInv'
  <2>1. Read("reclaim", v, NoRow) /\ Orphan(v)
    BY <1>9 DEF ReclaimRead
  <2>2. Sound(NewRequest("reclaim", v, NoRow))
    BY <2>1 DEF Sound
  <2>3. ReqOK(NewRequest("reclaim", v, NoRow))
    BY DEF ReqOK
  <2> QED
    BY <2>1, <2>2, <2>3, ReadKeeps
<1> QED
  BY <1>2, <1>3, <1>4, <1>5, <1>6, <1>7, <1>8, <1>9 DEF Start

(***************************************************************************)
(* The writes.                                                             *)
(***************************************************************************)
LEMMA SettledSoundly ==
  ASSUME IInv, NEW o \in pend, NEW touched, Written(o, touched)
  PROVE  /\ pend' = pend \ {o}
         /\ loose' = loose \/ (loose' = loose \cup touched /\ ~Sound(o))
         /\ Sound(o) \/ loose' = loose \cup touched
         /\ ReqOK(o)
  BY DEF IInv, AllReqOK, ReqOK, Written

\* What an insertion refers to is there, or an overlap explains that it is not.
LEMMA InsertKeeps ==
  ASSUME IInv, NEW a \in App, a \notin used, NEW row, GoodRow(row), Insert(a, row),
         loose \subseteq loose', loose' \subseteq loose \cup {a},
         a \in loose' \/ (row.project \in projects /\ Usable(row.git)),
         pend' = pend \/ \E o \in pend : pend' = pend \ {o}
  PROVE  IInv'
<1> USE DEF IInv
<1>1. used' = used \cup {a} /\ live' = live \cup {a} /\ app' = [app EXCEPT ![a] = row]
      /\ UNCHANGED <<projects, dbs, home, atts, sources, bound, volRows, volumes, mounts>>
  BY DEF Insert, data
<1>2. a \notin live /\ app' \in [App -> AppRow] /\ app'[a] = row
      /\ \A b \in App \ {a} : app'[b] = app[b]
  BY <1>1 DEF Ids, ConsoleTypeOK, GoodRow
<1>3. ConsoleTypeOK'
  BY <1>1, <1>2 DEF ConsoleTypeOK
<1>4. Ids'
  BY <1>1, <1>2 DEF Ids, GoodRow
<1>5. AllReqOK'
  <2>1. \A q : ReqOK(q) => ReqOK(q)'
    BY <1>1, <1>2 DEF ReqOK, GoodRow, Ids, ConsoleTypeOK
  <2> QED
    BY <2>1 DEF AllReqOK
<1>6. NothingDangles'
  BY <1>1, <1>2 DEF NothingDangles, Usable, GoodRow, ConsoleTypeOK
<1>7. AttachmentsJoin'
  BY <1>1, <1>2 DEF AttachmentsJoin, ConsoleTypeOK
<1> QED
  BY <1>3, <1>4, <1>5, <1>6, <1>7

\* What a form may change of an app: its kind and paths, or where it is fetched from.
LEMMA SetRowKeeps ==
  ASSUME IInv, NEW a \in App, NEW row, GoodRow(row), row.project = app[a].project,
         SetRow(a, row),
         loose \subseteq loose', loose' \subseteq loose \cup App,
         a \in live => a \in loose' \/ Usable(row.git) \/ row.git = app[a].git,
         pend' = pend \/ \E o \in pend : pend' = pend \ {o}
  PROVE  IInv'
<1> USE DEF IInv
<1>1. app' = (IF a \in live THEN [app EXCEPT ![a] = row] ELSE app)
      /\ UNCHANGED <<used, projects, live, dbs, home, atts, sources, bound, volRows, volumes, mounts>>
  BY DEF SetRow, data
<1>2. app' \in [App -> AppRow] /\ (\A b \in App : GoodRow(app'[b]) /\ app'[b].project = app[b].project)
      /\ (a \in live => app'[a] = row) /\ \A b \in App \ {a} : app'[b] = app[b]
  BY <1>1 DEF Ids, ConsoleTypeOK, GoodRow
<1>3. ConsoleTypeOK'
  BY <1>1, <1>2 DEF ConsoleTypeOK
<1>4. Ids'
  BY <1>1, <1>2 DEF Ids, GoodRow
<1>5. AllReqOK'
  <2>1. \A q : ReqOK(q) => ReqOK(q)'
    BY <1>1, <1>2 DEF ReqOK, GoodRow, ConsoleTypeOK
  <2> QED
    BY <2>1 DEF AllReqOK
<1>6. NothingDangles'
  BY <1>1, <1>2 DEF NothingDangles, Usable, GoodRow, ConsoleTypeOK
<1>7. AttachmentsJoin'
  BY <1>1, <1>2 DEF AttachmentsJoin, ConsoleTypeOK
<1> QED
  BY <1>3, <1>4, <1>5, <1>6, <1>7

\* The second half of every request.
LEMMA WriteKeeps == ASSUME IInv, NEW o \in pend, Write(o) PROVE IInv'
<1> USE DEF IInv
<1>0. ReqOK(o)
  BY DEF AllReqOK
<1>1. ASSUME CreateAppWithDomains(o) PROVE IInv'
  <2>1. CASE Abandon(o)
    BY <2>1, AbandonKeeps
  <2>2. CASE o.id \notin used /\ Insert(o.id, o.row) /\ Written(o, {o.id})
    <3>1. o.id \in App /\ GoodRow(o.row) /\ o.op = "create"
      BY <1>0, <1>1 DEF CreateAppWithDomains, ReqOK
    <3>2. /\ pend' = pend \ {o}
          /\ loose' = loose \/ loose' = loose \cup {o.id}
          /\ Sound(o) \/ loose' = loose \cup {o.id}
      BY <2>2, SettledSoundly
    <3>3. o.id \in loose' \/ (o.row.project \in projects /\ Usable(o.row.git))
      BY <3>1, <3>2 DEF Sound
    <3>4. loose \subseteq loose' /\ loose' \subseteq loose \cup {o.id}
      BY <3>2
    <3> QED
      BY <2>2, <3>1, <3>2, <3>3, <3>4, InsertKeeps
  <2> QED
    BY <1>1, <2>1, <2>2 DEF CreateAppWithDomains
<1>2. ASSUME CreateDatabase(o) PROVE IInv'
  <2>1. CASE Abandon(o)
    BY <2>1, AbandonKeeps
  <2>2. CASE o.id \notin used /\ ~Abandon(o)
    <3>1. o.id \in Db /\ GoodRow(o.row) /\ o.op = "createDb" /\ o.row.project \in Project
      BY <1>0, <1>2 DEF CreateDatabase, ReqOK, GoodRow, AppRow
    <3>2. /\ Written(o, {o.id})
          /\ used' = used \cup {o.id} /\ dbs' = dbs \cup {o.id}
          /\ home' = [home EXCEPT ![o.id] = o.row.project]
          /\ UNCHANGED <<projects, live, app, atts, sources, bound, volRows, volumes, mounts>>
      BY <1>2, <2>2 DEF CreateDatabase, data
    <3>3. /\ pend' = pend \ {o}
          /\ loose' = loose \/ loose' = loose \cup {o.id}
          /\ Sound(o) \/ loose' = loose \cup {o.id}
      BY <3>2, SettledSoundly
    <3>4. o.id \in loose' \/ o.row.project \in projects
      BY <3>1, <3>3 DEF Sound
    <3>5. o.id \notin dbs /\ home' \in [Db -> Project] /\ home'[o.id] = o.row.project
          /\ \A d \in Db \ {o.id} : home'[d] = home[d]
      BY <2>2, <3>1, <3>2 DEF Ids, ConsoleTypeOK
    <3>6. ConsoleTypeOK'
      BY <3>1, <3>2, <3>5 DEF ConsoleTypeOK
    <3>7. Ids'
      BY <3>1, <3>2, <3>3 DEF Ids, GoodRow
    <3>8. AllReqOK'
      <4>1. \A q : ReqOK(q) => ReqOK(q)'
        BY <2>2, <3>2, <3>5 DEF ReqOK, GoodRow, ConsoleTypeOK
      <4> QED
        BY <4>1, <3>3 DEF AllReqOK
    <3>9. NothingDangles'
      BY <3>1, <3>2, <3>3, <3>4, <3>5 DEF NothingDangles, Usable, ConsoleTypeOK
    <3>10. AttachmentsJoin'
      BY <3>2, <3>5 DEF AttachmentsJoin, ConsoleTypeOK
    <3> QED
      BY <3>6, <3>7, <3>8, <3>9, <3>10
  <2> QED
    BY <1>2, <2>1, <2>2 DEF CreateDatabase
<1>3. ASSUME UpdateAppPath(o) PROVE IInv'
  <2> DEFINE row == IF o.row.kind = "compose" THEN [app[o.id] EXCEPT !.composePath = TRUE]
                    ELSE [app[o.id] EXCEPT !.dockerfilePath = TRUE]
  <2>1. o.id \in App /\ GoodRow(app[o.id])
    BY <1>0, <1>3 DEF UpdateAppPath, ReqOK, Ids
  <2>2. GoodRow(row) /\ row.project = app[o.id].project /\ row.git = app[o.id].git
    BY <2>1 DEF GoodRow, AppRow
  <2>3. SetRow(o.id, row) /\ Written(o, {})
    BY <1>3 DEF UpdateAppPath
  <2> HIDE DEF row
  <2>4. pend' = pend \ {o} /\ loose' = loose
    BY <2>3, SettledSoundly
  <2> QED
    BY <2>1, <2>2, <2>3, <2>4, SetRowKeeps
<1>4. ASSUME UpdateAppSource(o) PROVE IInv'
  <2> DEFINE row == [app[o.id] EXCEPT !.source = o.row.source, !.git = o.row.git]
  <2>1. o.id \in App /\ GoodRow(app[o.id]) /\ GoodRow(o.row) /\ o.op = "source"
    BY <1>0, <1>4 DEF UpdateAppSource, ReqOK, Ids
  <2>2. GoodRow(row) /\ row.project = app[o.id].project /\ row.git = o.row.git
    BY <2>1 DEF GoodRow, AppRow
  <2>3. SetRow(o.id, row) /\ Written(o, {o.id} \cap live)
    BY <1>4 DEF UpdateAppSource
  <2> HIDE DEF row
  <2>4. /\ pend' = pend \ {o}
        /\ loose' = loose \/ loose' = loose \cup ({o.id} \cap live)
        /\ Sound(o) \/ loose' = loose \cup ({o.id} \cap live)
    BY <2>3, SettledSoundly
  <2>5. o.id \in live => o.id \in loose' \/ Usable(row.git)
    BY <2>1, <2>2, <2>4 DEF Sound
  <2>6. loose \subseteq loose' /\ loose' \subseteq loose \cup App
    BY <2>1, <2>4
  <2> QED
    BY <2>1, <2>2, <2>3, <2>4, <2>5, <2>6, SetRowKeeps
<1>5. ASSUME AttachDatabase(o) PROVE IInv'
  <2>1. CASE Abandon(o)
    BY <2>1, AbandonKeeps
  <2>2. CASE o.id[1] \in live /\ o.id[2] \in dbs
    <3>1. o.id \in App \X Db /\ app[o.id[1]].project = home[o.id[2]]
      BY <1>0, <1>5, <2>2 DEF AttachDatabase, ReqOK
    <3>2. atts' = atts \cup {o.id} /\ Written(o, {})
          /\ UNCHANGED <<used, projects, live, app, dbs, home, sources, bound, volRows, volumes, mounts>>
      BY <1>5, <2>2 DEF AttachDatabase, data
    <3>3. pend' = pend \ {o} /\ loose' = loose
      BY <3>2, SettledSoundly
    <3>4. ConsoleTypeOK' /\ Ids' /\ NothingDangles'
      BY <2>2, <3>1, <3>2, <3>3 DEF ConsoleTypeOK, Ids, NothingDangles, Usable, GoodRow
    <3>5. AllReqOK'
      BY <3>2, <3>3 DEF AllReqOK, ReqOK, GoodRow
    <3>6. AttachmentsJoin'
      BY <2>2, <3>1, <3>2 DEF AttachmentsJoin
    <3> QED
      BY <3>4, <3>5, <3>6
  <2> QED
    BY <1>5, <2>1, <2>2 DEF AttachDatabase
<1>6. ASSUME DropSource(o) PROVE IInv'
  <2>1. o.id \in Source /\ sources' = sources \ {o.id} /\ bound' = [bound EXCEPT ![o.id] = NoSource]
        /\ Written(o, Users(o.id)) /\ o.op = "drop"
        /\ UNCHANGED <<used, projects, live, app, dbs, home, atts, volRows, volumes, mounts>>
    BY <1>0, <1>6 DEF DropSource, DeleteGitSource, ReqOK, data
  <2>2. /\ pend' = pend \ {o}
        /\ loose' = loose \/ loose' = loose \cup Users(o.id)
        /\ Sound(o) \/ loose' = loose \cup Users(o.id)
    BY <2>1, SettledSoundly
  <2>3. \A a \in live \ loose' : app[a].git # o.id
    BY <2>1, <2>2 DEF Sound, Users
  <2>4. Users(o.id) \subseteq App
    BY DEF Users, ConsoleTypeOK
  <2>5. ConsoleTypeOK'
    BY <2>1 DEF ConsoleTypeOK
  <2>6. Ids'
    BY <2>1, <2>2, <2>4 DEF Ids, GoodRow, ConsoleTypeOK
  <2>7. AllReqOK'
    BY <2>1, <2>2 DEF AllReqOK, ReqOK, GoodRow
  <2>8. NothingDangles'
    BY <2>1, <2>2, <2>3 DEF NothingDangles, Usable, ConsoleTypeOK, AppRow
  <2>9. AttachmentsJoin'
    BY <2>1 DEF AttachmentsJoin
  <2> QED
    BY <2>5, <2>6, <2>7, <2>8, <2>9
<1>7. ASSUME ReclaimVolume(o) PROVE IInv'
  <2>1. CASE Abandon(o)
    BY <2>1, AbandonKeeps
  <2>2. CASE CanRemove(o.id)
    <3>1. volumes' = volumes \ {o.id} /\ Written(o, {})
          /\ UNCHANGED <<used, projects, live, app, dbs, home, atts, sources, bound, volRows, mounts>>
      BY <1>7, <2>2 DEF ReclaimVolume, rows
    <3>2. pend' = pend \ {o} /\ loose' = loose
      BY <3>1, SettledSoundly
    <3>3. ConsoleTypeOK'
      BY <2>2, <3>1 DEF ConsoleTypeOK, CanRemove
    <3>4. Ids' /\ NothingDangles' /\ AttachmentsJoin' /\ AllReqOK'
      BY <3>1, <3>2 DEF Ids, NothingDangles, Usable, AttachmentsJoin, AllReqOK, ReqOK, GoodRow
    <3> QED
      BY <3>3, <3>4
  <2> QED
    BY <1>7, <2>1, <2>2 DEF ReclaimVolume
<1> QED
  BY <1>1, <1>2, <1>3, <1>4, <1>5, <1>6, <1>7 DEF Write

(***************************************************************************)
(* The operations that are one transaction.                                *)
(***************************************************************************)
LEMMA AtOnceKeeps == ASSUME IInv, AtOnce PROVE IInv'
<1> USE DEF IInv
<1>1. ASSUME NEW p \in Project, handleCreateProject(p) \/ handleDeleteProject(p) PROVE IInv'
  <2>1. /\ used \subseteq used'
        /\ UNCHANGED <<live, app, dbs, home, atts, sources, bound, volRows, volumes, mounts, pend, loose>>
    BY <1>1 DEF handleCreateProject, handleDeleteProject, CreateProject, notProjects, data
  <2>2. projects' \subseteq Project
        /\ (\A a \in live : app[a].project \in projects => app[a].project \in projects')
        /\ (\A d \in dbs : home[d] \in projects => home[d] \in projects')
    BY <1>1 DEF handleCreateProject, handleDeleteProject, CreateProject, DeleteProject, ConsoleTypeOK
  <2>3. ConsoleTypeOK' /\ Ids'
    BY <2>1, <2>2 DEF ConsoleTypeOK, Ids, GoodRow
  <2>4. AllReqOK'
    BY <2>1 DEF AllReqOK, ReqOK, GoodRow
  <2>5. NothingDangles' /\ AttachmentsJoin'
    BY <2>1, <2>2 DEF NothingDangles, Usable, AttachmentsJoin
  <2> QED
    BY <2>3, <2>4, <2>5
<1>2. ASSUME NEW a \in App, DeleteApp(a) PROVE IInv'
  <2>1. /\ live' = live \ {a} /\ app' = [app EXCEPT ![a] = NoRow]
        /\ atts' = {t \in atts : t[1] # a} /\ volRows' = volRows \ {a} /\ loose' = loose \ {a}
        /\ mounts' \subseteq mounts
        /\ UNCHANGED <<used, projects, dbs, home, sources, bound, volumes, pend>>
    BY <1>2 DEF DeleteApp
  <2>2. GoodRow(NoRow)
    BY NoRowIsGood
  <2>3. app' \in [App -> AppRow] /\ (\A b \in App : GoodRow(app'[b]))
        /\ \A b \in live' : app'[b] = app[b]
    BY <2>1, <2>2 DEF ConsoleTypeOK, Ids, GoodRow
  <2>4. ConsoleTypeOK'
    BY <2>1, <2>3 DEF ConsoleTypeOK
  <2>5. Ids'
    BY <2>1, <2>3 DEF Ids, GoodRow
  <2>6. AllReqOK'
    BY <2>1, <2>3 DEF AllReqOK, ReqOK, GoodRow
  <2>7. dbs \cap {a} = {}
    BY ConsoleAssumption DEF ConsoleTypeOK
  <2>8. NothingDangles'
    BY <2>1, <2>3, <2>7 DEF NothingDangles, Usable
  <2>9. AttachmentsJoin'
    BY <2>1, <2>3 DEF AttachmentsJoin
  <2> QED
    BY <2>4, <2>5, <2>6, <2>8, <2>9
<1>3. ASSUME NEW a \in App, handleAddVolume(a) \/ handleDeleteVolume(a) \/ Deploy(a) PROVE IInv'
  <2>1. UNCHANGED <<used, projects, live, app, dbs, home, atts, sources, bound, pend, loose>>
    BY <1>3 DEF handleAddVolume, handleDeleteVolume, Deploy, rows
  <2>2. ASSUME Deploy(a)
        PROVE  volRows' \subseteq live /\ volumes' \subseteq Volume /\ mounts' \subseteq volumes'
    <3> DEFINE sort == IF app[a].kind = "compose" THEN "stack" ELSE "data"
               mounted == IF sort = "stack" THEN {<<a, sort>>} ELSE {VolumeName(b) : b \in volRows \cap {a}}
    <3>1. volumes' = volumes \cup mounted /\ mounts' = (mounts \ {<<a, sort>>}) \cup mounted
          /\ volRows' = volRows
      BY <2>2 DEF Deploy
    <3>2. mounted \subseteq Volume
      BY DEF Volume, VolumeName
    <3> HIDE DEF mounted
    <3> QED
      BY <3>1, <3>2 DEF ConsoleTypeOK
  <2>3. ASSUME handleAddVolume(a) \/ handleDeleteVolume(a)
        PROVE  volRows' \subseteq live /\ volumes' \subseteq Volume /\ mounts' \subseteq volumes'
    BY <2>3 DEF handleAddVolume, handleDeleteVolume, AddVolume, DeleteVolume, ConsoleTypeOK
  <2>4. volRows' \subseteq live' /\ volumes' \subseteq Volume /\ mounts' \subseteq volumes'
    BY <1>3, <2>1, <2>2, <2>3
  <2>5. ConsoleTypeOK'
    BY <2>1, <2>4 DEF ConsoleTypeOK
  <2>6. Ids' /\ AllReqOK' /\ NothingDangles' /\ AttachmentsJoin'
    BY <2>1 DEF Ids, GoodRow, AllReqOK, ReqOK, NothingDangles, Usable, AttachmentsJoin
  <2> QED
    BY <2>5, <2>6
<1>4. ASSUME NEW a \in App, NEW k \in Kind, UpdateAppKind(a, k) PROVE IInv'
  <2> DEFINE row == [app[a] EXCEPT !.kind = k, !.composePath = k = "compose",
                                   !.dockerfilePath = k = "dockerfile"]
  <2>1. GoodRow(app[a])
    BY DEF Ids
  <2>2. GoodRow(row) /\ row.project = app[a].project /\ row.git = app[a].git
    BY <2>1 DEF GoodRow, AppRow, Kind
  <2>3. SetRow(a, row) /\ UNCHANGED <<pend, loose>>
    BY <1>4 DEF UpdateAppKind
  <2> HIDE DEF row
  <2> QED
    BY <2>2, <2>3, SetRowKeeps
<1>5. ASSUME NEW a \in App, NEW k \in Kind, ColdCreate(a, k) PROVE IInv'
  <2> DEFINE row == NewRow(DefaultProject, k, "public", NoSource)
  <2>1. GoodRow(row) /\ row.project = DefaultProject /\ Usable(row.git)
    BY NewRowIsGood, ConsoleAssumption DEF Usable
  <2>2. a \notin used /\ Insert(a, row) /\ pend' = pend
        /\ loose' = IF DefaultProject \in projects THEN loose ELSE loose \cup {a}
    BY <1>5 DEF ColdCreate
  <2> HIDE DEF row
  <2> QED
    BY <2>1, <2>2, InsertKeeps
<1>6. ASSUME NEW d \in Db, DeleteDatabase(d) PROVE IInv'
  <2>1. /\ \A t \in atts : t[2] # d
        /\ dbs' = dbs \ {d} /\ home' = [home EXCEPT ![d] = DefaultProject] /\ loose' = loose \ {d}
        /\ UNCHANGED <<used, projects, live, app, atts, sources, bound, volRows, volumes, mounts, pend>>
    BY <1>6 DEF DeleteDatabase, data
  <2>2. home' \in [Db -> Project] /\ \A e \in dbs' : home'[e] = home[e]
    BY <2>1, ConsoleAssumption DEF ConsoleTypeOK
  <2>3. live \cap {d} = {}
    BY ConsoleAssumption DEF ConsoleTypeOK
  <2>4. ConsoleTypeOK'
    BY <2>1, <2>2 DEF ConsoleTypeOK
  <2>5. Ids'
    BY <2>1 DEF Ids, GoodRow
  <2>6. AllReqOK'
    BY <2>1, <2>2 DEF AllReqOK, ReqOK, GoodRow
  <2>7. NothingDangles'
    BY <2>1, <2>2, <2>3 DEF NothingDangles, Usable
  <2>8. AttachmentsJoin'
    BY <2>1, <2>2 DEF AttachmentsJoin, ConsoleTypeOK
  <2> QED
    BY <2>4, <2>5, <2>6, <2>7, <2>8
<1>7. ASSUME NEW t \in atts, handleDetachDatabase(t) PROVE IInv'
  <2>1. atts' \subseteq atts
        /\ UNCHANGED <<used, projects, live, app, dbs, home, sources, bound, volRows, volumes, mounts, pend, loose>>
    BY <1>7 DEF handleDetachDatabase, DetachDatabase, data
  <2>2. ConsoleTypeOK' /\ Ids' /\ NothingDangles' /\ AttachmentsJoin'
    BY <2>1 DEF ConsoleTypeOK, Ids, GoodRow, NothingDangles, Usable, AttachmentsJoin
  <2>3. AllReqOK'
    BY <2>1 DEF AllReqOK, ReqOK, GoodRow
  <2> QED
    BY <2>2, <2>3
<1>8. ASSUME NEW s \in Source, handleGithubCallback(s) \/ handleGithubSetup(s) PROVE IInv'
  <2>1. /\ used \subseteq used' /\ sources \subseteq sources' /\ sources' \subseteq Source
        /\ bound' \in [Source -> Source \cup {NoSource}]
        /\ \A x \in Source : bound'[x] = bound[x] \/ bound'[x] = x
        /\ UNCHANGED <<projects, live, app, dbs, home, atts, volRows, volumes, mounts, pend, loose>>
    <3>1. CASE handleGithubCallback(s)
      BY <3>1 DEF handleGithubCallback, CreateGithubAppSource, ConsoleTypeOK, data
    <3>2. CASE handleGithubSetup(s)
      BY <3>2 DEF handleGithubSetup, BindGithubInstallation, Candidates, Owns, ConsoleTypeOK, data
    <3> QED
      BY <1>8, <3>1, <3>2
  <2>2. ConsoleTypeOK' /\ Ids'
    BY <2>1 DEF ConsoleTypeOK, Ids, GoodRow
  <2>3. AllReqOK'
    BY <2>1 DEF AllReqOK, ReqOK, GoodRow
  <2>4. NothingDangles' /\ AttachmentsJoin'
    BY <2>1 DEF NothingDangles, Usable, AttachmentsJoin, ConsoleTypeOK, AppRow
  <2> QED
    BY <2>2, <2>3, <2>4
<1> QED
  BY <1>1, <1>2, <1>3, <1>4, <1>5, <1>6, <1>7, <1>8 DEF AtOnce

\* Every step of the console keeps the invariant.
LEMMA ConsoleStep == IInv /\ [ConsoleNext]_consoleVars => IInv'
<1> SUFFICES ASSUME IInv, [ConsoleNext]_consoleVars PROVE IInv'
  OBVIOUS
<1>1. CASE UNCHANGED consoleVars
  <2>1. UNCHANGED <<used, projects, live, app, dbs, home, atts, sources, bound, volRows, volumes,
                    mounts, pend, loose>>
    BY <1>1 DEF consoleVars, rows, data
  <2>2. ConsoleTypeOK' /\ Ids' /\ NothingDangles' /\ AttachmentsJoin'
    BY <2>1 DEF IInv, ConsoleTypeOK, Ids, GoodRow, NothingDangles, Usable, AttachmentsJoin
  <2>3. AllReqOK'
    BY <2>1 DEF IInv, AllReqOK, ReqOK, GoodRow
  <2> QED
    BY <2>2, <2>3 DEF IInv
<1> QED
  BY <1>1, StartKeeps, WriteKeeps, AbandonKeeps, AtOnceKeeps DEF ConsoleNext

\* Whatever overlaps, no reference dangles but those that the overlap of a request with
\* a removal explains (internal/store, and the handlers that guard its rows).
THEOREM ReferencesHold == ConsoleSpec => []ConsoleInv
<1>1. IInv => ConsoleInv
  BY DEF IInv, ConsoleInv
<1> QED
  BY <1>1, ConsoleStart, ConsoleStep, PTL DEF ConsoleSpec

\* The next deploy of an app finds the file of its kind (handlers.go:377-502).
THEOREM KindsHavePaths == ConsoleSpec => []KindHasItsPath
<1>1. IInv => KindHasItsPath
  BY DEF IInv, Ids, ConsoleTypeOK, GoodRow, KindHasItsPath
<1> QED
  BY <1>1, ConsoleStart, ConsoleStep, PTL DEF ConsoleSpec

\* Only a request that saw a volume without an owner removes it, and Docker refuses it
\* while a container mounts it (volumes_page.go:102-136).
THEOREM DataIsKept == ConsoleSpec => DataKept
<1> DEFINE Removed(v) == /\ v \notin mounts
                         /\ \E o \in pend \ pend' : o.op = "reclaim" /\ o.id = v /\ o.held
<1>1. ASSUME IInv, ConsoleNext, NEW v \in volumes \ volumes' PROVE Removed(v)
  <2>1. ASSUME NEW o \in pend, ReclaimVolume(o), CanRemove(o.id) PROVE Removed(v)
    BY <1>1, <2>1 DEF ReclaimVolume, CanRemove, Written, IInv, AllReqOK, ReqOK
  <2>2. ASSUME Start PROVE volumes' = volumes
    BY <2>2 DEF Start, Read, data, CreateAppRead, DeployTemplateRead, CreateDatabaseRead,
                AppSettingsRead, UpdateSourceRead, AttachRead, DropSourceRead, ReclaimRead
  <2>3. ASSUME NEW o, Abandon(o) PROVE volumes' = volumes
    BY <2>3 DEF Abandon, data
  <2>4. ASSUME NEW o \in pend, Write(o), ~(ReclaimVolume(o) /\ CanRemove(o.id))
        PROVE  volumes' = volumes
    BY <2>3, <2>4 DEF Write, data, CreateAppWithDomains, Insert, CreateDatabase, UpdateAppPath, SetRow,
                UpdateAppSource, AttachDatabase, DropSource, ReclaimVolume
  <2>5. ASSUME AtOnce PROVE volumes \subseteq volumes'
    BY <2>5 DEF AtOnce, data, notProjects, handleCreateProject, handleDeleteProject, DeleteApp,
                handleAddVolume, handleDeleteVolume, Deploy, UpdateAppKind, SetRow, ColdCreate, Insert,
                DeleteDatabase, handleDetachDatabase, handleGithubCallback, handleGithubSetup
  <2> QED
    BY <1>1, <2>1, <2>2, <2>3, <2>4, <2>5 DEF ConsoleNext
<1>2. ASSUME UNCHANGED consoleVars PROVE volumes' = volumes
  BY <1>2 DEF consoleVars, data
<1>3. IInv /\ [ConsoleNext]_consoleVars => [\A v \in volumes \ volumes' : Removed(v)]_consoleVars
  BY <1>1, <1>2
<1> QED
  BY <1>3, ConsoleStart, ConsoleStep, PTL DEF ConsoleSpec, DataKept

-----------------------------------------------------------------------------
(***************************************************************************)
(* The update.  The hold is up for the whole of one, when the updater starts *)
(* within two minutes of the request.                                      *)
(***************************************************************************)

CallOK ==
  call \in [who : Caller \cup {"nobody"},
            at : {"idle", "status", "stat", "remove", "record", "create"}]

\* Why BusyIsVisible holds: a run begins with a request in the directory, which only
\* the updater takes away while it runs, and not before the status says running; the
\* goroutine that removes a stale request has the mutex, and the updater does not start
\* on a stale one.
HoldInv ==
  /\ CallOK
  /\ request \in {"none", "fresh", "stale"}
  /\ request = "stale" => stage = "idle"
  /\ call.at = "remove" => request = "stale"
  /\ call.at = "record" => request = "none" /\ stage = "idle"
  /\ stage = "begin" => request = "fresh"
  /\ stage \notin {"idle", "begin"} => state = "running"

\* Before any update nothing is held.
LEMMA HoldInit == Init => HoldInv
  BY DEF Init, HoldInv, CallOK, NoCall, Caller

\* Every step keeps the hold, when the updater is not late.
LEMMA HoldStep == HoldInv /\ ~LateClaim /\ [Next]_vars => HoldInv'
<1> SUFFICES ASSUME HoldInv, ~LateClaim, [Next]_vars PROVE HoldInv'
  OBVIOUS
<1> USE DEF HoldInv, CallOK, files, outhaul, disk
<1>1. CASE ReadStatus
  BY <1>1 DEF ReadStatus, Answer, NoCall, Caller
<1>2. CASE StatRequest
  BY <1>2 DEF StatRequest, Answer, NoCall, Caller
<1>3. CASE RemoveStale
  BY <1>3 DEF RemoveStale
<1>4. CASE RecordNotStarted
  BY <1>4 DEF RecordNotStarted, Answer, NoCall, Caller
<1>5. CASE CreateRequest
  BY <1>5 DEF CreateRequest, NoCall, Caller
<1>6. ASSUME NEW c \in Click, PressUpdate(c) PROVE HoldInv'
  BY <1>6 DEF PressUpdate, Lock, NoCall, Caller
<1>7. ASSUME NEW c \in Click, updateBlocked(c) PROVE HoldInv'
  BY <1>7 DEF updateBlocked
<1>8. ASSUME NEW c \in Click, Request(c) PROVE HoldInv'
  BY <1>8 DEF Request, Lock, NoCall, Caller
<1>9. ASSUME NEW j \in Job, AskHold(j) PROVE HoldInv'
  BY <1>9 DEF AskHold, Lock, NoCall, Caller
<1>10. ASSUME NEW j \in Job, StartWork(j) \/ EndWork(j) PROVE HoldInv'
  BY <1>10 DEF StartWork, EndWork
<1>11. CASE Tick \/ PollPage
  BY <1>11 DEF Tick, PollPage, Lock, NoCall, Caller
<1>12. CASE ReportPage
  BY <1>12 DEF ReportPage
<1>13. CASE PathTrigger
  BY <1>13 DEF PathTrigger
<1>14. CASE ClaimRequest \/ ClaimFails \/ RemoveRequest
  BY <1>14 DEF ClaimRequest, ClaimFails, RemoveRequest
<1>15. CASE Build
  BY <1>15 DEF Build, Finish
<1>16. CASE StopOuthaul
  BY <1>16 DEF StopOuthaul, Killed, NoCall, Caller
<1>17. CASE Snapshot \/ InstallBinary \/ InstallUnit
  BY <1>17 DEF Snapshot, InstallBinary, InstallUnit
<1>18. CASE StartNew
  BY <1>18 DEF StartNew, Finish
<1>19. CASE RollBack
  BY <1>19 DEF RollBack, Killed, NoCall, Caller
<1>20. CASE RestoreSnapshot
  BY <1>20 DEF RestoreSnapshot
<1>21. CASE Restart
  BY <1>21 DEF Restart, Boot, Finish
<1>22. CASE PowerLoss
  BY <1>22 DEF PowerLoss, Killed, NoCall, Caller
<1>23. CASE TwoMinutes \/ FortyMinutes
  BY <1>23 DEF TwoMinutes, FortyMinutes
<1>24. CASE ByHand
  BY <1>24 DEF ByHand, Boot
<1>25. CASE UNCHANGED vars
  BY <1>25 DEF vars
<1> QED
  BY <1>1, <1>2, <1>3, <1>4, <1>5, <1>6, <1>7, <1>8, <1>9, <1>10, <1>11, <1>12, <1>13,
     <1>14, <1>15, <1>16, <1>17, <1>18, <1>19, <1>20, <1>21, <1>22, <1>23, <1>24, <1>25
  DEF Next, inProgress, updater

\* From the moment the updater is triggered to its last report, Outhaul sees that an
\* update is in progress, when the updater never starts later than two minutes after
\* the request: otherwise Outhaul removes the request under it (update/dir.go:108-121).
THEOREM BusyAlwaysVisible == ASSUME ~LateClaim PROVE UpdateSpec => []BusyIsVisible
<1>1. HoldInv => BusyIsVisible
  BY DEF HoldInv, BusyIsVisible, Pending
<1>2. HoldInv /\ [Next]_vars => HoldInv'
  BY HoldStep
<1> QED
  BY <1>1, <1>2, HoldInit, PTL DEF UpdateSpec

-----------------------------------------------------------------------------
(* The reported outcome is the one on the disk.                              *)

Stage == {"idle", "begin", "claimed", "build", "stop", "snapshot", "install", "install_unit",
          "start", "roll_back", "restore", "restart", "give_up"}

DiskOK ==
  /\ bin \in Version /\ unit \in Version /\ db \in Version
  /\ before \in Copy /\ stage \in Stage /\ snapOk \in BOOLEAN

\* Why ReportTellsTheTruth holds.  Between runs the report stands.  During one the status
\* says nothing final, and the disk is as it was until the snapshot has been taken, which
\* is then a copy of it; past the installation, the new version is ahead of both the old
\* binary and the database.  The way back knows by SNAPSHOT_OK which of the two it is.
TruthInv ==
  /\ DiskOK
  /\ stage \in {"idle", "begin"} =>
       /\ state \in {"up_to_date", "build_failed", "rolled_back"} => Unswapped
       /\ state = "updated" => bin > before.bin /\ unit = bin /\ db = bin
  /\ stage \notin {"idle", "begin"} => state \in {"running", "not_started"}
  /\ stage \in {"claimed", "build", "stop", "snapshot"} => Installed = before /\ ~snapOk
  /\ stage = "install" => Installed = before /\ snapOk
  /\ stage \in {"install_unit", "start"} => snapOk /\ bin > before.bin /\ bin >= db
  /\ stage = "start" => unit = bin
  /\ stage = "roll_back" => snapOk \/ Installed = before
  /\ stage = "restore" => snapOk
  /\ stage = "restart" => Installed = before
  /\ stage \notin {"idle", "begin"} /\ snapOk => prev = before

\* What Outhaul does to the files leaves the report of the last run as it is.
LEMMA OuthaulKeepsTruth ==
  ASSUME TruthInv, UNCHANGED <<stage, disk>>,
         state' = state \/ state' = "not_started" \/ (state' = "overdue" /\ stage \in {"idle", "begin"})
  PROVE  TruthInv'
BY DEF TruthInv, DiskOK, Unswapped, Installed, disk

\* Opening the database, between two runs or as the old version is started again.
LEMMA MigrationKeepsTruth ==
  ASSUME TruthInv, stage \in {"idle", "begin", "restart"}, db' = Migrated,
         UNCHANGED <<bin, unit, before>>
  PROVE  /\ db' \in Version
         /\ stage \in {"idle", "begin"} /\ state' = state =>
              /\ state' \in {"up_to_date", "build_failed", "rolled_back"} => Unswapped'
              /\ state' = "updated" => bin' > before'.bin /\ unit' = bin' /\ db' = bin'
         /\ stage = "restart" => Unswapped'
<1> USE UpdateAssumption DEF TruthInv, DiskOK, Unswapped, Installed, Migrated, Version, Copy
<1>1. db' \in Version
  OBVIOUS
<1>2. stage = "restart" => Unswapped'
  OBVIOUS
<1>3. state = "updated" /\ stage \in {"idle", "begin"} => db' = bin'
  OBVIOUS
<1>4. state \in {"up_to_date", "build_failed", "rolled_back"} /\ stage \in {"idle", "begin"}
      => Unswapped'
  OBVIOUS
<1> QED
  BY <1>1, <1>2, <1>3, <1>4

\* Every step keeps what is known of the disk.
LEMMA TruthStep == TruthInv /\ [Next]_vars => TruthInv'
<1> SUFFICES ASSUME TruthInv, [Next]_vars PROVE TruthInv'
  OBVIOUS
<1> USE UpdateAssumption
<1>1. CASE UNCHANGED vars \/ inProgress
  BY <1>1, OuthaulKeepsTruth DEF vars, files, outhaul, inProgress, ReadStatus, StatRequest,
     RemoveStale, RecordNotStarted, CreateRequest
<1>2. CASE \/ \E c \in Click : PressUpdate(c) \/ updateBlocked(c) \/ Request(c)
           \/ \E j \in Job : AskHold(j) \/ StartWork(j) \/ EndWork(j)
           \/ Tick \/ PollPage \/ ReportPage \/ TwoMinutes \/ FortyMinutes
  BY <1>2, OuthaulKeepsTruth DEF files, outhaul, PressUpdate, updateBlocked, Request, AskHold,
     StartWork, EndWork, Tick, PollPage, ReportPage, TwoMinutes, FortyMinutes
<1> USE DEF TruthInv, DiskOK, Stage, files, outhaul, disk
<1>3. CASE PathTrigger
  BY <1>3 DEF PathTrigger, Unswapped
<1>4. CASE ClaimRequest
  BY <1>4 DEF ClaimRequest, Installed, Copy
<1>5. CASE ClaimFails
  BY <1>5 DEF ClaimFails, Unswapped
<1>6. CASE RemoveRequest
  BY <1>6 DEF RemoveRequest, Installed
<1>7. CASE Build
  BY <1>7 DEF Build, Finish, Unswapped, Installed
<1>8. CASE StopOuthaul
  BY <1>8 DEF StopOuthaul, Installed
<1>9. CASE Snapshot
  <2>1. /\ stage = "snapshot" /\ UNCHANGED <<state, bin, unit, db, before>>
        /\ \/ prev' = Installed /\ snapOk' = TRUE /\ stage' = "install"
           \/ snapOk' = snapOk /\ stage' = "roll_back"
    BY <1>9 DEF Snapshot
  <2>2. Installed = before /\ ~snapOk /\ Installed' = before'
    BY <2>1 DEF Installed
  <2>3. DiskOK' /\ state' \in {"running", "not_started"}
    BY <2>1
  <2>4. CASE prev' = Installed /\ snapOk' = TRUE /\ stage' = "install"
    <3>1. prev' = before'
      BY <2>1, <2>2, <2>4
    <3> QED
      BY <2>2, <2>3, <2>4, <3>1
  <2>5. CASE snapOk' = snapOk /\ stage' = "roll_back"
    <3>1. ~snapOk'
      BY <2>2, <2>5
    <3> QED
      BY <2>2, <2>3, <2>5, <3>1
  <2> QED
    BY <2>1, <2>4, <2>5
<1>10. CASE InstallBinary
  BY <1>10 DEF InstallBinary, Installed, Version
<1>11. CASE InstallUnit
  BY <1>11 DEF InstallUnit, Installed
<1>12. CASE StartNew
  BY <1>12 DEF StartNew, Finish, Migrated, Version
<1>13. CASE RollBack
  BY <1>13 DEF RollBack, Installed
<1>14. CASE RestoreSnapshot
  BY <1>14 DEF RestoreSnapshot, Installed, Copy
<1>15. CASE Restart
  BY <1>15, MigrationKeepsTruth DEF Restart, Boot, Finish, Migrated, Unswapped, Installed
<1>16. CASE PowerLoss
  BY <1>16, MigrationKeepsTruth DEF PowerLoss, Migrated
<1>17. CASE ByHand
  BY <1>17, MigrationKeepsTruth DEF ByHand, Boot
<1> QED
  BY <1>1, <1>2, <1>3, <1>4, <1>5, <1>6, <1>7, <1>8, <1>9, <1>10, <1>11, <1>12, <1>13, <1>14,
     <1>15, <1>16, <1>17 DEF Next, updater

\* What the last run reported is what it left on the disk, whatever step of the swap
\* failed, whenever the power went and however late the updater started
\* (update.sh, snapshot, roll_back and restore_snapshot).
THEOREM ReportIsTrue == UpdateSpec => []ReportTellsTheTruth
<1>1. Init => TruthInv
  <2>1. 0 \in Version
    BY UpdateAssumption DEF Version
  <2>2. Init => bin = 0 /\ unit = 0 /\ db = 0 /\ before = Installed /\ stage = "idle" /\ snapOk = FALSE
    BY DEF Init
  <2>3. ASSUME Init PROVE DiskOK
    <3>1. before = [bin |-> 0, unit |-> 0, db |-> 0]
      BY <2>2, <2>3 DEF Installed
    <3>2. before \in Copy
      BY <2>1, <3>1 DEF Copy
    <3>3. snapOk \in BOOLEAN /\ stage \in Stage
      BY <2>2, <2>3 DEF Stage
    <3> QED
      BY <2>1, <2>2, <2>3, <3>2, <3>3 DEF DiskOK
  <2> QED
    BY <2>3 DEF Init, TruthInv
<1>2. TruthInv => ReportTellsTheTruth
  BY DEF TruthInv, ReportTellsTheTruth
<1> QED
  BY <1>1, <1>2, TruthStep, PTL DEF UpdateSpec

-----------------------------------------------------------------------------
(***************************************************************************)
(* The deploy log.                                                         *)
(***************************************************************************)

-----------------------------------------------------------------------------
(* Runs of consecutive lines.                                                *)

\* The n lines that follow line b.
Run(b, n) == [i \in 1..n |-> b + i]

\* A run is a sequence of its length.
LEMMA RunSeq ==
  ASSUME NEW b \in Nat, NEW n \in Nat
  PROVE  Run(b, n) \in Seq(Nat) /\ Len(Run(b, n)) = n /\ \A i \in 1..n : Run(b, n)[i] = b + i
<1>1. Run(b, n) \in [1..n -> Nat]
  BY DEF Run
<1>2. Run(b, n) \in Seq(Nat)
  BY <1>1
<1>3. Len(Run(b, n)) = n
  BY <1>1, <1>2, LenProperties
<1> QED
  BY <1>2, <1>3 DEF Run

\* A run of no lines.
LEMMA EmptyRun == ASSUME NEW b \in Nat PROVE Run(b, 0) = <<>>
<1>1. Run(b, 0) \in Seq(Nat) /\ Len(Run(b, 0)) = 0
  BY RunSeq
<1> QED
  BY <1>1, EmptySeq

\* A sequence of the length and the elements of a run is that run.
LEMMA IsRun ==
  ASSUME NEW s \in Seq(Nat), NEW b \in Nat, \A i \in 1..Len(s) : s[i] = b + i
  PROVE  s = Run(b, Len(s))
<1>1. Len(s) \in Nat
  BY LenProperties
<1>2. Run(b, Len(s)) \in Seq(Nat) /\ Len(Run(b, Len(s))) = Len(s)
      /\ \A i \in 1..Len(s) : Run(b, Len(s))[i] = b + i
  BY <1>1, RunSeq
<1> QED
  BY <1>2, SeqEqual

\* The next line extends a run.
LEMMA RunAppend ==
  ASSUME NEW b \in Nat, NEW n \in Nat
  PROVE  Append(Run(b, n), b + n + 1) = Run(b, n + 1)
<1> DEFINE s == Append(Run(b, n), b + n + 1)
<1>1. Run(b, n) \in Seq(Nat) /\ Len(Run(b, n)) = n /\ \A i \in 1..n : Run(b, n)[i] = b + i
  BY RunSeq
<1>2. /\ s \in Seq(Nat) /\ Len(s) = n + 1
      /\ \A i \in 1..n : s[i] = b + i
      /\ s[n + 1] = b + (n + 1)
  BY <1>1, AppendProperties
<1>3. \A i \in 1..Len(s) : s[i] = b + i
  BY <1>2
<1> HIDE DEF s
<1>4. s = Run(b, n + 1)
  BY <1>2, <1>3, IsRun
<1> QED
  BY <1>4 DEF s

\* Taking the first line off a run.
LEMMA RunTail ==
  ASSUME NEW b \in Nat, NEW n \in Nat, n # 0
  PROVE  /\ Run(b, n) # <<>> /\ Head(Run(b, n)) = b + 1
         /\ Tail(Run(b, n)) = Run(b + 1, n - 1)
<1> DEFINE s == Run(b, n)
<1>1. s \in Seq(Nat) /\ Len(s) = n /\ \A i \in 1..n : s[i] = b + i
  BY RunSeq
<1>2. s # <<>> /\ Head(s) = b + 1
  BY <1>1, EmptySeq
<1> DEFINE t == Tail(s)
<1>3. t \in Seq(Nat) /\ Len(t) = n - 1 /\ \A i \in 1..(n - 1) : t[i] = s[i + 1]
  BY <1>1, <1>2, HeadTailProperties
<1>4. \A i \in 1..Len(t) : t[i] = (b + 1) + i
  BY <1>1, <1>3
<1> HIDE DEF t
<1>5. t = Run(b + 1, n - 1)
  <2>1. b + 1 \in Nat
    OBVIOUS
  <2>2. t = Run(b + 1, Len(t))
    BY <1>3, <1>4, <2>1, IsRun
  <2> QED
    BY <1>3, <2>2
<1> QED
  BY <1>2, <1>5 DEF t

\* The end of a run.
LEMMA RunEnd ==
  ASSUME NEW b \in Nat, NEW n \in Nat, NEW k \in 0..n
  PROVE  SubSeq(Run(b, n), k + 1, n) = Run(b + k, n - k)
<1> DEFINE s == SubSeq(Run(b, n), k + 1, n)
<1>1. \A i \in 1..n : Run(b, n)[i] = b + i
  BY RunSeq
<1>2. s \in Seq(Nat) /\ Len(s) = n - k /\ \A i \in 1..(n - k) : s[i] = Run(b, n)[k + i]
  <2>1. \A i \in (k + 1)..n : Run(b, n)[i] \in Nat
    BY <1>1
  <2>2. /\ s \in Seq(Nat) /\ Len(s) = (IF k + 1 <= n THEN n - (k + 1) + 1 ELSE 0)
        /\ \A i \in 1..(n - (k + 1) + 1) : s[i] = Run(b, n)[(k + 1) + i - 1]
    BY <2>1, SubSeqProperties
  <2> QED
    BY <2>2
<1>3. \A i \in 1..Len(s) : s[i] = (b + k) + i
  BY <1>1, <1>2
<1> HIDE DEF s
<1>4. s = Run(b + k, n - k)
  <2>1. b + k \in Nat
    OBVIOUS
  <2>2. s = Run(b + k, Len(s))
    BY <1>2, <1>3, <2>1, IsRun
  <2> QED
    BY <1>2, <2>2
<1> QED
  BY <1>4 DEF s

-----------------------------------------------------------------------------
(* Lines in order.                                                           *)

\* What was sent and what waits are in order, and none is later than the last line.
Rising(sent, waiting, last) ==
  /\ \A i, j \in 1..Len(sent) : i < j => sent[i] < sent[j]
  /\ \A i, j \in 1..Len(waiting) : i < j => waiting[i] < waiting[j]
  /\ \A i \in 1..Len(sent), j \in 1..Len(waiting) : sent[i] < waiting[j]
  /\ \A i \in 1..Len(sent) : sent[i] <= last
  /\ \A j \in 1..Len(waiting) : waiting[j] <= last

\* A line that a viewer does not get leaves what it has in order.
LEMMA RisingLater ==
  ASSUME NEW s \in Seq(Nat), NEW t \in Seq(Nat), NEW k \in Nat, Rising(s, t, k)
  PROVE  Rising(s, t, k + 1)
<1>1. \A i \in 1..Len(s) : s[i] \in Nat
  BY ElementOfSeq
<1>2. \A i \in 1..Len(t) : t[i] \in Nat
  BY ElementOfSeq
<1> QED
  BY <1>1, <1>2 DEF Rising

\* A new line waits behind the others.
LEMMA RisingAppend ==
  ASSUME NEW s \in Seq(Nat), NEW t \in Seq(Nat), NEW k \in Nat, Rising(s, t, k)
  PROVE  Rising(s, Append(t, k + 1), k + 1)
<1> DEFINE u == Append(t, k + 1)
<1>1. \A i \in 1..Len(s) : s[i] \in Nat
  BY ElementOfSeq
<1>2. \A i \in 1..Len(t) : t[i] \in Nat
  BY ElementOfSeq
<1>3. /\ Len(t) \in Nat /\ Len(s) \in Nat
      /\ Len(u) = Len(t) + 1 /\ \A i \in 1..Len(t) : u[i] = t[i]
      /\ u[Len(t) + 1] = k + 1
  BY AppendProperties, LenProperties
<1> HIDE DEF u
<1>4. \A j \in 1..Len(u) : \/ j \in 1..Len(t) /\ u[j] = t[j]
                           \/ j = Len(t) + 1 /\ u[j] = k + 1
  BY <1>3
<1>5. /\ \A i \in 1..Len(s) : s[i] <= k /\ s[i] < k + 1 /\ s[i] <= k + 1
      /\ \A i \in 1..Len(t) : t[i] <= k /\ t[i] < k + 1 /\ t[i] <= k + 1
  BY <1>1, <1>2 DEF Rising
<1>6. ASSUME NEW i \in 1..Len(u), NEW j \in 1..Len(u), i < j PROVE u[i] < u[j]
  <2>1. i \in 1..Len(t) /\ u[i] = t[i]
    BY <1>3, <1>6
  <2>2. CASE j \in 1..Len(t) /\ u[j] = t[j]
    BY <2>1, <2>2, <1>6 DEF Rising
  <2>3. CASE u[j] = k + 1
    BY <2>1, <2>3, <1>5
  <2> QED
    BY <2>2, <2>3, <1>4
<1>7. ASSUME NEW i \in 1..Len(s), NEW j \in 1..Len(u) PROVE s[i] < u[j]
  <2>1. CASE j \in 1..Len(t) /\ u[j] = t[j]
    BY <2>1 DEF Rising
  <2>2. CASE u[j] = k + 1
    BY <2>2, <1>5
  <2> QED
    BY <2>1, <2>2, <1>4
<1>8. ASSUME NEW j \in 1..Len(u) PROVE u[j] <= k + 1
  <2>1. CASE j \in 1..Len(t) /\ u[j] = t[j]
    BY <2>1, <1>5
  <2>2. CASE u[j] = k + 1
    BY <2>2
  <2> QED
    BY <2>1, <2>2, <1>4
<1> QED
  BY <1>5, <1>6, <1>7, <1>8 DEF Rising, u

\* The first line that waits is sent after the others.
LEMMA RisingReceive ==
  ASSUME NEW s \in Seq(Nat), NEW t \in Seq(Nat), NEW k \in Nat, Rising(s, t, k), t # <<>>
  PROVE  Rising(Append(s, Head(t)), Tail(t), k)
<1> DEFINE u == Append(s, Head(t))
           w == Tail(t)
<1>1. /\ Len(t) \in Nat \ {0} /\ Head(t) = t[1] /\ Head(t) \in Nat
      /\ Len(w) = Len(t) - 1 /\ \A i \in 1..Len(w) : w[i] = t[i + 1]
  BY EmptySeq, LenProperties, HeadTailProperties
<1>2. /\ Len(s) \in Nat /\ Len(u) = Len(s) + 1 /\ \A i \in 1..Len(s) : u[i] = s[i]
      /\ u[Len(s) + 1] = t[1]
  BY <1>1, AppendProperties, LenProperties
<1> HIDE DEF u, w
<1>3. \A j \in 1..Len(u) : \/ j \in 1..Len(s) /\ u[j] = s[j]
                           \/ j = Len(s) + 1 /\ u[j] = t[1]
  BY <1>2
<1>4. \A j \in 1..Len(w) : j + 1 \in 1..Len(t) /\ w[j] = t[j + 1]
  BY <1>1
<1>5. 1 \in 1..Len(t)
  BY <1>1
<1>6. ASSUME NEW i \in 1..Len(u), NEW j \in 1..Len(u), i < j PROVE u[i] < u[j]
  <2>1. i \in 1..Len(s) /\ u[i] = s[i]
    <3>1. Len(s) \in Nat /\ i \in 1..(Len(s) + 1) /\ j \in 1..(Len(s) + 1)
      BY <1>2
    <3>2. i \in 1..Len(s)
      BY <3>1, <1>6
    <3> QED
      BY <3>2, <1>2
  <2>2. CASE j \in 1..Len(s) /\ u[j] = s[j]
    BY <2>1, <2>2, <1>6 DEF Rising
  <2>3. CASE u[j] = t[1]
    BY <2>1, <2>3, <1>5 DEF Rising
  <2> QED
    BY <2>2, <2>3, <1>3
<1>7. ASSUME NEW i \in 1..Len(w), NEW j \in 1..Len(w), i < j PROVE w[i] < w[j]
  <2>1. i + 1 < j + 1
    BY <1>1, <1>7
  <2> QED
    BY <2>1, <1>4 DEF Rising
<1>8. ASSUME NEW i \in 1..Len(u), NEW j \in 1..Len(w) PROVE u[i] < w[j]
  <2>1. CASE i \in 1..Len(s) /\ u[i] = s[i]
    BY <2>1, <1>4 DEF Rising
  <2>2. CASE u[i] = t[1]
    <3>1. 1 < j + 1
      BY <1>1
    <3> QED
      BY <3>1, <2>2, <1>4, <1>5 DEF Rising
  <2> QED
    BY <2>1, <2>2, <1>3
<1>9. /\ \A i \in 1..Len(u) : u[i] <= k
      /\ \A j \in 1..Len(w) : w[j] <= k
  BY <1>3, <1>4, <1>5 DEF Rising
<1> QED
  BY <1>6, <1>7, <1>8, <1>9 DEF Rising, u, w

\* Consecutive lines are in order.
LEMMA RunsRise ==
  ASSUME NEW b \in Nat, NEW m \in Nat, NEW n \in Nat
  PROVE  Rising(Run(b, m), Run(b + m, n), b + m + n)
<1>1. Len(Run(b, m)) = m /\ \A i \in 1..m : Run(b, m)[i] = b + i
  BY RunSeq
<1>3. b + m \in Nat
  OBVIOUS
<1>2. Len(Run(b + m, n)) = n /\ \A i \in 1..n : Run(b + m, n)[i] = b + m + i
  BY <1>3, RunSeq
<1> DEFINE s == Run(b, m)
           t == Run(b + m, n)
<1> HIDE DEF s, t
<1>4. Len(s) = m /\ \A i \in 1..m : s[i] = b + i
  BY <1>1 DEF s
<1>5. Len(t) = n /\ \A i \in 1..n : t[i] = b + m + i
  BY <1>2, <1>3 DEF t
<1>6. Rising(s, t, b + m + n)
  BY <1>4, <1>5 DEF Rising
<1> QED
  BY <1>6 DEF s, t

-----------------------------------------------------------------------------
(* The invariant.                                                            *)

Topic == [lines : Seq(Nat), dropped : Nat, closed : BOOLEAN, subs : SUBSET Viewer,
          held : BOOLEAN]
Place == {"idle", "look", "stream", "told"}

LogTypes ==
  /\ status \in [Dep -> {"queued", "building", "deploying", "done", "deleted"}]
  /\ pipe \in [Dep -> {"none", "build", "deploy", "end", "evict"}]
  /\ stop \in [Dep -> {"no", "line", "close", "evict"}]
  /\ topics \in [Dep -> Topic]
  /\ closed \in Seq(Dep) /\ Len(closed) <= keepClosed
  /\ view \in [Viewer -> [place : Place, dep : Dep \cup {0}, terminal : BOOLEAN]]
  /\ channel \in [Viewer -> [lines : Seq(Nat), closed : BOOLEAN]]
  /\ said \in [Dep -> Nat] /\ evicted \subseteq Dep
  /\ got \in [Viewer -> Seq(Nat)] /\ lost \subseteq Viewer

\* Who still writes to a topic says what the row has come to; a topic is closed when the
\* row has its final status.
WritersOK ==
  \A d \in Dep :
    /\ pipe[d] = "build" => status[d] \in {"building", "done", "deleted"}
    /\ pipe[d] = "deploy" => status[d] \in {"deploying", "deleted"}
    /\ pipe[d] \in {"end", "evict"} \/ stop[d] # "no" \/ topics[d].closed => IsTerminal(status[d])

\* A topic holds the last lines it took, and counts the others unless it was dropped once.
TopicsOK ==
  \A d \in Dep :
    /\ ~topics[d].held => topics[d] = NoTopic
    /\ \E b \in Nat : /\ topics[d].lines = Run(b, Len(topics[d].lines))
                      /\ b + Len(topics[d].lines) = said[d]
                      /\ d \notin evicted => b = topics[d].dropped

\* Every closed topic is on the list, or somebody is about to put it there.
ListOK ==
  \A d \in Dep : topics[d].held /\ topics[d].closed =>
    pipe[d] = "evict" \/ stop[d] = "evict" \/ \E i \in 1..Len(closed) : closed[i] = d

\* What a viewer's place says of its row and its channel.
ViewsOK ==
  \A v \in Viewer :
    /\ view[v].place # "idle" => view[v].dep \in Dep
    /\ view[v].place # "stream" => channel[v] = NoChannel /\ got[v] = <<>> /\ v \notin lost
    /\ \/ view[v].place = "look" /\ view[v].terminal
       \/ view[v].place = "stream" /\ channel[v].closed
       \/ view[v].place = "told"
       => IsTerminal(status[view[v].dep])

\* A viewer that keeps up has been sent, and has waiting, consecutive lines, up to the
\* last one while it is registered; one that fell behind has them in order.
KeepsUp(v) ==
  \E b \in Nat : /\ got[v] = Run(b, Len(got[v]))
                 /\ channel[v].lines = Run(b + Len(got[v]), Len(channel[v].lines))
                 /\ v \in topics[view[v].dep].subs =>
                      b + Len(got[v]) + Len(channel[v].lines) = said[view[v].dep]
SeamsOK ==
  \A v \in Viewer : view[v].place = "stream" =>
    IF v \in lost THEN Rising(got[v], channel[v].lines, said[view[v].dep]) ELSE KeepsUp(v)

\* The inductive invariant.
LogIInv ==
  LogTypes /\ WritersOK /\ TopicsOK /\ ListOK /\ SubscribersOpen /\ ViewsOK /\ SeamsOK

\* What the invariant says of one topic.
LEMMA TopicsKept ==
  ASSUME LogIInv, NEW e \in Dep
  PROVE  /\ ~topics[e].held => topics[e] = NoTopic
         /\ \E c \in Nat : /\ topics[e].lines = Run(c, Len(topics[e].lines))
                           /\ c + Len(topics[e].lines) = said[e]
                           /\ e \notin evicted => c = topics[e].dropped
  BY DEF LogIInv, TopicsOK

\* Before any line the invariant holds.
LEMMA LogStart == LogInit => LogIInv
<1> SUFFICES ASSUME LogInit PROVE LogIInv
  OBVIOUS
<1>1. NoTopic \in Topic /\ NoTopic.lines = <<>> /\ NoTopic.dropped = 0 /\ ~NoTopic.closed
      /\ ~NoTopic.held /\ NoTopic.subs = {}
  BY EmptySeq DEF NoTopic, Topic
<1>2. NoChannel \in [lines : Seq(Nat), closed : BOOLEAN]
  BY EmptySeq DEF NoChannel
<1>3. Len(<<>>) = 0 /\ <<>> \in Seq(Nat) /\ <<>> \in Seq(Dep) /\ <<>> = Run(0, 0)
  BY EmptySeq, EmptyRun
<1>4. LogTypes
  BY <1>1, <1>2, <1>3, LimitAssumption DEF LogInit, LogTypes, Idle, Place
<1>5. WritersOK /\ ListOK /\ SubscribersOpen /\ SeamsOK
  BY <1>1 DEF LogInit, WritersOK, ListOK, SubscribersOpen, SeamsOK, Idle
<1>6. TopicsOK
  BY <1>1, <1>3 DEF LogInit, TopicsOK
<1>7. ViewsOK
  BY DEF LogInit, ViewsOK, Idle
<1> QED
  BY <1>4, <1>5, <1>6, <1>7 DEF LogIInv

-----------------------------------------------------------------------------
(* The broker's three operations.                                            *)

Channel == [lines : Seq(Nat), closed : BOOLEAN]

\* The topic a call works on, found or made anew, is as good as the invariant says.
LEMMA TopicFor ==
  ASSUME LogIInv, NEW d \in Dep
  PROVE  /\ topicFor(d) \in Topic /\ topicFor(d).held
         /\ topicFor(d).closed = topics[d].closed /\ topicFor(d).subs = topics[d].subs
         /\ topicFor(d).closed => topics[d].held
         /\ \E b \in Nat : /\ topicFor(d).lines = Run(b, Len(topicFor(d).lines))
                           /\ b + Len(topicFor(d).lines) = said[d]
                           /\ d \notin evicted => b = topicFor(d).dropped
<1>1. /\ NewTopic \in Topic /\ NewTopic.held /\ NewTopic.closed = NoTopic.closed
      /\ NewTopic.lines = NoTopic.lines /\ NewTopic.dropped = NoTopic.dropped
      /\ NewTopic.subs = NoTopic.subs /\ ~NewTopic.closed
  BY EmptySeq DEF NewTopic, NoTopic, Topic
<1>2. topics[d] \in Topic /\ (~topics[d].held => topics[d] = NoTopic)
  BY DEF LogIInv, LogTypes, TopicsOK
<1>3. PICK b \in Nat : /\ topics[d].lines = Run(b, Len(topics[d].lines))
                       /\ b + Len(topics[d].lines) = said[d]
                       /\ d \notin evicted => b = topics[d].dropped
  BY DEF LogIInv, TopicsOK
<1>4. CASE topics[d].held
  BY <1>2, <1>3, <1>4 DEF topicFor
<1>5. CASE ~topics[d].held
  <2>1. topicFor(d) = NewTopic /\ topics[d] = NoTopic
    BY <1>2, <1>5 DEF topicFor
  <2> QED
    BY <2>1, <1>1, <1>3
<1> QED
  BY <1>4, <1>5

\* Cutting off the front of a topic keeps a run, and counts what it cuts.
LEMMA TrimRun ==
  ASSUME NEW t \in Topic, NEW b \in Nat, t.lines = Run(b, Len(t.lines))
  PROVE  /\ Trim(t) \in Topic /\ Trim(t).held = t.held
         /\ Trim(t).closed = t.closed /\ Trim(t).subs = t.subs
         /\ \E k \in 0..Len(t.lines) :
              /\ Trim(t).lines = Run(b + k, Len(Trim(t).lines))
              /\ Len(Trim(t).lines) = Len(t.lines) - k
              /\ Trim(t).dropped = t.dropped + k
<1> DEFINE n == Len(t.lines)
           cut == n - maxLines
<1>1. n \in Nat /\ t.dropped \in Nat /\ maxLines \in Nat \ {0}
  BY LenProperties, LimitAssumption DEF Topic
<1>2. CASE n <= 2 * maxLines
  <2>1. Trim(t) = t
    BY <1>2 DEF Trim
  <2>2. b + 0 = b /\ n - 0 = n /\ t.dropped + 0 = t.dropped /\ 0 \in 0..n
    BY <1>1
  <2> QED
    BY <2>1, <2>2
<1>3. CASE ~(n <= 2 * maxLines)
  <2>1. cut \in 0..n /\ n - cut \in Nat /\ b + cut \in Nat
    BY <1>1, <1>3
  <2> DEFINE rest == SubSeq(Run(b, n), cut + 1, n)
  <2>2. rest = Run(b + cut, n - cut)
    BY <2>1, <1>1, RunEnd
  <2> HIDE DEF rest
  <2>3. rest \in Seq(Nat) /\ Len(rest) = n - cut
    <3>1. \A a, m \in Nat : Run(a, m) \in Seq(Nat) /\ Len(Run(a, m)) = m
      BY RunSeq
    <3> QED
      BY <2>1, <2>2, <3>1
  <2>4. Trim(t) = [t EXCEPT !.lines = rest, !.dropped = t.dropped + cut]
    BY <1>3 DEF Trim, rest
  <2>5. t.dropped + cut \in Nat
    BY <1>1, <2>1
  <2>6. Trim(t) \in Topic /\ Trim(t).held = t.held /\ Trim(t).closed = t.closed
        /\ Trim(t).subs = t.subs /\ Trim(t).lines = rest /\ Trim(t).dropped = t.dropped + cut
    BY <2>3, <2>4, <2>5 DEF Topic
  <2> QED
    BY <2>1, <2>2, <2>3, <2>6
<1> QED
  BY <1>2, <1>3

\* A line reaches those that keep up, in its place.
LEMMA PublishKeeps ==
  ASSUME LogIInv, NEW d \in Dep, Publish(d), UNCHANGED <<status, evicted, view, got>>
  PROVE  /\ topics' \in [Dep -> Topic] /\ channel' \in [Viewer -> Channel]
         /\ said' \in [Dep -> Nat] /\ lost' \subseteq Viewer
         /\ \A e \in Dep : topics'[e].closed => topics'[e] = topics[e]
         /\ TopicsOK' /\ SubscribersOpen' /\ ViewsOK' /\ SeamsOK'
<1> DEFINE t == topicFor(d)
           line == said[d] + 1
           behind == {v \in t.subs : Len(channel[v].lines) = subBuffer}
<1>1. /\ topics \in [Dep -> Topic] /\ channel \in [Viewer -> Channel]
      /\ said \in [Dep -> Nat] /\ lost \subseteq Viewer
  BY DEF LogIInv, LogTypes, Channel
<1>2. CASE t.closed
  <2>1. UNCHANGED <<topics, said, channel, lost>>
    BY <1>2 DEF Publish
  <2>2. TopicsOK'
    BY <2>1 DEF LogIInv, TopicsOK
  <2>3. SubscribersOpen'
    BY <2>1 DEF LogIInv, SubscribersOpen
  <2>4. ViewsOK'
    BY <2>1 DEF LogIInv, ViewsOK
  <2>5. SeamsOK'
    BY <2>1 DEF LogIInv, SeamsOK, KeepsUp
  <2> QED
    BY <1>1, <2>1, <2>2, <2>3, <2>4, <2>5
<1>3. CASE ~t.closed
  <2>1. /\ topics' = [topics EXCEPT ![d] = Trim([t EXCEPT !.lines = Append(@, line)])]
        /\ said' = [said EXCEPT ![d] = line]
        /\ channel' = [v \in Viewer |->
             IF v \in t.subs \ behind THEN [channel[v] EXCEPT !.lines = Append(@, line)]
             ELSE channel[v]]
        /\ lost' = lost \cup behind
    BY <1>3 DEF Publish
  <2>2. /\ t \in Topic /\ t.held /\ t.closed = topics[d].closed /\ t.subs = topics[d].subs
        /\ \E b \in Nat : /\ t.lines = Run(b, Len(t.lines)) /\ b + Len(t.lines) = said[d]
                          /\ d \notin evicted => b = t.dropped
    BY TopicFor
  <2>3. PICK b \in Nat : /\ t.lines = Run(b, Len(t.lines)) /\ b + Len(t.lines) = said[d]
                         /\ d \notin evicted => b = t.dropped
    BY <2>2
  <2> DEFINE u == [t EXCEPT !.lines = Append(@, line)]
             w == Trim(u)
  <2>4. said[d] \in Nat /\ line \in Nat
    BY <1>1
  <2>5. Len(t.lines) \in Nat /\ t.lines \in Seq(Nat)
    BY <2>2, LenProperties DEF Topic
  <2>6. /\ u \in Topic /\ u.held /\ ~u.closed /\ u.subs = t.subs /\ u.dropped = t.dropped
        /\ Len(u.lines) = Len(t.lines) + 1 /\ u.lines = Run(b, Len(u.lines))
    <3>1. Append(t.lines, line) \in Seq(Nat) /\ Len(Append(t.lines, line)) = Len(t.lines) + 1
      BY <2>4, <2>5, AppendProperties
    <3>2. Append(t.lines, line) = Run(b, Len(t.lines) + 1)
      BY <2>3, <2>5, RunAppend
    <3>3. u.lines = Append(t.lines, line)
      BY <2>2 DEF Topic
    <3>4. u \in Topic /\ u.held /\ ~u.closed /\ u.subs = t.subs /\ u.dropped = t.dropped
      BY <3>1, <2>2, <1>3 DEF Topic
    <3> QED
      BY <3>1, <3>2, <3>3, <3>4
  <2> HIDE DEF u, t
  <2>7. /\ w \in Topic /\ w.held /\ ~w.closed /\ w.subs = t.subs
        /\ \E k \in 0..Len(u.lines) : /\ w.lines = Run(b + k, Len(w.lines))
                                      /\ Len(w.lines) = Len(u.lines) - k
                                      /\ w.dropped = u.dropped + k
    BY <2>6, TrimRun
  <2> HIDE DEF w
  <2>8. topics' = [topics EXCEPT ![d] = w]
    BY <2>1 DEF w, u
  <2>9. topics' \in [Dep -> Topic]
    BY <1>1, <2>7, <2>8
  <2>10. TopicsOK'
    <3>1. \E c \in Nat : /\ w.lines = Run(c, Len(w.lines))
                         /\ c + Len(w.lines) = line
                         /\ d \notin evicted => c = w.dropped
      <4>1. PICK k \in 0..Len(u.lines) : /\ w.lines = Run(b + k, Len(w.lines))
                                         /\ Len(w.lines) = Len(u.lines) - k
                                         /\ w.dropped = u.dropped + k
        BY <2>7
      <4>3. k \in Nat /\ b + k \in Nat /\ Len(u.lines) \in Nat /\ Len(u.lines) - k \in Int
        BY <2>5, <2>6
      <4>4. b + k + Len(w.lines) = line
        <5> DEFINE x == Len(u.lines)
                   y == Len(w.lines)
                   z == Len(t.lines)
                   s == said[d]
        <5>1. x = z + 1 /\ y = x - k /\ b + z = s /\ z \in Nat
          BY <4>1, <2>3, <2>5, <2>6
        <5> HIDE DEF x, y, z, s
        <5>2. b + k + y = s + 1
          BY <5>1, <4>3
        <5> QED
          BY <5>2 DEF y, s
      <4>5. d \notin evicted => b + k = w.dropped
        BY <4>1, <2>3, <2>6
      <4> QED
        BY <4>1, <4>3, <4>4, <4>5
    <3>2. topics'[d] = w /\ said'[d] = line
      BY <1>1, <2>1, <2>8
    <3>3. \A e \in Dep \ {d} : topics'[e] = topics[e] /\ said'[e] = said[e]
      BY <1>1, <2>1, <2>8
    <3> SUFFICES ASSUME NEW e \in Dep
                 PROVE  /\ ~topics'[e].held => topics'[e] = NoTopic
                        /\ \E c \in Nat : /\ topics'[e].lines = Run(c, Len(topics'[e].lines))
                                          /\ c + Len(topics'[e].lines) = said'[e]
                                          /\ e \notin evicted => c = topics'[e].dropped
      BY DEF TopicsOK
    <3> HIDE DEF line
    <3>4. CASE e = d
      BY <2>7, <3>1, <3>2, <3>4
    <3>5. CASE e # d
      <4>1. topics'[e] = topics[e] /\ said'[e] = said[e]
        BY <3>3, <3>5
      <4> QED
        BY <4>1, TopicsKept
    <3> QED
      BY <3>4, <3>5
  <2>11. \A e \in Dep : topics'[e].subs = topics[e].subs
    BY <1>1, <2>2, <2>7, <2>8
  <2>12. t.subs \subseteq Viewer /\ behind \subseteq t.subs
    BY <2>2 DEF Topic
  <2>13. \A v \in Viewer : /\ channel[v] \in Channel /\ channel[v].lines \in Seq(Nat)
                           /\ Append(channel[v].lines, line) \in Seq(Nat)
    BY <1>1, <2>4, AppendProperties DEF Channel
  <2>14. \A v \in Viewer : /\ v \in t.subs \ behind =>
                                channel'[v] = [channel[v] EXCEPT !.lines = Append(@, line)]
                           /\ v \notin t.subs \ behind => channel'[v] = channel[v]
    BY <2>1
  <2>15. \A v \in Viewer : /\ channel'[v] \in Channel /\ channel'[v].closed = channel[v].closed
                           /\ v \in t.subs \ behind =>
                                channel'[v].lines = Append(channel[v].lines, line)
    BY <2>13, <2>14 DEF Channel
  <2>16. channel' \in [Viewer -> Channel]
    BY <2>1, <2>15
  <2>17. SubscribersOpen'
    BY <1>1, <2>11, <2>15 DEF LogIInv, SubscribersOpen, Topic
  <2>18. \A v \in t.subs : view[v].place = "stream" /\ view[v].dep = d
    BY <2>2 DEF LogIInv, SubscribersOpen
  <2>19. ViewsOK'
    <3> SUFFICES ASSUME NEW v \in Viewer
                 PROVE  /\ view[v].place # "idle" => view[v].dep \in Dep
                        /\ view[v].place # "stream" =>
                             channel'[v] = NoChannel /\ got[v] = <<>> /\ v \notin lost'
                        /\ \/ view[v].place = "look" /\ view[v].terminal
                           \/ view[v].place = "stream" /\ channel'[v].closed
                           \/ view[v].place = "told"
                           => IsTerminal(status[view[v].dep])
      BY DEF ViewsOK
    <3>1. view[v].place # "stream" => v \notin t.subs
      BY <2>18
    <3> QED
      BY <3>1, <2>1, <2>14, <2>15 DEF LogIInv, ViewsOK
  <2>20. SeamsOK'
    <3> SUFFICES ASSUME NEW v \in Viewer, view[v].place = "stream"
                 PROVE  IF v \in lost' THEN Rising(got[v], channel'[v].lines, said'[view[v].dep])
                        ELSE KeepsUp(v)'
      BY DEF SeamsOK
    <3> DEFINE e == view[v].dep
               m == Len(got[v])
               n == Len(channel[v].lines)
    <3>1. e \in Dep /\ said[e] \in Nat /\ got[v] \in Seq(Nat) /\ m \in Nat /\ n \in Nat
      BY <1>1, <2>13, LenProperties DEF LogIInv, ViewsOK, LogTypes
    <3>2. IF v \in lost THEN Rising(got[v], channel[v].lines, said[e]) ELSE KeepsUp(v)
      BY DEF LogIInv, SeamsOK
    <3>3. CASE e # d
      <4>1. said'[e] = said[e] /\ topics'[e] = topics[e] /\ v \notin t.subs
        BY <1>1, <2>1, <2>8, <2>18, <3>1, <3>3
      <4>2. channel'[v] = channel[v] /\ (v \in lost' <=> v \in lost)
        BY <4>1, <2>1, <2>14
      <4> QED
        BY <3>2, <4>1, <4>2 DEF KeepsUp
    <3>4. CASE e = d
      <4>1. said'[e] = said[e] + 1
        BY <1>1, <2>1, <3>1, <3>4
      <4>2. CASE v \notin t.subs
        <5>1. channel'[v] = channel[v] /\ (v \in lost' <=> v \in lost) /\ v \notin topics'[e].subs
          BY <4>2, <2>1, <2>2, <2>11, <2>14, <3>4
        <5>2. CASE v \in lost
          BY <5>1, <5>2, <3>1, <3>2, <4>1, <2>13, RisingLater
        <5>3. CASE v \notin lost
          BY <5>1, <5>3, <3>2 DEF KeepsUp
        <5> QED
          BY <5>2, <5>3
      <4>3. CASE v \in behind
        <5>1. channel'[v] = channel[v] /\ v \in lost' /\ v \in topics[e].subs
          BY <4>3, <2>1, <2>2, <2>12, <2>14, <3>4
        <5>2. Rising(got[v], channel[v].lines, said[e])
          <6>1. CASE v \in lost
            BY <6>1, <3>2
          <6>2. CASE v \notin lost
            <7>1. PICK c \in Nat : /\ got[v] = Run(c, m) /\ channel[v].lines = Run(c + m, n)
                                   /\ c + m + n = said[e]
              BY <6>2, <3>2, <5>1 DEF KeepsUp
            <7>2. Rising(Run(c, m), Run(c + m, n), c + m + n)
              BY <3>1, RunsRise
            <7> HIDE DEF m, n, e
            <7> QED
              BY <7>1, <7>2
          <6> QED
            BY <6>1, <6>2
        <5> QED
          BY <5>1, <5>2, <3>1, <4>1, <2>13, RisingLater
      <4>4. CASE v \in t.subs \ behind
        <5>1. channel'[v].lines = Append(channel[v].lines, said[e] + 1) /\ v \in topics[e].subs
          BY <4>4, <2>2, <2>15, <3>4
        <5>2. v \in lost' <=> v \in lost
          BY <4>4, <2>1
        <5>3. CASE v \in lost
          BY <5>1, <5>2, <5>3, <3>1, <3>2, <4>1, <2>13, RisingAppend
        <5>4. CASE v \notin lost
          <6>1. PICK c \in Nat : /\ got[v] = Run(c, m) /\ channel[v].lines = Run(c + m, n)
                                 /\ c + m + n = said[e]
            BY <5>4, <3>2, <5>1 DEF KeepsUp
          <6> HIDE DEF m, n, e
          <6>2. /\ c + m \in Nat /\ n + 1 \in Nat /\ said[e] + 1 = (c + m) + n + 1
                /\ c + m + (n + 1) = said[e] + 1
            BY <6>1, <3>1
          <6>3. channel'[v].lines = Run(c + m, n + 1)
            BY <6>1, <6>2, <5>1, <3>1, RunAppend
          <6>4. Len(channel'[v].lines) = n + 1
            BY <6>3, <6>2, RunSeq
          <6>5. c + m + (n + 1) = said'[e]
            BY <6>2, <4>1
          <6> USE DEF m, n, e
          <6> QED
            BY <6>1, <6>3, <6>4, <6>5, <5>2, <5>4 DEF KeepsUp
        <5> QED
          BY <5>3, <5>4
      <4> QED
        BY <4>2, <4>3, <4>4
    <3> QED
      BY <3>3, <3>4
  <2>21. \A e \in Dep : topics'[e].closed => topics'[e] = topics[e]
    BY <1>1, <2>7, <2>8
  <2>22. said' \in [Dep -> Nat] /\ lost' \subseteq Viewer
    BY <1>1, <2>1, <2>4, <2>12
  <2> QED
    BY <2>9, <2>10, <2>16, <2>17, <2>19, <2>20, <2>21, <2>22
<1> QED
  BY <1>2, <1>3

\* Closing a topic lets its viewers go, with the lines they have waiting.
LEMMA CloseKeeps ==
  ASSUME LogIInv, NEW d \in Dep, Close(d), IsTerminal(status[d]),
         UNCHANGED <<status, said, evicted, view, got, lost>>
  PROVE  /\ topics' \in [Dep -> Topic] /\ channel' \in [Viewer -> Channel]
         /\ \A e \in Dep \ {d} : topics'[e] = topics[e]
         /\ topicFor(d).closed => topics[d].held /\ topics[d].closed
         /\ TopicsOK' /\ SubscribersOpen' /\ ViewsOK' /\ SeamsOK'
<1> DEFINE t == topicFor(d)
           w == [t EXCEPT !.closed = TRUE, !.subs = {}]
<1>1. /\ topics \in [Dep -> Topic] /\ channel \in [Viewer -> Channel]
      /\ said \in [Dep -> Nat] /\ lost \subseteq Viewer
  BY DEF LogIInv, LogTypes, Channel
<1>2. /\ t \in Topic /\ t.held /\ t.closed = topics[d].closed /\ t.subs = topics[d].subs
      /\ t.closed => topics[d].held
      /\ \E b \in Nat : /\ t.lines = Run(b, Len(t.lines)) /\ b + Len(t.lines) = said[d]
                        /\ d \notin evicted => b = t.dropped
  BY TopicFor
<1>3. /\ topics' = [topics EXCEPT ![d] = w]
      /\ channel' = [v \in Viewer |->
           IF v \in t.subs THEN [channel[v] EXCEPT !.closed = TRUE] ELSE channel[v]]
  BY DEF Close
<1> HIDE DEF t
<1>4. /\ w \in Topic /\ w.held /\ w.subs = {} /\ w.lines = t.lines /\ w.dropped = t.dropped
  BY <1>2 DEF Topic
<1> HIDE DEF w
<1>5. topics'[d] = w /\ \A e \in Dep \ {d} : topics'[e] = topics[e]
  BY <1>1, <1>3
<1>6. topics' \in [Dep -> Topic]
  BY <1>1, <1>3, <1>4
<1>7. TopicsOK'
  <2> SUFFICES ASSUME NEW e \in Dep
               PROVE  /\ ~topics'[e].held => topics'[e] = NoTopic
                      /\ \E c \in Nat : /\ topics'[e].lines = Run(c, Len(topics'[e].lines))
                                        /\ c + Len(topics'[e].lines) = said[e]
                                        /\ e \notin evicted => c = topics'[e].dropped
    BY DEF TopicsOK
  <2>1. CASE e = d
    BY <2>1, <1>2, <1>4, <1>5
  <2>2. CASE e # d
    <3>1. topics'[e] = topics[e]
      BY <2>2, <1>5
    <3> QED
      BY <3>1, TopicsKept
  <2> QED
    BY <2>1, <2>2
<1>8. \A v \in Viewer : /\ channel[v] \in Channel
                        /\ v \in t.subs => channel'[v] = [channel[v] EXCEPT !.closed = TRUE]
                        /\ v \notin t.subs => channel'[v] = channel[v]
  BY <1>1, <1>3
<1>9. \A v \in Viewer : channel'[v] \in Channel /\ channel'[v].lines = channel[v].lines
  BY <1>8 DEF Channel
<1>10. channel' \in [Viewer -> Channel]
  BY <1>3, <1>9
<1>11. \A v \in t.subs : view[v].place = "stream" /\ view[v].dep = d
  BY <1>2 DEF LogIInv, SubscribersOpen
<1>12. SubscribersOpen'
  <2> SUFFICES ASSUME NEW e \in Dep, NEW v \in topics'[e].subs
               PROVE  ~channel'[v].closed /\ view[v].place = "stream" /\ view[v].dep = e
    BY DEF SubscribersOpen
  <2>1. e # d /\ v \in topics[e].subs
    BY <1>4, <1>5
  <2>2. v \in Viewer /\ ~channel[v].closed /\ view[v].place = "stream" /\ view[v].dep = e
    BY <2>1, <1>1 DEF LogIInv, SubscribersOpen, Topic
  <2> QED
    BY <2>1, <2>2, <1>8, <1>11
<1>13. ViewsOK'
  <2> SUFFICES ASSUME NEW v \in Viewer
               PROVE  /\ view[v].place # "idle" => view[v].dep \in Dep
                      /\ view[v].place # "stream" =>
                           channel'[v] = NoChannel /\ got[v] = <<>> /\ v \notin lost
                      /\ \/ view[v].place = "look" /\ view[v].terminal
                         \/ view[v].place = "stream" /\ channel'[v].closed
                         \/ view[v].place = "told"
                         => IsTerminal(status[view[v].dep])
    BY DEF ViewsOK
  <2> QED
    BY <1>8, <1>11 DEF LogIInv, ViewsOK
<1>14. SeamsOK'
  <2> SUFFICES ASSUME NEW v \in Viewer, view[v].place = "stream"
               PROVE  IF v \in lost THEN Rising(got[v], channel'[v].lines, said[view[v].dep])
                      ELSE KeepsUp(v)'
    BY DEF SeamsOK
  <2>1. IF v \in lost THEN Rising(got[v], channel[v].lines, said[view[v].dep]) ELSE KeepsUp(v)
    BY DEF LogIInv, SeamsOK
  <2>2. view[v].dep \in Dep
    BY DEF LogIInv, ViewsOK
  <2>3. v \in topics'[view[v].dep].subs => v \in topics[view[v].dep].subs
    BY <2>2, <1>4, <1>5
  <2>4. CASE v \in lost
    BY <2>1, <2>4, <1>9
  <2>5. CASE v \notin lost
    BY <2>1, <2>3, <2>5, <1>9 DEF KeepsUp
  <2> QED
    BY <2>4, <2>5
<1>15. topicFor(d).closed => topics[d].held /\ topics[d].closed
  BY <1>2 DEF t
<1> QED
  BY <1>5, <1>6, <1>7, <1>10, <1>12, <1>13, <1>14, <1>15

\* The list takes a closed topic and lets the oldest ones go, each with its topic.
LEMMA EvictKeeps ==
  ASSUME LogIInv, NEW d \in Dep, Evict(d), UNCHANGED <<status, said, channel, view, got, lost>>
  PROVE  /\ topics' \in [Dep -> Topic] /\ closed' \in Seq(Dep) /\ Len(closed') <= keepClosed
         /\ evicted' \subseteq Dep
         /\ \A e \in Dep : /\ topics'[e] \in {topics[e], NoTopic}
                           /\ \/ e = d
                              \/ \E i \in 1..Len(closed) : closed[i] = e
                              => ~topics'[e].held \/ \E i \in 1..Len(closed') : closed'[i] = e
         /\ TopicsOK' /\ SubscribersOpen' /\ ViewsOK' /\ SeamsOK'
<1> DEFINE all == Append(closed, d)
           excess == IF Len(all) > keepClosed THEN Len(all) - keepClosed ELSE 0
           gone == {all[i] : i \in 1..excess}
<1>1. /\ topics \in [Dep -> Topic] /\ channel \in [Viewer -> Channel]
      /\ said \in [Dep -> Nat] /\ evicted \subseteq Dep
      /\ closed \in Seq(Dep) /\ Len(closed) <= keepClosed /\ keepClosed \in Nat
  BY LimitAssumption DEF LogIInv, LogTypes, Channel
<1>2. /\ closed' = SubSeq(all, excess + 1, Len(all))
      /\ topics' = [e \in Dep |-> IF e \in gone THEN NoTopic ELSE topics[e]]
      /\ evicted' = evicted \cup gone
  BY DEF Evict
<1>3. /\ all \in Seq(Dep) /\ Len(closed) \in Nat /\ Len(all) = Len(closed) + 1
      /\ \A i \in 1..Len(closed) : all[i] = closed[i]
      /\ all[Len(closed) + 1] = d
  BY <1>1, AppendProperties, LenProperties
<1> HIDE DEF all
<1>4. excess \in 0..Len(all) /\ Len(all) \in Nat
  BY <1>1, <1>3
<1>5. Len(all) - excess <= keepClosed
  BY <1>1, <1>3
<1>6. \A i \in 1..Len(all) : all[i] \in Dep
  BY <1>3, ElementOfSeq
<1>7. gone \subseteq Dep
  BY <1>4, <1>6
<1> HIDE DEF excess
<1>8. /\ closed' \in Seq(Dep) /\ Len(closed') = Len(all) - excess
      /\ \A i \in 1..(Len(all) - excess) : closed'[i] = all[excess + i]
  <2>1. \A i \in (excess + 1)..Len(all) : all[i] \in Dep
    BY <1>4, <1>6
  <2>2. /\ closed' \in Seq(Dep)
        /\ Len(closed') = (IF excess + 1 <= Len(all) THEN Len(all) - (excess + 1) + 1 ELSE 0)
        /\ \A i \in 1..(Len(all) - (excess + 1) + 1) : closed'[i] = all[(excess + 1) + i - 1]
    BY <2>1, <1>2, <1>3, <1>4, SubSeqProperties
  <2> DEFINE n == Len(all)
  <2>3. n \in Nat /\ excess \in 0..n
    BY <1>4
  <2> HIDE DEF n
  <2>4. /\ (IF excess + 1 <= n THEN n - (excess + 1) + 1 ELSE 0) = n - excess
        /\ n - (excess + 1) + 1 = n - excess
        /\ \A i \in 1..(n - excess) : (excess + 1) + i - 1 = excess + i
    BY <2>3
  <2> QED
    BY <2>2, <2>4 DEF n
<1>9. \A i \in 1..Len(all) : all[i] \in gone \/ \E j \in 1..Len(closed') : closed'[j] = all[i]
  <2> SUFFICES ASSUME NEW i \in 1..Len(all), ~(i \in 1..excess)
               PROVE  \E j \in 1..Len(closed') : closed'[j] = all[i]
    OBVIOUS
  <2>1. i - excess \in 1..(Len(all) - excess) /\ excess + (i - excess) = i
    BY <1>4
  <2> QED
    BY <2>1, <1>8
<1> HIDE DEF gone
<1>10. \A e \in Dep : /\ e \in gone => topics'[e] = NoTopic
                      /\ e \notin gone => topics'[e] = topics[e]
  BY <1>2
<1>11. NoTopic \in Topic /\ ~NoTopic.held /\ NoTopic.subs = {} /\ NoTopic.lines = <<>>
  BY EmptySeq DEF NoTopic, Topic
<1>12. topics' \in [Dep -> Topic]
  BY <1>1, <1>2, <1>11
<1>13. ASSUME NEW e \in Dep, e = d \/ \E i \in 1..Len(closed) : closed[i] = e
       PROVE  ~topics'[e].held \/ \E i \in 1..Len(closed') : closed'[i] = e
  <2>1. \E i \in 1..Len(all) : all[i] = e
    <3>1. CASE e = d
      <4>1. Len(closed) + 1 \in 1..Len(all)
        BY <1>3
      <4> QED
        BY <4>1, <3>1, <1>3
    <3>2. CASE \E i \in 1..Len(closed) : closed[i] = e
      <4>1. \A i \in 1..Len(closed) : i \in 1..Len(all)
        BY <1>3
      <4> QED
        BY <4>1, <3>2, <1>3
    <3> QED
      BY <3>1, <3>2, <1>13
  <2> QED
    BY <2>1, <1>9, <1>10, <1>11
<1>14. TopicsOK'
  <2> SUFFICES ASSUME NEW e \in Dep
               PROVE  /\ ~topics'[e].held => topics'[e] = NoTopic
                      /\ \E c \in Nat : /\ topics'[e].lines = Run(c, Len(topics'[e].lines))
                                        /\ c + Len(topics'[e].lines) = said[e]
                                        /\ e \notin evicted' => c = topics'[e].dropped
    BY DEF TopicsOK
  <2>1. CASE e \in gone
    <3>1. topics'[e] = NoTopic /\ Len(<<>>) = 0 /\ said[e] \in Nat /\ e \in evicted'
      BY <2>1, <1>1, <1>2, <1>10, EmptySeq
    <3>2. NoTopic.lines = Run(said[e], 0) /\ said[e] + 0 = said[e]
      BY <3>1, <1>11, EmptyRun
    <3> QED
      BY <3>1, <3>2, <1>11
  <2>2. CASE e \notin gone
    BY <2>2, <1>2, <1>10 DEF LogIInv, TopicsOK
  <2> QED
    BY <2>1, <2>2
<1>15. \A e \in Dep : topics'[e].subs \subseteq topics[e].subs
  BY <1>10, <1>11
<1>16. SubscribersOpen'
  BY <1>15 DEF LogIInv, SubscribersOpen
<1>17. ViewsOK'
  BY DEF LogIInv, ViewsOK
<1>18. SeamsOK'
  <2> SUFFICES ASSUME NEW v \in Viewer, view[v].place = "stream"
               PROVE  IF v \in lost THEN Rising(got[v], channel[v].lines, said[view[v].dep])
                      ELSE KeepsUp(v)'
    BY DEF SeamsOK
  <2>1. IF v \in lost THEN Rising(got[v], channel[v].lines, said[view[v].dep]) ELSE KeepsUp(v)
    BY DEF LogIInv, SeamsOK
  <2>2. view[v].dep \in Dep
    BY DEF LogIInv, ViewsOK
  <2> QED
    BY <2>1, <2>2, <1>15 DEF KeepsUp
<1> QED
  BY <1>1, <1>2, <1>5, <1>7, <1>8, <1>10, <1>12, <1>13, <1>14, <1>16, <1>17, <1>18

-----------------------------------------------------------------------------
(* The steps, each of which keeps the invariant.                             *)

\* A step that writes rows and nothing of the broker's keeps a final status final, and
\* whoever is about to put a topic on the list still is.
LEMMA RowSteps ==
  ASSUME LogIInv, NEW d \in Dep, Claim(d) \/ Advance(d) \/ Settle(d) \/ Cancel(d) \/ Delete(d)
  PROVE  LogIInv'
<1>1. UNCHANGED <<topics, closed, said, evicted, channel, lost, view, got>>
  BY DEF Claim, Advance, Settle, Cancel, Delete, SetStatus, broker, Unwatched
<1>2. /\ status \in [Dep -> {"queued", "building", "deploying", "done", "deleted"}]
      /\ pipe \in [Dep -> {"none", "build", "deploy", "end", "evict"}]
      /\ stop \in [Dep -> {"no", "line", "close", "evict"}]
  BY DEF LogIInv, LogTypes
<1>3. \A e \in Dep :
        /\ pipe[e] = "build" => status[e] \in {"building", "done", "deleted"}
        /\ pipe[e] = "deploy" => status[e] \in {"deploying", "deleted"}
        /\ pipe[e] \in {"end", "evict"} \/ stop[e] # "no" \/ topics[e].closed => IsTerminal(status[e])
  BY DEF LogIInv, WritersOK
<1>4. \A e \in Dep \ {d} : status'[e] = status[e] /\ pipe'[e] = pipe[e] /\ stop'[e] = stop[e]
  BY <1>2 DEF Claim, Advance, Settle, Cancel, Delete, SetStatus
<1>5. /\ status' \in [Dep -> {"queued", "building", "deploying", "done", "deleted"}]
      /\ pipe' \in [Dep -> {"none", "build", "deploy", "end", "evict"}]
      /\ stop' \in [Dep -> {"no", "line", "close", "evict"}]
      /\ IsTerminal(status[d]) => IsTerminal(status'[d])
      /\ pipe[d] = "evict" => pipe'[d] = "evict"
      /\ stop[d] = "evict" => stop'[d] = "evict"
      /\ pipe'[d] = "build" => status'[d] \in {"building", "done", "deleted"}
      /\ pipe'[d] = "deploy" => status'[d] \in {"deploying", "deleted"}
      /\ pipe'[d] \in {"end", "evict"} \/ stop'[d] # "no" \/ topics[d].closed
           => IsTerminal(status'[d])
  <2>1. CASE Claim(d)
    BY <2>1, <1>2, <1>3 DEF Claim, IsTerminal
  <2>2. CASE Advance(d)
    BY <2>2, <1>2, <1>3 DEF Advance, SetStatus, IsTerminal
  <2>3. CASE Settle(d)
    BY <2>3, <1>2, <1>3 DEF Settle, SetStatus, IsTerminal
  <2>4. CASE Cancel(d)
    BY <2>4, <1>2, <1>3 DEF Cancel, IsTerminal
  <2>5. CASE Delete(d)
    BY <2>5, <1>2, <1>3 DEF Delete, IsTerminal
  <2> QED
    BY <2>1, <2>2, <2>3, <2>4, <2>5
<1>6. \A e \in Dep : IsTerminal(status[e]) => IsTerminal(status'[e])
  BY <1>4, <1>5
<1>7. LogTypes'
  BY <1>1, <1>5 DEF LogIInv, LogTypes
<1>8. WritersOK'
  BY <1>1, <1>3, <1>4, <1>5 DEF WritersOK
<1>9. ListOK'
  BY <1>1, <1>4, <1>5 DEF LogIInv, ListOK
<1>10. TopicsOK' /\ SubscribersOpen'
  BY <1>1 DEF LogIInv, TopicsOK, SubscribersOpen
<1>11. ViewsOK'
  <2> SUFFICES ASSUME NEW v \in Viewer
               PROVE  /\ view[v].place # "idle" => view[v].dep \in Dep
                      /\ view[v].place # "stream" =>
                           channel[v] = NoChannel /\ got[v] = <<>> /\ v \notin lost
                      /\ \/ view[v].place = "look" /\ view[v].terminal
                         \/ view[v].place = "stream" /\ channel[v].closed
                         \/ view[v].place = "told"
                         => IsTerminal(status'[view[v].dep])
    BY <1>1 DEF ViewsOK
  <2> QED
    BY <1>6 DEF LogIInv, ViewsOK
<1>12. SeamsOK'
  BY <1>1 DEF LogIInv, SeamsOK, KeepsUp
<1> QED
  BY <1>7, <1>8, <1>9, <1>10, <1>11, <1>12 DEF LogIInv

\* A pipeline's line, and a cancel's.
LEMMA LineSteps ==
  ASSUME LogIInv, NEW d \in Dep, Log(d) \/ CancelLine(d)
  PROVE  LogIInv'
<1>1. Publish(d) /\ UNCHANGED <<status, pipe, closed, evicted, view, got>>
  BY DEF Log, CancelLine, Unwatched
<1>2. /\ stop' \in [Dep -> {"no", "line", "close", "evict"}]
      /\ \A e \in Dep : /\ stop'[e] # "no" => stop[e] # "no"
                        /\ stop[e] = "evict" => stop'[e] = "evict"
  BY DEF LogIInv, LogTypes, Log, CancelLine
<1>3. /\ topics' \in [Dep -> Topic] /\ channel' \in [Viewer -> Channel]
      /\ said' \in [Dep -> Nat] /\ lost' \subseteq Viewer
      /\ \A e \in Dep : topics'[e].closed => topics'[e] = topics[e]
      /\ TopicsOK' /\ SubscribersOpen' /\ ViewsOK' /\ SeamsOK'
  BY <1>1, PublishKeeps
<1>4. LogTypes'
  BY <1>1, <1>2, <1>3 DEF LogIInv, LogTypes, Channel
<1>5. WritersOK'
  BY <1>1, <1>2, <1>3 DEF LogIInv, WritersOK
<1>6. ListOK'
  BY <1>1, <1>2, <1>3 DEF LogIInv, ListOK
<1> QED
  BY <1>3, <1>4, <1>5, <1>6 DEF LogIInv

\* Whoever closes a topic is the one who puts it on the list.
LEMMA CloseSteps ==
  ASSUME LogIInv, NEW d \in Dep, CloseAtEnd(d) \/ CancelClose(d)
  PROVE  LogIInv'
<1>1. Close(d) /\ UNCHANGED <<status, closed, said, evicted, view, got, lost>>
  BY DEF CloseAtEnd, CancelClose, Unwatched
<1>2. IsTerminal(status[d])
  BY DEF LogIInv, WritersOK, CloseAtEnd, CancelClose
<1>3. /\ topics' \in [Dep -> Topic] /\ channel' \in [Viewer -> Channel]
      /\ \A e \in Dep \ {d} : topics'[e] = topics[e]
      /\ topicFor(d).closed => topics[d].held /\ topics[d].closed
      /\ TopicsOK' /\ SubscribersOpen' /\ ViewsOK' /\ SeamsOK'
  BY <1>1, <1>2, CloseKeeps
<1>4. /\ pipe' \in [Dep -> {"none", "build", "deploy", "end", "evict"}]
      /\ stop' \in [Dep -> {"no", "line", "close", "evict"}]
      /\ \A e \in Dep \ {d} : pipe'[e] = pipe[e] /\ stop'[e] = stop[e]
      /\ pipe[d] = "evict" => pipe'[d] = "evict"
      /\ stop[d] = "evict" => stop'[d] = "evict"
      /\ pipe'[d] = pipe[d] \/ pipe'[d] \in {"none", "evict"}
      /\ ~topicFor(d).closed => pipe'[d] = "evict" \/ stop'[d] = "evict"
  BY DEF LogIInv, LogTypes, CloseAtEnd, CancelClose
<1>5. LogTypes'
  BY <1>1, <1>3, <1>4 DEF LogIInv, LogTypes, Channel
<1>6. WritersOK'
  <2>1. /\ pipe'[d] = "build" => status'[d] \in {"building", "done", "deleted"}
        /\ pipe'[d] = "deploy" => status'[d] \in {"deploying", "deleted"}
        /\ IsTerminal(status'[d])
    BY <1>1, <1>2, <1>4 DEF LogIInv, WritersOK
  <2> QED
    BY <2>1, <1>1, <1>3, <1>4 DEF LogIInv, WritersOK
<1>7. ListOK'
  <2> SUFFICES ASSUME NEW e \in Dep, topics'[e].held, topics'[e].closed
               PROVE  pipe'[e] = "evict" \/ stop'[e] = "evict"
                      \/ \E i \in 1..Len(closed) : closed[i] = e
    BY <1>1 DEF ListOK
  <2>1. CASE e # d
    BY <2>1, <1>3, <1>4 DEF LogIInv, ListOK
  <2>2. CASE e = d /\ topicFor(d).closed
    BY <2>2, <1>3, <1>4 DEF LogIInv, ListOK
  <2>3. CASE e = d /\ ~topicFor(d).closed
    BY <2>3, <1>4
  <2> QED
    BY <2>1, <2>2, <2>3
<1> QED
  BY <1>3, <1>5, <1>6, <1>7 DEF LogIInv

\* The list of closed topics takes one in and may drop its first.
LEMMA EvictSteps ==
  ASSUME LogIInv, NEW d \in Dep, EvictAtEnd(d) \/ CancelEvict(d)
  PROVE  LogIInv'
<1>1. Evict(d) /\ UNCHANGED <<status, said, channel, view, got, lost>>
  BY DEF EvictAtEnd, CancelEvict, Unwatched
<1>2. /\ topics' \in [Dep -> Topic] /\ closed' \in Seq(Dep) /\ Len(closed') <= keepClosed
      /\ evicted' \subseteq Dep
      /\ \A e \in Dep : /\ topics'[e] \in {topics[e], NoTopic}
                        /\ \/ e = d
                           \/ \E i \in 1..Len(closed) : closed[i] = e
                           => ~topics'[e].held \/ \E i \in 1..Len(closed') : closed'[i] = e
      /\ TopicsOK' /\ SubscribersOpen' /\ ViewsOK' /\ SeamsOK'
  BY <1>1, EvictKeeps
<1>3. /\ pipe' \in [Dep -> {"none", "build", "deploy", "end", "evict"}]
      /\ stop' \in [Dep -> {"no", "line", "close", "evict"}]
      /\ \A e \in Dep \ {d} : pipe'[e] = pipe[e] /\ stop'[e] = stop[e]
      /\ pipe'[d] \in {pipe[d], "none"} /\ stop'[d] \in {stop[d], "no"}
  BY DEF LogIInv, LogTypes, EvictAtEnd, CancelEvict
<1>4. ~NoTopic.closed /\ ~NoTopic.held
  BY DEF NoTopic
<1>5. LogTypes'
  BY <1>1, <1>2, <1>3 DEF LogIInv, LogTypes
<1>6. WritersOK'
  <2> SUFFICES ASSUME NEW e \in Dep
               PROVE  /\ pipe'[e] = "build" => status[e] \in {"building", "done", "deleted"}
                      /\ pipe'[e] = "deploy" => status[e] \in {"deploying", "deleted"}
                      /\ pipe'[e] \in {"end", "evict"} \/ stop'[e] # "no" \/ topics'[e].closed
                           => IsTerminal(status[e])
    BY <1>1 DEF WritersOK
  <2>1. /\ pipe'[e] \in {pipe[e], "none"} /\ stop'[e] \in {stop[e], "no"}
        /\ topics'[e].closed => topics[e].closed
    BY <1>2, <1>3, <1>4
  <2> QED
    BY <2>1 DEF LogIInv, WritersOK
<1>7. ListOK'
  <2> SUFFICES ASSUME NEW e \in Dep, topics'[e].held, topics'[e].closed
               PROVE  pipe'[e] = "evict" \/ stop'[e] = "evict"
                      \/ \E i \in 1..Len(closed') : closed'[i] = e
    BY DEF ListOK
  <2>1. topics'[e] = topics[e]
    BY <1>2, <1>4
  <2>2. CASE e = d
    BY <2>2, <1>2
  <2>3. CASE e # d
    BY <2>1, <2>3, <1>2, <1>3 DEF LogIInv, ListOK
  <2> QED
    BY <2>2, <2>3
<1> QED
  BY <1>2, <1>5, <1>6, <1>7 DEF LogIInv

\* A viewer that looks, or that is told at once, has no channel yet.
LEMMA LookSteps ==
  ASSUME LogIInv, NEW v \in Viewer, NothingHeld(v) \/ \E d \in Dep : Look(v, d)
  PROVE  LogIInv'
<1>1. UNCHANGED <<status, pipe, stop, topics, closed, said, evicted, channel, got, lost>>
  BY DEF NothingHeld, Look, broker
<1>2. view \in [Viewer -> [place : Place, dep : Dep \cup {0}, terminal : BOOLEAN]]
  BY DEF LogIInv, LogTypes
<1>3. /\ view' \in [Viewer -> [place : Place, dep : Dep \cup {0}, terminal : BOOLEAN]]
      /\ \A w \in Viewer \ {v} : view'[w] = view[w]
      /\ view[v].place # "stream" /\ view'[v].place # "stream"
      /\ view'[v].dep \in Dep
      /\ \/ view'[v].place = "look" /\ view'[v].terminal
         \/ view'[v].place = "told"
         => IsTerminal(status[view'[v].dep])
  <2>1. CASE NothingHeld(v)
    <3>1. /\ view' = [view EXCEPT ![v].place = "told"]
          /\ view[v].place = "look" /\ view[v].terminal
      BY <2>1 DEF NothingHeld, Goto
    <3>2. view[v].dep \in Dep /\ IsTerminal(status[view[v].dep])
      BY <3>1 DEF LogIInv, ViewsOK
    <3> QED
      BY <3>1, <3>2, <1>2 DEF Place
  <2>2. ASSUME NEW d \in Dep, Look(v, d)
        PROVE  /\ view' = [view EXCEPT ![v] =
                             [place |-> "look", dep |-> d, terminal |-> IsTerminal(status[d])]]
               /\ view[v].place \in {"idle", "told"}
    BY <2>2 DEF Look
  <2>3. CASE \E d \in Dep : Look(v, d)
    <3>1. PICK d \in Dep : Look(v, d)
      BY <2>3
    <3> DEFINE final == IsTerminal(status[d])
               r == [place |-> "look", dep |-> d, terminal |-> final]
    <3>2. final \in BOOLEAN
      BY DEF IsTerminal
    <3>3. view' = [view EXCEPT ![v] = r] /\ view[v].place \in {"idle", "told"}
      BY <3>1, <2>2
    <3>4. final => IsTerminal(status[d])
      OBVIOUS
    <3> HIDE DEF final
    <3>5. /\ r \in [place : Place, dep : Dep \cup {0}, terminal : BOOLEAN]
          /\ r.place = "look" /\ r.dep = d /\ r.terminal = final
      BY <3>2 DEF Place
    <3> HIDE DEF r
    <3>6. view'[v] = r /\ \A w \in Viewer \ {v} : view'[w] = view[w]
      BY <3>3, <1>2
    <3>7. view' \in [Viewer -> [place : Place, dep : Dep \cup {0}, terminal : BOOLEAN]]
      BY <3>3, <3>5, <1>2
    <3> QED
      BY <3>3, <3>4, <3>5, <3>6, <3>7
  <2> QED
    BY <2>1, <2>3
<1>4. LogTypes'
  BY <1>1, <1>3 DEF LogIInv, LogTypes
<1>5. WritersOK' /\ TopicsOK' /\ ListOK'
  BY <1>1 DEF LogIInv, WritersOK, TopicsOK, ListOK
<1>6. SubscribersOpen'
  <2>1. \A e \in Dep : topics[e].subs \subseteq Viewer
    BY DEF LogIInv, LogTypes, Topic
  <2>2. \A e \in Dep : v \notin topics[e].subs
    BY <1>3 DEF LogIInv, SubscribersOpen
  <2> QED
    BY <2>1, <2>2, <1>1, <1>3 DEF LogIInv, SubscribersOpen
<1>7. ViewsOK'
  BY <1>1, <1>3 DEF LogIInv, ViewsOK
<1>8. SeamsOK'
  <2> SUFFICES ASSUME NEW w \in Viewer, view'[w].place = "stream"
               PROVE  IF w \in lost THEN Rising(got[w], channel[w].lines, said[view'[w].dep])
                      ELSE KeepsUp(w)'
    BY <1>1 DEF SeamsOK
  <2>1. w # v /\ view'[w] = view[w]
    BY <1>3
  <2> QED
    BY <2>1, <1>1 DEF LogIInv, SeamsOK, KeepsUp
<1> QED
  BY <1>4, <1>5, <1>6, <1>7, <1>8 DEF LogIInv

\* The history and the registration are one step: the channel goes on where the history
\* ends.
LEMMA SubscribeStep ==
  ASSUME LogIInv, NEW v \in Viewer, Subscribe(v)
  PROVE  LogIInv'
<1> DEFINE d == view[v].dep
           t == topicFor(d)
           w == [t EXCEPT !.subs = IF t.closed THEN @ ELSE @ \cup {v}]
<1>1. /\ view[v].place = "look"
      /\ topics' = [topics EXCEPT ![d] = w]
      /\ channel' = [channel EXCEPT ![v].closed = t.closed]
      /\ got' = [got EXCEPT ![v] = t.lines]
      /\ view' = [view EXCEPT ![v].place = "stream"]
      /\ UNCHANGED <<status, pipe, stop, closed, said, evicted, lost>>
  BY DEF Subscribe, Goto
<1>2. d \in Dep /\ channel[v] = NoChannel /\ v \notin lost
  BY <1>1 DEF LogIInv, ViewsOK
<1>3. /\ topics \in [Dep -> Topic] /\ channel \in [Viewer -> Channel]
      /\ said \in [Dep -> Nat] /\ got \in [Viewer -> Seq(Nat)]
      /\ view \in [Viewer -> [place : Place, dep : Dep \cup {0}, terminal : BOOLEAN]]
  BY DEF LogIInv, LogTypes, Channel
<1>4. /\ t \in Topic /\ t.held /\ t.closed = topics[d].closed /\ t.subs = topics[d].subs
      /\ t.closed => topics[d].held
      /\ \E b \in Nat : /\ t.lines = Run(b, Len(t.lines)) /\ b + Len(t.lines) = said[d]
                        /\ d \notin evicted => b = t.dropped
  BY <1>2, TopicFor
<1>5. t.closed => t = topics[d]
  BY <1>4 DEF topicFor
<1> HIDE DEF t
<1>6. /\ w \in Topic /\ w.held /\ w.closed = t.closed /\ w.lines = t.lines
      /\ w.dropped = t.dropped /\ w.subs = IF t.closed THEN t.subs ELSE t.subs \cup {v}
  BY <1>4 DEF Topic
<1>7. t.closed => w = topics[d]
  BY <1>4, <1>5, <1>3, <1>2 DEF Topic
<1> HIDE DEF w
<1> HIDE DEF d
<1>8. topics'[d] = w /\ \A e \in Dep \ {d} : topics'[e] = topics[e]
  BY <1>1, <1>2, <1>3
<1>9. /\ view'[v].place = "stream" /\ view'[v].dep = d
      /\ \A x \in Viewer \ {v} : /\ view'[x] = view[x] /\ channel'[x] = channel[x]
                                 /\ got'[x] = got[x]
      /\ got'[v] = t.lines /\ channel'[v].lines = <<>> /\ channel'[v].closed = t.closed
  BY <1>1, <1>2, <1>3 DEF Channel, NoChannel, d
<1>10. LogTypes'
  <2>1. topics' \in [Dep -> Topic]
    BY <1>1, <1>3, <1>6
  <2>2. channel' \in [Viewer -> Channel] /\ got' \in [Viewer -> Seq(Nat)]
    BY <1>1, <1>3, <1>4 DEF Channel, Topic
  <2>3. view' \in [Viewer -> [place : Place, dep : Dep \cup {0}, terminal : BOOLEAN]]
    BY <1>1, <1>3 DEF Place
  <2> QED
    BY <2>1, <2>2, <2>3, <1>1 DEF LogIInv, LogTypes, Channel
<1>11. WritersOK'
  BY <1>1, <1>4, <1>6, <1>8 DEF LogIInv, WritersOK
<1>12. TopicsOK'
  <2> SUFFICES ASSUME NEW e \in Dep
               PROVE  /\ ~topics'[e].held => topics'[e] = NoTopic
                      /\ \E c \in Nat : /\ topics'[e].lines = Run(c, Len(topics'[e].lines))
                                        /\ c + Len(topics'[e].lines) = said[e]
                                        /\ e \notin evicted => c = topics'[e].dropped
    BY <1>1 DEF TopicsOK
  <2>1. CASE e = d
    BY <2>1, <1>4, <1>6, <1>8
  <2>2. CASE e # d
    <3>1. topics'[e] = topics[e]
      BY <2>2, <1>8
    <3> QED
      BY <3>1, TopicsKept
  <2> QED
    BY <2>1, <2>2
<1>13. ListOK'
  BY <1>1, <1>6, <1>7, <1>8 DEF LogIInv, ListOK
<1>14. SubscribersOpen'
  <2> SUFFICES ASSUME NEW e \in Dep, NEW x \in topics'[e].subs
               PROVE  ~channel'[x].closed /\ view'[x].place = "stream" /\ view'[x].dep = e
    BY DEF SubscribersOpen
  <2>1. \A f \in Dep : \A y \in topics[f].subs :
          y \in Viewer /\ ~channel[y].closed /\ view[y].place = "stream" /\ view[y].dep = f
    BY <1>3 DEF LogIInv, SubscribersOpen, Topic
  <2>2. CASE x \in topics[e].subs
    BY <2>1, <2>2, <1>1, <1>9
  <2>3. CASE x \notin topics[e].subs
    BY <2>3, <1>4, <1>6, <1>8, <1>9
  <2> QED
    BY <2>2, <2>3
<1>15. ViewsOK'
  <2> SUFFICES ASSUME NEW x \in Viewer
               PROVE  /\ view'[x].place # "idle" => view'[x].dep \in Dep
                      /\ view'[x].place # "stream" =>
                           channel'[x] = NoChannel /\ got'[x] = <<>> /\ x \notin lost
                      /\ \/ view'[x].place = "look" /\ view'[x].terminal
                         \/ view'[x].place = "stream" /\ channel'[x].closed
                         \/ view'[x].place = "told"
                         => IsTerminal(status[view'[x].dep])
    BY <1>1 DEF ViewsOK
  <2>1. CASE x = v
    <3>1. t.closed => IsTerminal(status[d])
      BY <1>2, <1>4 DEF LogIInv, WritersOK
    <3> QED
      BY <2>1, <3>1, <1>2, <1>9
  <2>2. CASE x # v
    BY <2>2, <1>9 DEF LogIInv, ViewsOK
  <2> QED
    BY <2>1, <2>2
<1>16. SeamsOK'
  <2> SUFFICES ASSUME NEW x \in Viewer, view'[x].place = "stream"
               PROVE  IF x \in lost THEN Rising(got'[x], channel'[x].lines, said[view'[x].dep])
                      ELSE KeepsUp(x)'
    BY <1>1 DEF SeamsOK
  <2>1. CASE x = v
    <3>1. PICK b \in Nat : t.lines = Run(b, Len(t.lines)) /\ b + Len(t.lines) = said[d]
      BY <1>4
    <3>2. Len(t.lines) \in Nat /\ b + Len(t.lines) \in Nat
      BY <1>4, LenProperties DEF Topic
    <3>3. Len(<<>>) = 0 /\ <<>> = Run(b + Len(t.lines), 0)
      BY <3>2, EmptySeq, EmptyRun
    <3>4. b + Len(t.lines) + 0 = said[d]
      BY <3>1, <3>2
    <3>5. KeepsUp(v)'
      BY <3>1, <3>3, <3>4, <1>1, <1>9 DEF KeepsUp
    <3> QED
      BY <2>1, <3>5, <1>2
  <2>2. CASE x # v
    <3>1. view'[x] = view[x] /\ got'[x] = got[x] /\ channel'[x] = channel[x]
      BY <2>2, <1>9
    <3>2. view[x].dep \in Dep
      BY <3>1 DEF LogIInv, ViewsOK
    <3>3. x \in topics'[view[x].dep].subs <=> x \in topics[view[x].dep].subs
      BY <2>2, <3>2, <1>4, <1>6, <1>8
    <3> QED
      BY <3>1, <3>3, <1>1 DEF LogIInv, SeamsOK, KeepsUp
  <2> QED
    BY <2>1, <2>2
<1> QED
  BY <1>10, <1>11, <1>12, <1>13, <1>14, <1>15, <1>16 DEF LogIInv

\* What is sent next is what waits first.
LEMMA ReceiveStep ==
  ASSUME LogIInv, NEW v \in Viewer, Receive(v)
  PROVE  LogIInv'
<1> DEFINE s == got[v]
           t == channel[v].lines
<1>1. /\ view[v].place = "stream" /\ t # <<>>
      /\ got' = [got EXCEPT ![v] = Append(s, Head(t))]
      /\ channel' = [channel EXCEPT ![v].lines = Tail(t)]
      /\ UNCHANGED <<status, pipe, stop, topics, closed, said, evicted, view, lost>>
  BY DEF Receive, broker
<1>2. /\ channel \in [Viewer -> Channel] /\ said \in [Dep -> Nat] /\ got \in [Viewer -> Seq(Nat)]
  BY DEF LogIInv, LogTypes, Channel
<1>3. s \in Seq(Nat) /\ t \in Seq(Nat)
  BY <1>2 DEF Channel
<1>4. Head(t) \in Nat /\ Tail(t) \in Seq(Nat) /\ Append(s, Head(t)) \in Seq(Nat)
  BY <1>1, <1>3, HeadTailProperties, AppendProperties
<1>5. /\ got'[v] = Append(s, Head(t)) /\ channel'[v].lines = Tail(t)
      /\ channel'[v].closed = channel[v].closed
      /\ \A x \in Viewer \ {v} : channel'[x] = channel[x] /\ got'[x] = got[x]
  BY <1>1, <1>2 DEF Channel
<1>6. LogTypes'
  <2>1. channel' \in [Viewer -> Channel] /\ got' \in [Viewer -> Seq(Nat)]
    BY <1>1, <1>2, <1>4 DEF Channel
  <2> QED
    BY <2>1, <1>1 DEF LogIInv, LogTypes, Channel
<1>7. WritersOK' /\ TopicsOK' /\ ListOK'
  BY <1>1 DEF LogIInv, WritersOK, TopicsOK, ListOK
<1>8. SubscribersOpen'
  BY <1>1, <1>5 DEF LogIInv, SubscribersOpen, LogTypes, Topic
<1>9. ViewsOK'
  BY <1>1, <1>5 DEF LogIInv, ViewsOK
<1>10. SeamsOK'
  <2> SUFFICES ASSUME NEW x \in Viewer, view[x].place = "stream"
               PROVE  IF x \in lost THEN Rising(got'[x], channel'[x].lines, said[view[x].dep])
                      ELSE KeepsUp(x)'
    BY <1>1 DEF SeamsOK
  <2>1. IF x \in lost THEN Rising(got[x], channel[x].lines, said[view[x].dep]) ELSE KeepsUp(x)
    BY DEF LogIInv, SeamsOK
  <2>2. CASE x # v
    BY <2>1, <2>2, <1>1, <1>5 DEF KeepsUp
  <2>3. CASE x = v /\ v \in lost
    <3>1. said[view[v].dep] \in Nat
      BY <1>1, <1>2 DEF LogIInv, ViewsOK
    <3>2. Rising(s, t, said[view[v].dep])
      BY <2>1, <2>3
    <3> HIDE DEF s, t
    <3>3. Rising(Append(s, Head(t)), Tail(t), said[view[v].dep])
      BY <1>1, <1>3, <3>1, <3>2, RisingReceive
    <3> QED
      BY <2>3, <3>3, <1>5
  <2>4. CASE x = v /\ v \notin lost
    <3> DEFINE m == Len(s)
               n == Len(t)
               last == said[view[v].dep]
    <3>1. PICK b \in Nat : /\ s = Run(b, m) /\ t = Run(b + m, n)
                           /\ v \in topics[view[v].dep].subs => b + m + n = last
      BY <2>1, <2>4 DEF KeepsUp
    <3>2. m \in Nat /\ n \in Nat /\ n # 0
      BY <1>1, <1>3, LenProperties, EmptySeq
    <3> HIDE DEF s, t, m, n, last
    <3>3. b + m \in Nat /\ m + 1 \in Nat /\ n - 1 \in Nat /\ (b + m) + 1 = b + (m + 1)
          /\ b + m + 1 = b + (m + 1) /\ b + (m + 1) \in Nat /\ b + (m + 1) + (n - 1) = b + m + n
      BY <3>2
    <3>4. Head(t) = b + m + 1 /\ Tail(t) = Run(b + (m + 1), n - 1)
      <4>1. Head(Run(b + m, n)) = (b + m) + 1 /\ Tail(Run(b + m, n)) = Run((b + m) + 1, n - 1)
        BY <3>2, <3>3, RunTail
      <4> QED
        BY <4>1, <3>1, <3>3
    <3>5. Append(s, Head(t)) = Run(b, m + 1)
      BY <3>1, <3>2, <3>4, RunAppend
    <3>6. Len(Append(s, Head(t))) = m + 1 /\ Len(Tail(t)) = n - 1
      <4>1. Len(Run(b, m + 1)) = m + 1
        BY <3>3, RunSeq
      <4>2. Len(Run(b + (m + 1), n - 1)) = n - 1
        BY <3>3, RunSeq
      <4> QED
        BY <4>1, <4>2, <3>4, <3>5
    <3>7. KeepsUp(v)'
      <4>1. got'[v] = Run(b, Len(got'[v]))
        BY <3>5, <3>6, <1>5
      <4>2. channel'[v].lines = Run(b + Len(got'[v]), Len(channel'[v].lines))
        BY <3>4, <3>6, <1>5
      <4>3. v \in topics'[view'[v].dep].subs =>
              b + Len(got'[v]) + Len(channel'[v].lines) = said'[view'[v].dep]
        BY <3>1, <3>3, <3>6, <1>1, <1>5 DEF last
      <4> QED
        BY <4>1, <4>2, <4>3 DEF KeepsUp
    <3> QED
      BY <3>7, <2>4
  <2> QED
    BY <2>2, <2>3, <2>4
<1> QED
  BY <1>6, <1>7, <1>8, <1>9, <1>10 DEF LogIInv

\* A stream that ends leaves nothing behind.
LEMMA EndSteps ==
  ASSUME LogIInv, NEW v \in Viewer, Done(v) \/ Leave(v)
  PROVE  LogIInv'
<1>1. /\ view[v].place = "stream"
      /\ UNCHANGED <<status, pipe, stop, closed, said, evicted>>
      /\ got' = [got EXCEPT ![v] = <<>>] /\ lost' = lost \ {v}
  BY DEF Done, Leave, Over, broker
<1>2. /\ topics \in [Dep -> Topic] /\ channel \in [Viewer -> Channel]
      /\ got \in [Viewer -> Seq(Nat)] /\ lost \subseteq Viewer
      /\ view \in [Viewer -> [place : Place, dep : Dep \cup {0}, terminal : BOOLEAN]]
  BY DEF LogIInv, LogTypes, Channel
<1>3. NoChannel \in Channel /\ <<>> \in Seq(Nat) /\ NoChannel.closed
  BY EmptySeq DEF NoChannel, Channel
<1>4. /\ view' \in [Viewer -> [place : Place, dep : Dep \cup {0}, terminal : BOOLEAN]]
      /\ channel' \in [Viewer -> Channel]
      /\ view'[v].place \in {"told", "idle"}
      /\ view'[v].place = "told" => view'[v].dep = view[v].dep /\ channel[v].closed
      /\ channel'[v] = NoChannel
      /\ \A x \in Viewer \ {v} : view'[x] = view[x] /\ channel'[x] = channel[x]
  <2>1. CASE Done(v)
    <3>1. /\ view' = [view EXCEPT ![v].place = "told"] /\ channel[v] = NoChannel
          /\ channel' = channel
      BY <2>1 DEF Done, Goto
    <3> QED
      BY <3>1, <1>2, <1>3 DEF Place
  <2>2. CASE Leave(v)
    <3>1. view' = [view EXCEPT ![v] = Idle] /\ channel' = [channel EXCEPT ![v] = NoChannel]
      BY <2>2 DEF Leave, Unsubscribe
    <3> QED
      BY <3>1, <1>2, <1>3 DEF Place, Idle
  <2> QED
    BY <2>1, <2>2
<1>5. \A e \in Dep : /\ topics'[e] = [topics[e] EXCEPT !.subs = topics'[e].subs]
                     /\ v \notin topics'[e].subs
                     /\ \A x \in Viewer \ {v} : x \in topics'[e].subs <=> x \in topics[e].subs
                     /\ topics'[e].subs \subseteq topics[e].subs
  <2>1. CASE Done(v)
    <3>1. topics' = topics /\ channel[v].closed
      BY <2>1, <1>3 DEF Done, broker
    <3>2. \A e \in Dep : v \notin topics[e].subs
      BY <3>1 DEF LogIInv, SubscribersOpen
    <3>3. \A e \in Dep : topics[e] = [topics[e] EXCEPT !.subs = topics[e].subs]
      BY <1>2 DEF Topic
    <3> QED
      BY <3>1, <3>2, <3>3
  <2>2. CASE Leave(v)
    <3>1. topics' = [e \in Dep |-> [topics[e] EXCEPT !.subs = @ \ {v}]]
      BY <2>2 DEF Leave, Unsubscribe
    <3>2. \A e \in Dep : topics'[e].subs = topics[e].subs \ {v}
      BY <3>1, <1>2 DEF Topic
    <3> QED
      BY <3>1, <3>2
  <2> QED
    BY <2>1, <2>2
<1>6. \A e \in Dep : /\ topics'[e] \in Topic
                     /\ topics'[e].lines = topics[e].lines /\ topics'[e].dropped = topics[e].dropped
                     /\ topics'[e].closed = topics[e].closed /\ topics'[e].held = topics[e].held
                     /\ topics[e] = NoTopic => topics'[e] = NoTopic
  <2> SUFFICES ASSUME NEW e \in Dep
               PROVE  /\ topics'[e] \in Topic
                      /\ topics'[e].lines = topics[e].lines /\ topics'[e].dropped = topics[e].dropped
                      /\ topics'[e].closed = topics[e].closed /\ topics'[e].held = topics[e].held
                      /\ topics[e] = NoTopic => topics'[e] = NoTopic
    OBVIOUS
  <2>1. topics[e] \in Topic /\ topics'[e].subs \in SUBSET Viewer
    BY <1>2, <1>5 DEF Topic
  <2>2. topics'[e] = [topics[e] EXCEPT !.subs = topics'[e].subs]
    BY <1>5
  <2> DEFINE subs == topics'[e].subs
  <2> HIDE DEF subs
  <2>3. topics'[e] = [topics[e] EXCEPT !.subs = subs] /\ subs \in SUBSET Viewer
    BY <2>1, <2>2 DEF subs
  <2>4. topics[e] = NoTopic => topics'[e] = NoTopic
    <3>1. NoTopic.subs = {}
      BY DEF NoTopic
    <3>2. topics[e] = NoTopic => subs = topics[e].subs
      BY <3>1, <1>5 DEF subs
    <3>3. topics[e] = [topics[e] EXCEPT !.subs = topics[e].subs]
      BY <2>1 DEF Topic
    <3> QED
      BY <3>2, <3>3, <2>3
  <2> QED
    BY <2>1, <2>3, <2>4 DEF Topic
<1>7. topics' \in [Dep -> Topic]
  <2>1. topics' = [e \in Dep |-> topics'[e]]
    <3>1. CASE Done(v)
      BY <3>1, <1>2 DEF Done, broker
    <3>2. CASE Leave(v)
      BY <3>2 DEF Leave, Unsubscribe
    <3> QED
      BY <3>1, <3>2
  <2> QED
    BY <2>1, <1>6
<1>8. LogTypes'
  <2>1. got' \in [Viewer -> Seq(Nat)] /\ lost' \subseteq Viewer
    BY <1>1, <1>2, <1>3
  <2> QED
    BY <2>1, <1>1, <1>4, <1>7 DEF LogIInv, LogTypes, Channel
<1>9. WritersOK'
  BY <1>1, <1>6 DEF LogIInv, WritersOK
<1>10. TopicsOK'
  <2> SUFFICES ASSUME NEW e \in Dep
               PROVE  /\ ~topics'[e].held => topics'[e] = NoTopic
                      /\ \E c \in Nat : /\ topics'[e].lines = Run(c, Len(topics'[e].lines))
                                        /\ c + Len(topics'[e].lines) = said[e]
                                        /\ e \notin evicted => c = topics'[e].dropped
    BY <1>1 DEF TopicsOK
  <2>1. topics'[e].lines = topics[e].lines /\ topics'[e].dropped = topics[e].dropped
        /\ topics'[e].held = topics[e].held /\ (topics[e] = NoTopic => topics'[e] = NoTopic)
    BY <1>6
  <2> QED
    BY <2>1, TopicsKept
<1>11. ListOK'
  BY <1>1, <1>6 DEF LogIInv, ListOK
<1>12. SubscribersOpen'
  <2>1. \A e \in Dep : topics[e].subs \subseteq Viewer
    BY <1>2 DEF Topic
  <2> SUFFICES ASSUME NEW e \in Dep, NEW x \in topics'[e].subs
               PROVE  ~channel'[x].closed /\ view'[x].place = "stream" /\ view'[x].dep = e
    BY DEF SubscribersOpen
  <2>2. x \in topics[e].subs /\ x # v
    BY <1>5
  <2>3. channel'[x] = channel[x] /\ view'[x] = view[x]
    BY <2>1, <2>2, <1>4
  <2> QED
    BY <2>2, <2>3 DEF LogIInv, SubscribersOpen
<1>13. ViewsOK'
  <2> SUFFICES ASSUME NEW x \in Viewer
               PROVE  /\ view'[x].place # "idle" => view'[x].dep \in Dep
                      /\ view'[x].place # "stream" =>
                           channel'[x] = NoChannel /\ got'[x] = <<>> /\ x \notin lost'
                      /\ \/ view'[x].place = "look" /\ view'[x].terminal
                         \/ view'[x].place = "stream" /\ channel'[x].closed
                         \/ view'[x].place = "told"
                         => IsTerminal(status[view'[x].dep])
    BY <1>1 DEF ViewsOK
  <2>1. CASE x = v
    <3>1. view[v].dep \in Dep /\ (channel[v].closed => IsTerminal(status[view[v].dep]))
      BY <1>1 DEF LogIInv, ViewsOK
    <3>2. got'[v] = <<>> /\ v \notin lost'
      BY <1>1, <1>2
    <3> QED
      BY <2>1, <3>1, <3>2, <1>4
  <2>2. CASE x # v
    BY <2>2, <1>1, <1>2, <1>4 DEF LogIInv, ViewsOK
  <2> QED
    BY <2>1, <2>2
<1>14. SeamsOK'
  <2> SUFFICES ASSUME NEW x \in Viewer, view'[x].place = "stream"
               PROVE  IF x \in lost' THEN Rising(got'[x], channel'[x].lines, said[view'[x].dep])
                      ELSE KeepsUp(x)'
    BY <1>1 DEF SeamsOK
  <2>1. x # v /\ view'[x] = view[x] /\ channel'[x] = channel[x] /\ got'[x] = got[x]
        /\ (x \in lost' <=> x \in lost)
    BY <1>1, <1>2, <1>4
  <2>2. x \in topics'[view[x].dep].subs <=> x \in topics[view[x].dep].subs
    BY <2>1, <1>5 DEF LogIInv, ViewsOK
  <2> QED
    BY <2>1, <2>2, <1>1 DEF LogIInv, SeamsOK, KeepsUp
<1> QED
  BY <1>8, <1>9, <1>10, <1>11, <1>12, <1>13, <1>14 DEF LogIInv

-----------------------------------------------------------------------------
(* The theorems.                                                             *)

\* Every step of the log stream keeps the invariant.
LEMMA LogKept == LogIInv /\ [LogNext]_logVars => LogIInv'
<1> SUFFICES ASSUME LogIInv, [LogNext]_logVars PROVE LogIInv'
  OBVIOUS
<1>1. ASSUME NEW d \in Dep, \/ Claim(d) \/ Log(d) \/ Pipeline(d) \/ Cancel(d) \/ Canceller(d)
                            \/ Delete(d)
      PROVE  LogIInv'
  BY <1>1, RowSteps, LineSteps, CloseSteps, EvictSteps DEF Pipeline, Canceller
<1>2. ASSUME NEW v \in Viewer, Stream(v) \/ Leave(v) \/ \E d \in Dep : Look(v, d)
      PROVE  LogIInv'
  BY <1>2, LookSteps, SubscribeStep, ReceiveStep, EndSteps DEF Stream
<1>3. CASE UNCHANGED logVars
  <2>1. UNCHANGED <<status, pipe, stop, topics, closed, said, evicted, view, channel, got, lost>>
    BY <1>3 DEF logVars, broker
  <2>2. LogTypes' /\ WritersOK' /\ TopicsOK' /\ ListOK' /\ SubscribersOpen'
    BY <2>1 DEF LogIInv, LogTypes, WritersOK, TopicsOK, ListOK, SubscribersOpen
  <2>3. ViewsOK'
    BY <2>1 DEF LogIInv, ViewsOK
  <2>4. SeamsOK'
    BY <2>1 DEF LogIInv, SeamsOK, KeepsUp
  <2> QED
    BY <2>2, <2>3, <2>4 DEF LogIInv
<1> QED
  BY <1>1, <1>2, <1>3 DEF LogNext

\* Every state of the log stream satisfies the inductive invariant.
THEOREM LogInvariant == LogSpec => []LogIInv
<1> QED
  BY LogStart, LogKept, PTL DEF LogSpec

\* A set whose elements a sequence lists is no larger than the sequence is long.
LEMMA Listed ==
  ASSUME NEW S, NEW s \in Seq(S), NEW T \in SUBSET S, \A e \in T : \E i \in 1..Len(s) : s[i] = e
  PROVE  IsFiniteSet(T) /\ Cardinality(T) <= Len(s)
<1> DEFINE n == Len(s)
           at == [i \in 1..n |-> s[i]]
           R == {at[i] : i \in 1..n}
<1>1. n \in Nat
  BY LenProperties
<1>2. IsFiniteSet(1..n) /\ Cardinality(1..n) = n
  <2>1. 0 + 1 = 1 /\ 1 \in Int /\ n \in Int
    BY <1>1
  <2>2. IsFiniteSet(1..n) /\ Cardinality(1..n) = IF 1 > n THEN 0 ELSE n - 1 + 1
    BY <2>1, FS_Interval
  <2> QED
    BY <2>2, <1>1
<1>3. IsFiniteSet(R) /\ Cardinality(R) <= Cardinality(1..n)
  <2>1. at \in Surjection(1..n, R)
    BY DEF Surjection
  <2> HIDE DEF at
  <2> QED
    BY <2>1, <1>2, FS_Surjection
<1>4. T \subseteq R
  OBVIOUS
<1> HIDE DEF R
<1>5. IsFiniteSet(T) /\ Cardinality(T) <= Cardinality(R)
  BY <1>3, <1>4, FS_Subset
<1>6. Cardinality(T) \in Nat /\ Cardinality(R) \in Nat
  BY <1>3, <1>5, FS_CardinalityType
<1> QED
  BY <1>1, <1>2, <1>3, <1>5, <1>6

\* "Closed topics linger": for every number of deployments and viewers, no closed topic
\* has a subscriber or a viewer told early, and only the latest of them are kept
\* (Broker.Close, the list of closed topics).
THEOREM LogTables == LogSpec => []LogInv
<1>1. LogIInv => LogInv
  <2> SUFFICES ASSUME LogIInv PROVE LogInv
    OBVIOUS
  <2>1. LogTypeOK
    <3> SUFFICES ASSUME NEW d \in Dep
                 PROVE  /\ topics[d].dropped \in Nat /\ topics[d].subs \subseteq Viewer
                        /\ topics[d].closed \in BOOLEAN /\ topics[d].held \in BOOLEAN
                        /\ \A i \in DOMAIN topics[d].lines : topics[d].lines[i] \in 1..said[d]
      BY DEF LogIInv, LogTypes, LogTypeOK, Place
    <3>1. topics[d] \in Topic /\ said[d] \in Nat
      BY DEF LogIInv, LogTypes
    <3> DEFINE n == Len(topics[d].lines)
    <3>2. PICK b \in Nat : topics[d].lines = Run(b, n) /\ b + n = said[d]
      BY DEF LogIInv, TopicsOK
    <3>3. n \in Nat /\ DOMAIN topics[d].lines = 1..n
      BY <3>1, LenProperties DEF Topic
    <3> HIDE DEF n
    <3>4. \A i \in 1..n : Run(b, n)[i] = b + i /\ b + i \in 1..said[d]
      BY <3>1, <3>2, <3>3 DEF Run
    <3> QED
      BY <3>1, <3>2, <3>3, <3>4 DEF Topic
  <2>2. FewClosed
    <3> DEFINE T == {d \in Dep : topics[d].held /\ topics[d].closed
                                  /\ pipe[d] # "evict" /\ stop[d] # "evict"}
    <3>1. closed \in Seq(Dep) /\ Len(closed) <= keepClosed /\ Len(closed) \in Nat
          /\ keepClosed \in Nat
      BY LenProperties, LimitAssumption DEF LogIInv, LogTypes
    <3>2. \A d \in T : \E i \in 1..Len(closed) : closed[i] = d
      BY DEF LogIInv, ListOK
    <3>3. T \in SUBSET Dep
      OBVIOUS
    <3> HIDE DEF T
    <3>4. IsFiniteSet(T) /\ Cardinality(T) <= Len(closed)
      BY <3>1, <3>2, <3>3, Listed
    <3>5. Cardinality(T) \in Nat
      BY <3>4, FS_CardinalityType
    <3>6. Cardinality(T) <= keepClosed
      BY <3>1, <3>4, <3>5
    <3> QED
      BY <3>6 DEF FewClosed, T
  <2>3. DoneMeansSettled
    BY DEF LogIInv, ViewsOK, DoneMeansSettled
  <2> QED
    BY <2>1, <2>2, <2>3 DEF LogIInv, LogInv
<1> QED
  BY <1>1, LogInvariant, PTL

\* "No line is missed or duplicated across the seam" between the history and the channel
\* (Broker.Subscribe), however many lines, viewers and deployments there are.
THEOREM LinesConsecutive == LogSpec => []NoSeam
<1>1. LogIInv => NoSeam
  <2> SUFFICES ASSUME LogIInv, NEW v \in Viewer, view[v].place = "stream"
               PROVE  LET all == got[v] \o channel[v].lines
                          t == topics[view[v].dep]
                      IN /\ \A i \in 1..(Len(all) - 1) :
                              IF v \in lost THEN all[i] < all[i + 1] ELSE all[i] + 1 = all[i + 1]
                         /\ v \in t.subs \ lost /\ all # <<>>
                              => all[Len(all)] = said[view[v].dep]
    BY DEF NoSeam
  <2> DEFINE s == got[v]
             w == channel[v].lines
             m == Len(s)
             n == Len(w)
             all == s \o w
             last == said[view[v].dep]
             subs == topics[view[v].dep].subs
  <2>1. s \in Seq(Nat) /\ w \in Seq(Nat)
    BY DEF LogIInv, LogTypes
  <2>2. m \in Nat /\ n \in Nat
    BY <2>1, LenProperties
  <2>3. /\ all \in Seq(Nat) /\ Len(all) = m + n
        /\ \A i \in 1..m : all[i] = s[i]
        /\ \A i \in 1..n : all[m + i] = w[i]
    <3>1. /\ all \in Seq(Nat) /\ Len(all) = m + n
          /\ \A i \in 1..(m + n) : all[i] = IF i <= m THEN s[i] ELSE w[i - m]
      BY <2>1, ConcatProperties
    <3> HIDE DEF all, s, w, m, n
    <3>2. \A i \in 1..m : i \in 1..(m + n) /\ i <= m
      BY <2>2
    <3>3. \A i \in 1..n : m + i \in 1..(m + n) /\ ~(m + i <= m) /\ (m + i) - m = i
      BY <2>2
    <3>4. \A i \in 1..m : all[i] = s[i]
      BY <3>1, <3>2
    <3>5. \A i \in 1..n : all[m + i] = w[i]
      <4> SUFFICES ASSUME NEW i \in 1..n PROVE all[m + i] = w[i]
        OBVIOUS
      <4>1. all[m + i] = w[(m + i) - m]
        BY <3>1, <3>3
      <4> QED
        BY <4>1, <3>3
    <3> QED
      BY <3>1, <3>4, <3>5
  <2>4. IF v \in lost THEN Rising(s, w, last)
        ELSE \E b \in Nat : s = Run(b, m) /\ w = Run(b + m, n) /\ (v \in subs => b + m + n = last)
    BY DEF LogIInv, SeamsOK, KeepsUp
  <2>5. all # <<>> => m + n # 0
    BY <2>3, EmptySeq
  <2> SUFFICES /\ \A i \in 1..(Len(all) - 1) :
                    IF v \in lost THEN all[i] < all[i + 1] ELSE all[i] + 1 = all[i + 1]
               /\ v \in subs \ lost /\ all # <<>> => all[Len(all)] = last
    OBVIOUS
  <2> HIDE DEF all, s, w, last, subs
  <2>6. \A i \in 1..(m + n) : \/ i \in 1..m /\ all[i] = s[i]
                              \/ i - m \in 1..n /\ all[i] = w[i - m] /\ i > m
    <3> SUFFICES ASSUME NEW i \in 1..(m + n), ~(i \in 1..m)
                 PROVE  i - m \in 1..n /\ all[i] = w[i - m] /\ i > m
      BY <2>3
    <3>1. i - m \in 1..n /\ m + (i - m) = i /\ i > m
      BY <2>2
    <3> QED
      BY <3>1, <2>3
  <2>7. CASE v \in lost
    <3> SUFFICES ASSUME NEW i \in 1..(m + n - 1) PROVE all[i] < all[i + 1]
      BY <2>3, <2>7
    <3>1. i \in 1..(m + n) /\ i + 1 \in 1..(m + n) /\ i < i + 1
      BY <2>2
    <3>2. CASE i + 1 \in 1..m
      <4>1. i \in 1..m
        BY <2>2, <3>2
      <4> QED
        BY <4>1, <3>1, <3>2, <2>3, <2>4, <2>7 DEF Rising
    <3>3. CASE i \in 1..m /\ ~(i + 1 \in 1..m)
      BY <3>1, <3>3, <2>4, <2>6, <2>7 DEF Rising
    <3>4. CASE ~(i \in 1..m)
      <4>1. /\ i - m \in 1..n /\ all[i] = w[i - m]
            /\ i + 1 - m \in 1..n /\ all[i + 1] = w[i + 1 - m]
        <5>1. ~(i + 1 \in 1..m)
          BY <2>2, <3>4
        <5> QED
          BY <5>1, <3>1, <3>4, <2>6
      <4>2. i - m < i + 1 - m
        BY <2>2
      <4> QED
        BY <4>1, <4>2, <2>4, <2>7 DEF Rising
    <3> QED
      BY <3>2, <3>3, <3>4
  <2>8. CASE v \notin lost
    <3>1. PICK b \in Nat : s = Run(b, m) /\ w = Run(b + m, n) /\ (v \in subs => b + m + n = last)
      BY <2>4, <2>8
    <3> HIDE DEF m, n
    <3>2. (\A i \in 1..m : s[i] = b + i) /\ (\A i \in 1..n : w[i] = (b + m) + i)
      <4>1. \A i \in 1..m : Run(b, m)[i] = b + i
        BY <2>2, RunSeq
      <4>2. \A i \in 1..n : Run(b + m, n)[i] = (b + m) + i
        <5>1. b + m \in Nat
          BY <2>2
        <5> HIDE DEF Run
        <5> QED
          BY <5>1, <2>2, RunSeq
      <4>3. s = Run(b, m) /\ w = Run(b + m, n)
        BY <3>1
      <4>4. \A i \in 1..m : s[i] = b + i
        BY <4>1, <4>3
      <4> QED
        BY <4>2, <4>3, <4>4
    <3>3. \A i \in 1..(m + n) : all[i] = b + i
      <4> SUFFICES ASSUME NEW i \in 1..(m + n) PROVE all[i] = b + i
        OBVIOUS
      <4>1. CASE i \in 1..m /\ all[i] = s[i]
        BY <4>1, <3>2
      <4>2. CASE i - m \in 1..n /\ all[i] = w[i - m]
        <5>1. all[i] = (b + m) + (i - m)
          BY <4>2, <3>2
        <5> QED
          BY <5>1, <2>2
      <4> QED
        BY <4>1, <4>2, <2>6
    <3>4. ASSUME NEW i \in 1..(m + n - 1) PROVE all[i] + 1 = all[i + 1]
      <4>1. i \in 1..(m + n) /\ i + 1 \in 1..(m + n)
        BY <2>2
      <4>2. all[i] = b + i /\ all[i + 1] = b + (i + 1)
        BY <4>1, <3>3
      <4> QED
        BY <4>2
    <3>5. v \in subs /\ all # <<>> => all[m + n] = last
      <4>1. m + n # 0 => m + n \in 1..(m + n)
        BY <2>2
      <4>2. b + m + n = b + (m + n)
        BY <2>2
      <4> QED
        BY <4>1, <4>2, <3>1, <3>3, <2>5
    <3>6. Len(all) = m + n
      BY <2>3
    <3>7. \A i \in 1..(Len(all) - 1) : all[i] + 1 = all[i + 1]
      <4>1. Len(all) - 1 = m + n - 1
        BY <3>6, <2>2
      <4> QED
        BY <4>1, <3>4
    <3>8. v \in subs \ lost /\ all # <<>> => all[Len(all)] = last
      BY <3>5, <3>6
    <3> QED
      BY <3>7, <3>8, <2>8
  <2> QED
    BY <2>7, <2>8
<1> QED
  BY <1>1, LogInvariant, PTL

\* The history says how many lines are missing at its front, however often the topic
\* was trimmed (Topic.publish).
THEOREM HistoryCounts == LogSpec => []HistoryHonest
<1>1. LogIInv => HistoryHonest
  <2> SUFFICES ASSUME LogIInv, NEW d \in Dep \ evicted
               PROVE  topics[d].lines = [i \in 1..(said[d] - topics[d].dropped) |->
                                           topics[d].dropped + i]
    BY DEF HistoryHonest
  <2> DEFINE n == Len(topics[d].lines)
             k == topics[d].dropped
  <2>1. topics[d].lines = Run(k, n) /\ k + n = said[d]
    BY DEF LogIInv, TopicsOK
  <2>2. n \in Nat /\ k \in Nat
    BY LenProperties DEF LogIInv, LogTypes, Topic
  <2> HIDE DEF n, k
  <2>3. said[d] - k = n
    BY <2>1, <2>2
  <2> QED
    BY <2>1, <2>3 DEF Run, k
<1> QED
  BY <1>1, LogInvariant, PTL

=============================================================================

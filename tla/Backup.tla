------------------------------- MODULE Backup -------------------------------
(***************************************************************************)
(* Scheduled backups and restores (internal/backup).  Each run is a        *)
(* goroutine, guarded per schedule, that works through Docker and an       *)
(* object store in steps any of which may fail; shutting down cancels the  *)
(* context of every run, a crash loses the goroutines and leaves their     *)
(* helper containers behind.  An app and a database of one name and one    *)
(* prefix share a directory of the bucket: the app's archives lie one      *)
(* level deeper, by volume, beside the database's dumps.                   *)
(***************************************************************************)
EXTENDS Integers, FiniteSets

CONSTANTS
  AppSched, DbSched,  \* the schedules of the app and of the database, distinct prefixes within each
  Volume,             \* the app's named volumes
  Ctr,                \* the app's containers
  Proc,               \* goroutines
  Retention,          \* archives a schedule keeps; 0 keeps everything
  HistoryCap,         \* run rows kept per schedule (20 in the code)
  Overlap,            \* TRUE: the operator starts and stops the app while a restore runs
  MaxRow, MaxStamp, MaxWrites,  \* bounds: run rows, stamps, changes of the data
  MaxFaults           \* bound: failed calls, damaged archives, shutdowns and crashes

ASSUME BackupAssumption ==
  /\ AppSched \cap DbSched = {} /\ "db" \notin Volume
  /\ Retention \in Nat /\ HistoryCap \in Nat \ {0} /\ Overlap \in BOOLEAN
  /\ {MaxRow, MaxStamp, MaxWrites, MaxFaults} \subseteq Nat

VARIABLES
  alive, stopped,  \* the process runs; Manager.stopped
  sched,           \* each schedule: "none", "there" or "gone"
  inFlight,        \* Manager.inFlight
  proc,            \* the goroutines
  rows, nextRow,   \* backup_runs
  bucket,          \* the objects of the shared directory
  data,            \* what each volume and the database hold
  ctr,             \* the app's containers: "up", "down" or "gone"
  helpers,         \* helper containers that exist
  clock, writes, faults,
  put,             \* history: the stamps under which each unit was ever uploaded
  excused          \* history: containers down by hand, by a refused start or by a crash

goroutines == <<alive, stopped, inFlight, proc>>
table == <<sched, rows, nextRow>>
docker == <<data, ctr, helpers>>
store == <<bucket, put>>
bounds == <<clock, writes, faults>>
vars == <<goroutines, table, docker, store, bounds, excused>>

Sched == AppSched \cup DbSched
Unit == Volume \cup {"db"}
Units(s) == IF s \in AppSched THEN Volume ELSE {"db"}
Bad == -1   \* content of a damaged archive
Part == -2  \* data that is emptied or partly restored
Content == Bad..MaxWrites
NoObj == [unit |-> "db", stamp |-> 0, content |-> 0]
Idle == [kind |-> "idle", at |-> "end", s |-> "none", row |-> 0, left |-> {}, unit |-> "db",
         stamp |-> 0, obj |-> NoObj, quiesce |-> {}, stopped |-> {}, err |-> FALSE, late |-> FALSE]

Init ==
  /\ alive = TRUE /\ stopped = FALSE
  /\ sched = [s \in Sched |-> "none"]
  /\ inFlight = {} /\ proc = [g \in Proc |-> Idle]
  /\ rows = {} /\ nextRow = 1
  /\ bucket = {} /\ put = [u \in Unit |-> {}]
  /\ data = [u \in Unit |-> 0] /\ ctr \in [Ctr -> {"up", "down"}]
  /\ helpers = {}
  /\ clock = 1 /\ writes = 0 /\ faults = 0
  /\ excused = {c \in Ctr : ctr[c] = "down"}

Up == {c \in Ctr : ctr[c] = "up"}
AppExists == \E c \in Ctr : ctr[c] # "gone"
Active == {g \in Proc : proc[g].kind # "idle"}
Restoring == {g \in Active : proc[g].kind = "restore"}
At(g, k, at) == proc[g].kind = k /\ proc[g].at = at

-----------------------------------------------------------------------------
(* The pages.                                                              *)

validateBackupTarget(s) == s \in AppSched => AppExists /\ Volume # {}

handleCreateBackup(s) ==
  /\ alive /\ sched[s] = "none" /\ validateBackupTarget(s)
  /\ sched' = [sched EXCEPT ![s] = "there"]
  /\ UNCHANGED <<goroutines, rows, nextRow, docker, store, bounds, excused>>

\* One transaction removes the schedules and their history; a run in flight goes on.
DeleteBackups(S) ==
  /\ sched' = [s \in Sched |-> IF s \in S THEN "gone" ELSE sched[s]]
  /\ rows' = {r \in rows : r.s \notin S}
  /\ UNCHANGED nextRow

handleDeleteBackup(s) ==
  /\ alive /\ sched[s] = "there"
  /\ DeleteBackups({s})
  /\ UNCHANGED <<goroutines, docker, store, bounds, excused>>

\* Deleting the app removes its containers, then its rows with its schedules.
deleteBackupsForTarget ==
  /\ alive /\ AppExists
  /\ ctr' = [c \in Ctr |-> "gone"]
  /\ DeleteBackups(AppSched)
  /\ UNCHANGED <<goroutines, data, helpers, store, bounds, excused>>

\* Under the mutex: no run after Stop, one run per schedule.
launch(s, job) ==
  /\ alive /\ ~stopped /\ s \notin inFlight
  /\ inFlight' = inFlight \cup {s}
  /\ Active # Proc
  /\ LET g == CHOOSE g \in Proc : g \notin Active
     IN  proc' = [proc EXCEPT ![g] = [job EXCEPT !.s = s]]

RunNow(s) ==
  /\ launch(s, [Idle EXCEPT !.kind = "backup", !.at = "start"])
  /\ UNCHANGED <<alive, stopped, table, docker, store, bounds, excused>>

\* The scheduler takes the enabled schedules, the page any.
Tick(s) == sched[s] = "there" /\ RunNow(s)

\* The key lies under the schedule's directory, which the app and the database share.
handleRestoreBackup(s) ==
  /\ sched[s] = "there"
  /\ \E o \in bucket :
       launch(s, [Idle EXCEPT !.kind = "restore", !.at = "start", !.obj = o, !.unit = o.unit])
  /\ UNCHANGED <<alive, stopped, table, docker, store, bounds, excused>>

-----------------------------------------------------------------------------
(* A run.                                                                  *)

Goto(g, at) == proc' = [proc EXCEPT ![g].at = at]

\* A failed run records its outcome; a restore first restarts what it stopped.
FailAt(k) == IF k = "restore" THEN "restart" ELSE "record"
Failed(g) == proc' = [proc EXCEPT ![g].at = FailAt(proc[g].kind), ![g].err = TRUE]

\* A call made after the run's context ended fails; any other may fail, alone or
\* because the context ends.
Fault(g) ==
  \/ proc[g].late /\ Failed(g) /\ UNCHANGED faults
  \/ /\ ~proc[g].late /\ faults < MaxFaults
     /\ faults' = faults + 1
     /\ \E l \in BOOLEAN :
          proc' = [proc EXCEPT ![g].at = FailAt(proc[g].kind), ![g].err = TRUE, ![g].late = l]

idleBounds == <<clock, writes>>
still == <<alive, stopped, inFlight, table, docker, store, excused>>

StartBackupRun(g) ==
  LET p == proc[g]
      row == [id |-> nextRow, s |-> p.s, kind |-> p.kind, status |-> "running"]
      mine == {r \in rows : r.s = p.s} \cup {row}
      newest(r) == Cardinality({q \in mine : q.id > r.id}) < HistoryCap
  IN
  /\ p.at = "start"
  /\ \/ /\ ~p.late /\ sched[p.s] # "gone" /\ nextRow <= MaxRow
        /\ rows' = {r \in rows : r.s # p.s} \cup {r \in mine : newest(r)}
        /\ nextRow' = nextRow + 1
        /\ proc' = [proc EXCEPT ![g].at = "execute", ![g].row = nextRow]
        /\ UNCHANGED inFlight
     \/ /\ p.late \/ sched[p.s] = "gone" \/ nextRow > MaxRow
        /\ proc' = [proc EXCEPT ![g] = Idle]
        /\ inFlight' = inFlight \ {p.s}
        /\ UNCHANGED <<rows, nextRow>>
  /\ UNCHANGED <<alive, stopped, sched, docker, store, bounds, excused>>

\* Stamps have seconds: the next archive may bear the stamp of the last.
Stamp == clock' \in {t \in {clock, clock + 1} : t <= MaxStamp}

TargetExists(s) == IF s \in AppSched THEN AppExists ELSE TRUE

\* The target, its container or volumes and, for an app, the archives' stamp.
execute(g) ==
  LET p == proc[g] IN
  /\ At(g, "backup", "execute")
  /\ \/ /\ ~p.late /\ TargetExists(p.s)
        /\ Stamp
        /\ proc' = [proc EXCEPT ![g].at = IF p.s \in DbSched THEN "dump" ELSE "drop",
                                ![g].left = Units(p.s), ![g].stamp = clock']
        /\ UNCHANGED faults
     \/ ~p.late /\ ~TargetExists(p.s) /\ Failed(g) /\ UNCHANGED <<clock, faults>>
     \/ Fault(g) /\ UNCHANGED clock
  /\ UNCHANGED <<still, writes>>

Archive(u, stamp) ==
  [unit |-> u, stamp |-> stamp, content |-> IF data[u] = Part THEN Bad ELSE data[u]]

\* The dump is staged in a file before anything is uploaded.
backupDatabase(g) ==
  /\ At(g, "backup", "dump")
  /\ \/ /\ ~proc[g].late
        /\ proc' = [proc EXCEPT ![g].at = "put", ![g].left = {}, ![g].obj = Archive("db", proc[g].stamp)]
        /\ UNCHANGED faults
     \/ Fault(g)
  /\ UNCHANGED <<still, idleBounds>>

Stale(h) == {h}

Helper(g) == <<proc[g].kind, proc[g].s, IF proc[g].kind = "backup" THEN proc[g].unit ELSE "dst">>

dropStaleHelper(g) ==
  /\ proc[g].at = "drop"
  /\ \/ /\ ~proc[g].late
        /\ \E u \in IF proc[g].kind = "backup" THEN proc[g].left ELSE {proc[g].unit} :
             /\ proc' = [proc EXCEPT ![g].unit = u, ![g].left = @ \ {u},
                          ![g].at = IF proc[g].kind = "backup" THEN "tar" ELSE "stop"]
             /\ helpers' = helpers \ Stale(<<proc[g].kind, proc[g].s,
                                            IF proc[g].kind = "backup" THEN u ELSE "dst">>)
        /\ UNCHANGED faults
     \/ Fault(g) /\ UNCHANGED helpers
  /\ UNCHANGED <<alive, stopped, inFlight, table, data, ctr, store, idleBounds, excused>>

\* RunContainer creates under the helper's name, starts, waits, and removes the
\* container whatever happened; the daemon may refuse the removal.
CreateHelper(g) ==
  LET p == proc[g] IN
  /\ p.at \in {"tar", "untar"}
  /\ \/ /\ ~p.late /\ Helper(g) \notin helpers
        /\ helpers' = helpers \cup {Helper(g)}
        /\ data' = IF p.at = "untar" THEN [data EXCEPT ![p.unit] = Part] ELSE data
        /\ Goto(g, IF p.at = "untar" THEN "untarring" ELSE "tarring")
        /\ UNCHANGED faults
     \/ /\ ~p.late /\ Helper(g) \in helpers
        /\ Failed(g) /\ UNCHANGED <<helpers, data, faults>>
     \/ Fault(g) /\ UNCHANGED <<helpers, data>>
  /\ UNCHANGED <<alive, stopped, inFlight, table, ctr, store, idleBounds, excused>>

\* What the helper leaves in the volume: the archive, unless it is cut short or
\* a container of the app writes there meanwhile.
Untarred(o) == IF o.content = Bad \/ Up # {} THEN Part ELSE o.content

EndHelper(g) ==
  LET p == proc[g] IN
  /\ p.at \in {"tarring", "untarring"}
  /\ \/ /\ ~p.late
        /\ helpers' = helpers \ {Helper(g)}
        /\ IF p.at = "untarring"
           THEN /\ data' = [data EXCEPT ![p.unit] = Untarred(p.obj)]
                /\ IF p.obj.content = Bad THEN Failed(g) ELSE Goto(g, "restart")
           ELSE /\ UNCHANGED data
                /\ proc' = [proc EXCEPT ![g].at = "put", ![g].obj = Archive(p.unit, p.stamp)]
        /\ UNCHANGED faults
     \/ Fault(g) /\ helpers' \in {helpers, helpers \ {Helper(g)}} /\ UNCHANGED data
  /\ UNCHANGED <<alive, stopped, inFlight, table, ctr, store, idleBounds, excused>>

Put(g) ==
  LET o == proc[g].obj IN
  /\ proc[g].at = "put"
  /\ \/ /\ ~proc[g].late
        /\ bucket' = {b \in bucket : <<b.unit, b.stamp>> # <<o.unit, o.stamp>>} \cup {o}
        /\ put' = [put EXCEPT ![o.unit] = @ \cup {o.stamp}]
        /\ Goto(g, "prune")
        /\ UNCHANGED faults
     \/ Fault(g) /\ UNCHANGED store
  /\ UNCHANGED <<alive, stopped, inFlight, table, docker, idleBounds, excused>>

Newer(O, o) == {b \in O : b.stamp > o.stamp}
\* Mutant of own: whatever the recursive listing of the directory shows.
ownAndOthers(u) == bucket
own(u) == {o \in bucket : o.unit = u}
\* The directory is listed recursively: only the unit's own archives count, the
\* oldest go first, and a failure stops the loop.
prune(g) ==
  LET O == own(proc[g].obj.unit)
      excess == {o \in O : Retention > 0 /\ Cardinality(Newer(O, o)) >= Retention}
  IN
  /\ proc[g].at = "prune"
  /\ \/ /\ ~proc[g].late
        /\ bucket' = bucket \ excess
        /\ Goto(g, IF proc[g].left = {} THEN "record" ELSE "drop")
        /\ UNCHANGED faults
     \/ /\ Fault(g)
        /\ \E o \in O : bucket' = bucket \ (excess \ (Newer(O, o) \cup {o}))
  /\ UNCHANGED <<alive, stopped, inFlight, table, docker, put, idleBounds, excused>>

-----------------------------------------------------------------------------
(* A restore.                                                              *)

\* Mutant of ToStop: the volume is replaced under whatever runs.
NothingRuns(s) == {}
ToStop(s) == IF s \in AppSched THEN Up ELSE {}

\* A database schedule passes any key; an app's key must name a volume.  The
\* containers to stop are listed here, before the download.
restore(g) ==
  LET p == proc[g]
      possible == TargetExists(p.s) /\ (p.s \in AppSched => p.unit \in Volume)
  IN
  /\ At(g, "restore", "execute")
  /\ \/ /\ ~p.late /\ possible
        /\ proc' = [proc EXCEPT ![g].at = "download",
                                ![g].quiesce = ToStop(p.s)]
        /\ UNCHANGED faults
     \/ ~p.late /\ ~possible /\ Failed(g) /\ UNCHANGED faults
     \/ Fault(g)
  /\ UNCHANGED <<still, idleBounds>>

\* The object may have been pruned since the page listed it.
download(g) ==
  LET p == proc[g]
      there == {o \in bucket : o.unit = p.obj.unit /\ o.stamp = p.obj.stamp}
  IN
  /\ At(g, "restore", "download")
  /\ \/ /\ ~p.late
        /\ \/ \E o \in there :
                proc' = [proc EXCEPT ![g].obj = o,
                           ![g].at = IF p.s \in DbSched THEN "exec" ELSE "validate"]
           \/ there = {} /\ Failed(g)
        /\ UNCHANGED faults
     \/ Fault(g)
  /\ UNCHANGED <<still, idleBounds>>

\* The whole archive is read before anything of the app is touched.
validateTarGz(g) ==
  /\ At(g, "restore", "validate")
  /\ IF proc[g].obj.content = Bad THEN Failed(g) ELSE Goto(g, "drop")
  /\ UNCHANGED <<still, bounds>>

\* Mutant of Noted: only what was reported as stopped is started again.
NotedOnSuccess(p, c) == p.stopped
Noted(p, c) == p.stopped \cup {c}

\* A container is listed before it is stopped: a stop reported as failed may
\* have happened.
StopContainer(g) ==
  LET p == proc[g] IN
  /\ At(g, "restore", "stop")
  /\ \/ p.quiesce = {} /\ Goto(g, "untar") /\ UNCHANGED <<ctr, faults>>
     \/ \E c \in p.quiesce :
          \/ /\ ~p.late /\ ctr[c] # "gone"
             /\ ctr' = [ctr EXCEPT ![c] = "down"]
             /\ proc' = [proc EXCEPT ![g].quiesce = @ \ {c}, ![g].stopped = @ \cup {c}]
             /\ UNCHANGED faults
          \/ /\ p.late \/ ctr[c] = "gone" \/ faults < MaxFaults
             /\ faults' = IF p.late \/ ctr[c] = "gone" THEN faults ELSE faults + 1
             /\ ctr' \in {ctr} \cup (IF ctr[c] = "up" THEN {[ctr EXCEPT ![c] = "down"]} ELSE {})
             /\ \E l \in BOOLEAN :
                  proc' = [proc EXCEPT ![g].stopped = Noted(proc[g], c), ![g].at = "restart",
                                       ![g].err = TRUE, ![g].late = @ \/ l]
  /\ UNCHANGED <<alive, stopped, inFlight, table, data, helpers, store, idleBounds, excused>>

\* The restore tool drops objects first; a volume's tar is no dump and is
\* refused before or after that.
restoreDatabase(g) ==
  LET p == proc[g] IN
  /\ At(g, "restore", "exec")
  /\ \/ /\ ~p.late
        /\ data' = [data EXCEPT !["db"] = Part]
        /\ Goto(g, "restoring")
        /\ UNCHANGED faults
     \/ Fault(g) /\ UNCHANGED data
  /\ UNCHANGED <<alive, stopped, inFlight, table, ctr, helpers, store, idleBounds, excused>>

EndRestoreDatabase(g) ==
  LET p == proc[g] IN
  /\ At(g, "restore", "restoring")
  /\ \/ /\ ~p.late /\ p.obj.unit = "db" /\ p.obj.content # Bad
        /\ data' = [data EXCEPT !["db"] = p.obj.content]
        /\ Goto(g, "restart")
        /\ UNCHANGED faults
     \/ /\ ~p.late /\ (p.obj.unit # "db" \/ p.obj.content = Bad)
        /\ Failed(g) /\ UNCHANGED <<data, faults>>
     \/ Fault(g) /\ UNCHANGED data
  /\ UNCHANGED <<alive, stopped, inFlight, table, ctr, helpers, store, idleBounds, excused>>

\* Deferred, under a context that does not end: a refused start is logged.
RestartStopped(g) ==
  /\ At(g, "restore", "restart")
  /\ \/ \E c \in proc[g].stopped :
          /\ proc' = [proc EXCEPT ![g].stopped = @ \ {c}]
          /\ \/ ctr[c] # "gone" /\ ctr' = [ctr EXCEPT ![c] = "up"] /\ UNCHANGED <<excused, faults>>
             \/ ctr[c] = "gone" /\ UNCHANGED <<ctr, excused, faults>>
             \/ /\ faults < MaxFaults /\ faults' = faults + 1
                /\ excused' = excused \cup {c} /\ UNCHANGED ctr
     \/ proc[g].stopped = {} /\ Goto(g, "record") /\ UNCHANGED <<ctr, excused, faults>>
  /\ UNCHANGED <<alive, stopped, inFlight, table, data, helpers, store, idleBounds>>

Finished(p, outcome) ==
  {IF r.id = p.row THEN [r EXCEPT !.status = outcome] ELSE r : r \in rows}

\* The outcome is recorded although the run's context may have ended; the row
\* may be gone.
FinishBackupRun(g) ==
  LET p == proc[g] IN
  /\ p.at = "record"
  /\ rows' = Finished(p, IF p.err THEN "failed" ELSE "ok")
  /\ proc' = [proc EXCEPT ![g] = Idle]
  /\ inFlight' = inFlight \ {p.s}
  /\ UNCHANGED <<alive, stopped, sched, nextRow, docker, store, bounds, excused>>

Step(g) ==
  \/ StartBackupRun(g) \/ execute(g) \/ backupDatabase(g) \/ dropStaleHelper(g)
  \/ CreateHelper(g) \/ EndHelper(g) \/ Put(g) \/ prune(g)
  \/ restore(g) \/ download(g) \/ validateTarGz(g) \/ StopContainer(g)
  \/ restoreDatabase(g) \/ EndRestoreDatabase(g) \/ RestartStopped(g) \/ FinishBackupRun(g)

-----------------------------------------------------------------------------
(* The process and the world around it.                                    *)

\* Stop cancels the context of every run and waits for them.
Stop ==
  /\ alive /\ ~stopped /\ faults < MaxFaults
  /\ stopped' = TRUE /\ faults' = faults + 1
  /\ proc' = [g \in Proc |-> IF g \in Active THEN [proc[g] EXCEPT !.late = TRUE] ELSE proc[g]]
  /\ UNCHANGED <<alive, inFlight, table, docker, store, idleBounds, excused>>

\* The process ends: after Stop, when the runs are done or 20 seconds are over,
\* or at any time.
Exit ==
  /\ alive
  /\ stopped \/ faults < MaxFaults
  /\ alive' = FALSE /\ faults' = IF stopped THEN faults ELSE faults + 1
  /\ excused' = excused \cup UNION {proc[g].stopped : g \in Proc}
  /\ proc' = [g \in Proc |-> Idle] /\ inFlight' = {}
  /\ UNCHANGED <<stopped, table, docker, store, idleBounds>>

\* At boot RecoverInterrupted fails the rows nothing will finish, before any run.
RecoverInterrupted ==
  /\ ~alive
  /\ alive' = TRUE /\ stopped' = FALSE
  /\ rows' = {IF r.status = "running" THEN [r EXCEPT !.status = "failed"] ELSE r : r \in rows}
  /\ UNCHANGED <<inFlight, proc, sched, nextRow, docker, store, bounds, excused>>

\* The operator starts and stops the app and the database.
OperatorSets ==
  /\ Overlap \/ Restoring = {}
  /\ \E c \in Ctr :
       \/ Overlap /\ ctr[c] = "up" /\ ctr' = [ctr EXCEPT ![c] = "down"] /\ excused' = excused \cup {c}
       \/ ctr[c] = "down" /\ ctr' = [ctr EXCEPT ![c] = "up"] /\ excused' = excused \ {c}
  /\ UNCHANGED <<goroutines, table, data, helpers, store, bounds>>

Write ==
  /\ writes < MaxWrites
  /\ writes' = writes + 1
  /\ \E u \in Unit :
       /\ data[u] # Part /\ (u \in Volume => Up # {})
       /\ data' = [data EXCEPT ![u] = writes + 1]
  /\ UNCHANGED <<goroutines, table, ctr, helpers, store, clock, faults, excused>>

\* An archive is damaged in the bucket.
Rot ==
  /\ faults < MaxFaults /\ faults' = faults + 1
  /\ \E o \in bucket : o.content # Bad /\ bucket' = (bucket \ {o}) \cup {[o EXCEPT !.content = Bad]}
  /\ UNCHANGED <<goroutines, table, docker, put, idleBounds, excused>>

Next ==
  \/ \E s \in Sched : \/ handleCreateBackup(s) \/ handleDeleteBackup(s)
                      \/ Tick(s) \/ handleRestoreBackup(s)
  \/ deleteBackupsForTarget
  \/ \E g \in Proc : Step(g)
  \/ Stop \/ Exit \/ RecoverInterrupted
  \/ OperatorSets \/ Write \/ Rot

BackupSpec == Init /\ [][Next]_vars

-----------------------------------------------------------------------------

BackupTypeOK ==
  /\ {alive, stopped} \subseteq BOOLEAN
  /\ sched \in [Sched -> {"none", "there", "gone"}]
  /\ inFlight \subseteq Sched
  /\ \A r \in rows : r.id \in 1..(nextRow - 1) /\ r.status \in {"running", "ok", "failed"}
  /\ \A o \in bucket : o.unit \in Unit /\ o.stamp \in 1..clock /\ o.content \in Content
  /\ data \in [Unit -> Content \cup {Part}]
  /\ ctr \in [Ctr -> {"up", "down", "gone"}]

\* Retention keeps the newest archives of every volume and of the database, which
\* share a directory: no prune, retried, cut short or run by the other schedule,
\* deletes one that counts (backup/manager.go prune).
KeepsNewest ==
  \A u \in Unit : \A t \in put[u] :
    Cardinality({x \in put[u] : x > t}) < Retention => \E o \in bucket : o.unit = u /\ o.stamp = t

\* A volume restore that is going to be recorded as done leaves in the volume exactly
\* what the archive holds: no container of the app ran while the helper wrote
\* (restoreVolume).  And a volume is only emptied for an archive that has been read to
\* its end, so that a damaged one never costs the data (validateTarGz).
RestoredExactly ==
  [][/\ \A g \in Proc :
          proc[g].at = "untarring" /\ proc'[g].at = "restart" /\ ~proc'[g].err
            => data'[proc[g].unit] = proc[g].obj.content
     /\ \A v \in Volume : data[v] # Part /\ data'[v] = Part =>
          \E g \in Proc : proc[g].unit = v /\ proc[g].obj.content # Bad]_vars

\* A container a restore stopped comes back, however the restore ends, unless
\* Outhaul dies, Docker refuses the start or the operator stopped it.
AppComesBack ==
  \A c \in Ctr : ctr[c] = "down" => c \in excused \/ \E g \in Proc : c \in proc[g].stopped

\* When a run creates its helper container the name is free, though earlier runs
\* may have been killed with theirs (dropStaleHelper, the per-schedule guard).
HelperNameFree ==
  \A g \in Proc : proc[g].at \in {"tar", "untar"} => Helper(g) \notin helpers

\* A row that says running belongs to a run that is still going, and will
\* record its end, or to a process that is down, and will be failed at boot:
\* updates wait for these rows (CountRunningBackupRuns).
RunningRowIsRun ==
  \A r \in rows : r.status = "running" => ~alive \/ \E g \in Proc : proc[g].row = r.id

\* What the bucket, the helpers and the run rows keep, at every step of a backup and a
\* restore (backup/manager.go, backup/restore.go).
BackupInv == BackupTypeOK /\ KeepsNewest /\ HelperNameFree /\ RunningRowIsRun

=============================================================================

---------------------------- MODULE BackupProofs ----------------------------
(***************************************************************************)
(* Backups and restores, for any number of schedules, volumes, containers, *)
(* goroutines and archives, and any Retention and HistoryCap: the newest   *)
(* archives stay, a helper's name is free when it is needed, a running row *)
(* has its run, what a restore stopped comes back, and a volume gets what  *)
(* its archive holds.  And what the parser of a schedule's expression      *)
(* accepts (internal/cron).                                                *)
(***************************************************************************)
EXTENDS Backup, Sequences, FiniteSetTheorems, FunctionTheorems, TLAPS

C == INSTANCE Cron

Places == {"end", "start", "execute", "dump", "drop", "tar", "tarring", "put", "prune", "download",
  "validate", "stop", "untar", "untarring", "exec", "restoring", "restart", "record"}
BackupPlaces == {"dump", "tar", "tarring", "put", "prune"}
RestorePlaces == {"download", "validate", "stop", "untar", "untarring", "exec", "restoring",
  "restart"}
Obj == [unit : Unit, stamp : Nat, content : Content]
Run == [kind : {"idle", "backup", "restore"}, at : Places, s : Sched \cup {"none"}, row : Nat,
        left : SUBSET Unit, unit : Unit, stamp : Nat, obj : Obj, quiesce : SUBSET Ctr,
        stopped : SUBSET Ctr, err : BOOLEAN, late : BOOLEAN]
Row == [id : Nat \ {0}, s : Sched, kind : {"idle", "backup", "restore"},
        status : {"running", "ok", "failed"}]

\* Where a run is tells what it is and what it holds; F are the schedules in flight, n
\* is the next row and c the clock.
RunOK(p, F, n, c) ==
  /\ p.kind = "idle" => p = Idle
  /\ p.kind # "idle" => p.at # "end" /\ p.s \in F
  /\ p.at \in BackupPlaces => p.kind = "backup"
  /\ p.at \in RestorePlaces => p.kind = "restore"
  /\ p.at = "start" => p.row = 0
  /\ p.stopped # {} => p.at \in {"stop", "untar", "untarring", "restart"}
  /\ p.row < n
  /\ p.stamp <= c /\ p.obj.stamp <= c
  /\ p.at \in BackupPlaces \/ (p.at = "drop" /\ p.kind = "backup") => p.stamp > 0
  /\ p.at = "put" => p.obj.stamp > 0

\* One run per schedule, the guard of launch.
OnePerSchedule ==
  \A g, h \in Proc :
    proc[g].kind # "idle" /\ proc[h].kind # "idle" /\ proc[g].s = proc[h].s => g = h

RunInv ==
  /\ proc \in [Proc -> Run] /\ inFlight \subseteq Sched
  /\ nextRow \in Nat \ {0} /\ clock \in Nat \ {0}
  /\ \A g \in Proc : RunOK(proc[g], inFlight, nextRow, clock)
  /\ OnePerSchedule

RowInv ==
  /\ sched \in [Sched -> {"none", "there", "gone"}]
  /\ rows \subseteq Row /\ \A r \in rows : r.id < nextRow
  /\ RunningRowIsRun

\* Each unit has one archive under a stamp, and was given it once.
StoreInv ==
  /\ bucket \subseteq Obj /\ put \in [Unit -> SUBSET (1..clock)]
  /\ \A o \in bucket : o.stamp \in put[o.unit]
  /\ \A o, b \in bucket : o.unit = b.unit /\ o.stamp = b.stamp => o = b
  /\ KeepsNewest

\* The name stays free from the drop to the creation, over the stopping of the app.
HelperInv == \A g \in Proc : proc[g].at \in {"tar", "stop", "untar"} => Helper(g) \notin helpers

CtrInv ==
  /\ ctr \in [Ctr -> {"up", "down", "gone"}]
  /\ AppComesBack

\* One restore of the app at a time, and nobody else starts its containers.
Alone == ~Overlap /\ \A s, t \in AppSched : s = t

\* The run is about to replace a volume, or does.
Replaces(p) ==
  p.at \in {"stop", "untar", "untarring"} \/ (p.at = "drop" /\ p.kind = "restore")

\* An archive has been read before the volume is touched, and what runs of the app is
\* still on the list of what to stop; U is what runs.
QuietRun(p, U) ==
  /\ p.quiesce # {} \/ p.stopped # {} => p.s \in AppSched
  /\ p.at = "validate" \/ Replaces(p) => p.s \in AppSched
  /\ Replaces(p) => p.obj.content # Bad
  /\ p.at \in {"untar", "untarring"} => p.quiesce = {}
  /\ Alone /\ p.s \in AppSched /\ (p.at \in {"download", "validate"} \/ Replaces(p)) =>
       U \subseteq p.quiesce

QuietInv == \A g \in Proc : QuietRun(proc[g], Up)

RestInv ==
  /\ {alive, stopped} \subseteq BOOLEAN
  /\ data \in [Unit -> Content \cup {Part}]
  /\ writes \in Nat

BackupIInv == RunInv /\ RowInv /\ StoreInv /\ HelperInv /\ CtrInv /\ QuietInv /\ RestInv

-----------------------------------------------------------------------------
(* What a run writes.                                                      *)

\* The units, and the run that is none.
LEMMA IdleRun ==
  /\ "db" \in Unit /\ "db" \notin Volume /\ Idle \in Run /\ NoObj \in Obj /\ "end" \in Places
  /\ Idle.kind = "idle" /\ Idle.at = "end" /\ Idle.row = 0 /\ Idle.stopped = {}
  /\ Idle.quiesce = {} /\ Idle.stamp = 0 /\ Idle.obj.stamp = 0
<1>1. "db" \in Unit /\ "db" \notin Volume /\ "end" \in Places
  BY BackupAssumption DEF Unit, Places
<1>2. NoObj \in Obj
  BY <1>1, BackupAssumption DEF NoObj, Obj, Content, Bad
<1>3. Idle.kind = "idle" /\ Idle.at = "end" /\ Idle.row = 0 /\ Idle.stopped = {}
      /\ Idle.quiesce = {} /\ Idle.stamp = 0 /\ Idle.obj = NoObj
  BY DEF Idle
<1>4. NoObj.stamp = 0
  BY DEF NoObj
<1>5. Idle \in Run
  BY <1>1, <1>2 DEF Idle, Run
<1> QED
  BY <1>1, <1>2, <1>3, <1>4, <1>5

\* Later rows, a later clock and more schedules in flight take nothing from a run.
LEMMA RunLater ==
  ASSUME NEW p \in Run, NEW F, NEW n \in Nat, NEW c \in Nat, NEW G, NEW m \in Nat, NEW d \in Nat,
         RunOK(p, F, n, c), p.kind # "idle" => p.s \in G, n <= m, c <= d
  PROVE  RunOK(p, G, m, d)
<1>1. p.row \in Nat /\ p.stamp \in Nat /\ p.obj.stamp \in Nat
  BY DEF Run, Obj
<1>2. p.row < m /\ p.stamp <= d /\ p.obj.stamp <= d
  BY <1>1 DEF RunOK, BackupPlaces
<1> QED
  BY <1>2 DEF RunOK, BackupPlaces

\* What the invariant says of one run.
LEMMA RunFacts ==
  ASSUME RunInv, NEW g \in Proc
  PROVE  /\ proc[g] \in Run /\ RunOK(proc[g], inFlight, nextRow, clock)
         /\ proc[g].at # "end" => proc[g].kind # "idle"
         /\ proc[g].kind # "idle" => proc[g].s \in inFlight /\ proc[g].s \in Sched
         /\ proc[g].row \in Nat /\ proc[g].stamp \in Nat /\ proc[g].unit \in Unit
         /\ proc[g].obj \in Obj /\ proc[g].stopped \in SUBSET Ctr /\ proc[g].quiesce \in SUBSET Ctr
         /\ proc[g].late \in BOOLEAN /\ proc[g].left \in SUBSET Unit
<1>1. proc[g] \in Run /\ RunOK(proc[g], inFlight, nextRow, clock)
  BY DEF RunInv
<1>2. proc[g].at # "end" => proc[g].kind # "idle"
  BY <1>1, IdleRun DEF RunOK, BackupPlaces
<1>3. proc[g].kind # "idle" => proc[g].s \in inFlight /\ proc[g].s \in Sched
  BY <1>1 DEF RunOK, RunInv
<1> QED
  BY <1>1, <1>2, <1>3 DEF Run

\* A step of a run that goes on: it stays with its schedule and its row, and the rest
\* of what it does leaves the archives, the containers and the helpers in order.
LEMMA RunMoves ==
  ASSUME BackupIInv, NEW g \in Proc, proc[g].kind # "idle",
         NEW q \in Run, proc' = [proc EXCEPT ![g] = q],
         q.kind = proc[g].kind, q.s = proc[g].s, q.row = proc[g].row,
         UNCHANGED <<alive, stopped, inFlight, sched, rows, nextRow, writes>>,
         clock' \in Nat, clock <= clock',
         RunOK(q, inFlight, nextRow, clock'),
         StoreInv', CtrInv', RestInv',
         q.at \in {"tar", "stop", "untar"} => Helper(g)' \notin helpers',
         helpers' \subseteq helpers \cup {Helper(g)},
         QuietRun(q, Up'), q.s \in AppSched \/ ctr' = ctr
  PROVE  BackupIInv'
<1>1. proc' \in [Proc -> Run] /\ proc'[g] = q /\ \A h \in Proc \ {g} : proc'[h] = proc[h]
  BY DEF BackupIInv, RunInv
<1>2. RunInv'
  <2>1. ASSUME NEW h \in Proc PROVE RunOK(proc'[h], inFlight, nextRow, clock')
    <3>1. CASE h = g
      BY <3>1, <1>1
    <3>2. CASE h # g
      BY <3>2, <1>1, RunFacts, RunLater DEF BackupIInv, RunInv
    <3> QED
      BY <3>1, <3>2
  <2>2. OnePerSchedule'
    <3>1. \A h \in Proc : proc'[h].kind = proc[h].kind /\ proc'[h].s = proc[h].s
      BY <1>1
    <3> QED
      BY <3>1 DEF BackupIInv, RunInv, OnePerSchedule
  <2> QED
    BY <1>1, <2>1, <2>2 DEF BackupIInv, RunInv
<1>3. RowInv'
  <2>1. \A h \in Proc : proc'[h].row = proc[h].row
    BY <1>1
  <2> QED
    BY <2>1 DEF BackupIInv, RowInv, RunningRowIsRun
<1>4. HelperInv'
  <2> SUFFICES ASSUME NEW h \in Proc, proc'[h].at \in {"tar", "stop", "untar"}
               PROVE  Helper(h)' \notin helpers'
    BY DEF HelperInv
  <2>1. CASE h = g
    BY <2>1, <1>1
  <2>2. CASE h # g
    <3>1. proc'[h] = proc[h]
      BY <2>2, <1>1
    <3>2. Helper(h)' = Helper(h) /\ Helper(h) \notin helpers
      BY <3>1 DEF Helper, BackupIInv, HelperInv
    <3>3. proc[h].kind # "idle"
      BY <3>1, RunFacts DEF BackupIInv
    <3>4. proc[h].s # proc[g].s
      BY <2>2, <3>3 DEF BackupIInv, RunInv, OnePerSchedule
    <3>5. Helper(h) # Helper(g)
      BY <3>4 DEF Helper
    <3> QED
      BY <3>2, <3>5
  <2> QED
    BY <2>1, <2>2
<1>5. QuietInv'
  <2> SUFFICES ASSUME NEW h \in Proc PROVE QuietRun(proc'[h], Up')
    BY DEF QuietInv
  <2>1. CASE h = g
    BY <2>1, <1>1
  <2>2. CASE h # g /\ ctr' = ctr
    <3>1. Up' = Up
      BY <2>2 DEF Up
    <3> QED
      BY <2>2, <3>1, <1>1 DEF BackupIInv, QuietInv
  <2>3. CASE h # g /\ q.s \in AppSched
    <3>1. proc'[h] = proc[h] /\ QuietRun(proc[h], Up)
      BY <2>3, <1>1 DEF BackupIInv, QuietInv
    <3>2. ~(Alone /\ proc[h].s \in AppSched /\ proc[h].kind # "idle")
      BY <2>3 DEF Alone, BackupIInv, RunInv, OnePerSchedule
    <3>3. proc[h].at # "end" => proc[h].kind # "idle"
      BY RunFacts DEF BackupIInv
    <3> QED
      BY <3>1, <3>2, <3>3 DEF QuietRun, Replaces
  <2> QED
    BY <2>1, <2>2, <2>3
<1> QED
  BY <1>2, <1>3, <1>4, <1>5 DEF BackupIInv

\* Archives stay in order when only time passes.
LEMMA StoreLater ==
  ASSUME StoreInv, UNCHANGED <<bucket, put>>, clock \in Nat, clock' \in Nat, clock <= clock'
  PROVE  StoreInv'
<1>1. 1..clock \subseteq 1..clock'
  OBVIOUS
<1>2. put' \in [Unit -> SUBSET (1..clock')]
  BY <1>1 DEF StoreInv
<1>3. KeepsNewest'
  BY DEF StoreInv, KeepsNewest
<1> QED
  BY <1>2, <1>3 DEF StoreInv

\* A run that goes on and starts or stops no container.
LEMMA RunGoesOn ==
  ASSUME BackupIInv, NEW g \in Proc, proc[g].kind # "idle",
         NEW q \in Run, proc' = [proc EXCEPT ![g] = q],
         q.kind = proc[g].kind, q.s = proc[g].s, q.row = proc[g].row,
         q.stopped = proc[g].stopped, UNCHANGED <<ctr, excused>>,
         UNCHANGED <<alive, stopped, inFlight, sched, rows, nextRow, writes>>,
         clock' \in Nat, clock <= clock',
         RunOK(q, inFlight, nextRow, clock'),
         StoreInv', RestInv',
         q.at \in {"tar", "stop", "untar"} => Helper(g)' \notin helpers',
         helpers' \subseteq helpers \cup {Helper(g)},
         QuietRun(q, Up)
  PROVE  BackupIInv'
<1>1. \A h \in Proc : proc'[h].stopped = proc[h].stopped
  BY DEF BackupIInv, RunInv
<1>2. CtrInv'
  BY <1>1 DEF BackupIInv, CtrInv, AppComesBack
<1>3. Up' = Up
  BY DEF Up
<1> QED
  BY <1>2, <1>3, RunMoves

\* The run as a failure leaves it.
LEMMA RunFails ==
  ASSUME BackupIInv, NEW g \in Proc, proc[g].kind # "idle", NEW q, NEW l \in BOOLEAN,
         \/ q = [proc[g] EXCEPT !.at = FailAt(proc[g].kind), !.err = TRUE]
         \/ q = [proc[g] EXCEPT !.at = FailAt(proc[g].kind), !.err = TRUE, !.late = l]
  PROVE  /\ q \in Run /\ q.at \in {"restart", "record"}
         /\ q.kind = proc[g].kind /\ q.s = proc[g].s /\ q.row = proc[g].row
         /\ q.stopped = proc[g].stopped
         /\ RunOK(q, inFlight, nextRow, clock) /\ QuietRun(q, Up)
<1>0. PICK p : p = proc[g]
  OBVIOUS
<1>1. p \in Run /\ RunOK(p, inFlight, nextRow, clock) /\ QuietRun(p, Up)
  BY <1>0, RunFacts DEF BackupIInv, QuietInv
<1>2. /\ FailAt(p.kind) \in {"restart", "record"}
      /\ FailAt(p.kind) = "restart" <=> p.kind = "restore"
  BY DEF FailAt
<1>3. FailAt(p.kind) \in Places
  BY <1>2 DEF Places
<1>4. q \in Run
  <2>1. CASE q = [p EXCEPT !.at = FailAt(p.kind), !.err = TRUE]
    BY <1>1, <1>3, <2>1 DEF Run
  <2>2. CASE q = [p EXCEPT !.at = FailAt(p.kind), !.err = TRUE, !.late = l]
    BY <1>1, <1>3, <2>2 DEF Run
  <2> QED
    BY <1>0, <2>1, <2>2
<1>5. /\ q.at = FailAt(p.kind) /\ q.kind = p.kind /\ q.s = p.s /\ q.row = p.row
      /\ q.stopped = p.stopped /\ q.stamp = p.stamp /\ q.obj = p.obj /\ q.quiesce = p.quiesce
  BY <1>0, <1>1 DEF Run
<1>6. RunOK(q, inFlight, nextRow, clock)
  BY <1>0, <1>1, <1>2, <1>5 DEF RunOK, BackupPlaces, RestorePlaces
<1>7. QuietRun(q, Up)
  BY <1>1, <1>2, <1>5 DEF QuietRun, Replaces
<1> QED
  BY <1>0, <1>2, <1>4, <1>5, <1>6, <1>7

\* A failure keeps everything, whatever it leaves in the bucket and of its helper.
LEMMA FailureKeeps ==
  ASSUME BackupIInv, NEW g \in Proc, proc[g].kind # "idle", Failed(g) \/ Fault(g),
         UNCHANGED <<ctr, excused, alive, stopped, inFlight, sched, rows, nextRow, writes>>,
         clock' = clock, StoreInv', UNCHANGED data, helpers' \subseteq helpers
  PROVE  BackupIInv'
<1>1. PICK q : \E l \in BOOLEAN :
        /\ proc' = [proc EXCEPT ![g] = q]
        /\ \/ q = [proc[g] EXCEPT !.at = FailAt(proc[g].kind), !.err = TRUE]
           \/ q = [proc[g] EXCEPT !.at = FailAt(proc[g].kind), !.err = TRUE, !.late = l]
  <2>0. proc \in [Proc -> Run]
    BY DEF BackupIInv, RunInv
  <2>1. CASE Failed(g)
    <3>1. PICK q : q = [proc[g] EXCEPT !.at = FailAt(proc[g].kind), !.err = TRUE]
      OBVIOUS
    <3>2. proc' = [proc EXCEPT ![g] = q]
      BY <2>0, <2>1, <3>1 DEF Failed
    <3>3. FALSE \in BOOLEAN
      OBVIOUS
    <3> QED
      BY <3>1, <3>2, <3>3, Zenon
  <2>2. CASE ~Failed(g)
    <3>1. PICK l \in BOOLEAN :
            proc' = [proc EXCEPT ![g].at = FailAt(proc[g].kind), ![g].err = TRUE, ![g].late = l]
      BY <2>2 DEF Fault
    <3>2. PICK q : q = [proc[g] EXCEPT !.at = FailAt(proc[g].kind), !.err = TRUE, !.late = l]
      OBVIOUS
    <3>3. proc' = [proc EXCEPT ![g] = q]
      BY <2>0, <3>1, <3>2
    <3> QED
      BY <3>2, <3>3, Zenon
  <2> QED
    BY <2>1, <2>2
<1>2. /\ q \in Run /\ q.at \in {"restart", "record"}
      /\ q.kind = proc[g].kind /\ q.s = proc[g].s /\ q.row = proc[g].row
      /\ q.stopped = proc[g].stopped
      /\ RunOK(q, inFlight, nextRow, clock) /\ QuietRun(q, Up)
  BY <1>1, RunFails
<1>3. clock' \in Nat /\ clock <= clock'
  BY DEF BackupIInv, RunInv
<1>4. RestInv'
  BY DEF BackupIInv, RestInv
<1> QED
  BY <1>1, <1>2, <1>3, <1>4, RunGoesOn

\* What is packed is an archive of the unit.
LEMMA ArchiveIsObject ==
  ASSUME RestInv, NEW u \in Unit, NEW stamp \in Nat
  PROVE  Archive(u, stamp) \in Obj /\ Archive(u, stamp).stamp = stamp
<1>1. data[u] \in Content \cup {Part}
  BY DEF RestInv
<1>2. Bad \in Content
  BY BackupAssumption DEF Content, Bad
<1>3. (IF data[u] = Part THEN Bad ELSE data[u]) \in Content
  BY <1>1, <1>2
<1> QED
  BY <1>3 DEF Archive, Obj

-----------------------------------------------------------------------------
(* The steps of a backup.                                                  *)

LEMMA ExecuteKeeps ==
  ASSUME BackupIInv, NEW g \in Proc, execute(g)
  PROVE  BackupIInv'
<1>0. PICK p : p = proc[g]
  OBVIOUS
<1>1. /\ p \in Run /\ RunOK(p, inFlight, nextRow, clock) /\ QuietRun(p, Up)
      /\ p.kind = "backup" /\ p.at = "execute"
  BY <1>0, RunFacts DEF BackupIInv, QuietInv, execute, At
<1>2. UNCHANGED <<alive, stopped, inFlight, sched, rows, nextRow, writes, ctr, excused, data,
                  helpers, bucket, put>>
  BY DEF execute, still, table, docker, store
<1>3. clock \in Nat \ {0} /\ nextRow \in Nat
  BY DEF BackupIInv, RunInv
<1>4. RestInv'
  BY <1>2 DEF BackupIInv, RestInv
<1>5. CASE (Failed(g) \/ Fault(g)) /\ clock' = clock
  BY <1>0, <1>1, <1>2, <1>3, <1>5, StoreLater, FailureKeeps DEF BackupIInv
<1>6. CASE ~((Failed(g) \/ Fault(g)) /\ clock' = clock)
  <2>1. /\ Stamp
        /\ proc' = [proc EXCEPT ![g].at = IF p.s \in DbSched THEN "dump" ELSE "drop",
                                ![g].left = Units(p.s), ![g].stamp = clock']
    BY <1>0, <1>6 DEF execute
  <2>2. PICK at \in {"dump", "drop"} : at = IF p.s \in DbSched THEN "dump" ELSE "drop"
    OBVIOUS
  <2>3. clock' \in Nat /\ clock <= clock' /\ clock' > 0
    BY <2>1, <1>3 DEF Stamp
  <2>4. Units(p.s) \in SUBSET Unit /\ at \in Places
    BY DEF Units, Unit, Places
  <2>5. PICK q : q = [p EXCEPT !.at = at, !.left = Units(p.s), !.stamp = clock']
    OBVIOUS
  <2>6. proc' = [proc EXCEPT ![g] = q]
    BY <2>1, <2>2, <2>5, <1>0 DEF BackupIInv, RunInv
  <2>7. q \in Run
    BY <1>1, <2>3, <2>4, <2>5 DEF Run
  <2>8. /\ q.at = at /\ q.stamp = clock' /\ q.kind = p.kind /\ q.s = p.s /\ q.row = p.row
        /\ q.stopped = p.stopped /\ q.obj = p.obj /\ q.quiesce = p.quiesce
    BY <1>1, <2>5 DEF Run
  <2>9. RunOK(q, inFlight, nextRow, clock')
    <3>1. p.obj.stamp \in Nat /\ p.obj.stamp <= clock
      BY <1>1 DEF RunOK, Run, Obj
    <3>2. q.obj.stamp <= clock' /\ q.stamp <= clock'
      BY <2>3, <2>8, <1>3, <3>1
    <3> QED
      BY <1>1, <2>2, <2>3, <2>8, <3>2 DEF RunOK, BackupPlaces, RestorePlaces
  <2>10. QuietRun(q, Up)
    BY <1>1, <2>2, <2>8 DEF QuietRun, Replaces
  <2>11. StoreInv'
    BY <1>2, <1>3, <2>3, StoreLater DEF BackupIInv
  <2>12. q.at \notin {"tar", "stop", "untar"}
    BY <2>2, <2>8
  <2> QED
    BY <1>0, <1>1, <1>2, <1>4, <2>3, <2>6, <2>7, <2>8, <2>9, <2>10, <2>11, <2>12, RunGoesOn
<1> QED
  BY <1>5, <1>6

LEMMA BackupDatabaseKeeps ==
  ASSUME BackupIInv, NEW g \in Proc, backupDatabase(g)
  PROVE  BackupIInv'
<1>0. PICK p : p = proc[g]
  OBVIOUS
<1>1. /\ p \in Run /\ RunOK(p, inFlight, nextRow, clock) /\ QuietRun(p, Up)
      /\ p.kind = "backup" /\ p.at = "dump"
  BY <1>0, RunFacts DEF BackupIInv, QuietInv, backupDatabase, At
<1>2. UNCHANGED <<alive, stopped, inFlight, sched, rows, nextRow, writes, ctr, excused, data,
                  helpers, bucket, put, clock>>
  BY DEF backupDatabase, still, table, docker, store, idleBounds
<1>3. clock \in Nat \ {0} /\ clock' \in Nat /\ clock <= clock'
  BY <1>2 DEF BackupIInv, RunInv
<1>4. RestInv' /\ StoreInv'
  BY <1>2, <1>3, StoreLater DEF BackupIInv, RestInv
<1>5. CASE Fault(g)
  BY <1>0, <1>1, <1>2, <1>4, <1>5, FailureKeeps
<1>6. CASE ~Fault(g)
  <2>1. PICK o : o = Archive("db", p.stamp)
    OBVIOUS
  <2>2. o \in Obj /\ o.stamp = p.stamp
    BY <2>1, <1>1, ArchiveIsObject, IdleRun DEF BackupIInv, Run
  <2>3. PICK q : q = [p EXCEPT !.at = "put", !.left = {}, !.obj = o]
    OBVIOUS
  <2>4. proc' = [proc EXCEPT ![g] = q]
    BY <1>0, <1>6, <2>1, <2>3 DEF BackupIInv, RunInv, backupDatabase
  <2>5. q \in Run
    BY <1>1, <2>2, <2>3 DEF Run, Places
  <2>6. /\ q.at = "put" /\ q.stamp = p.stamp /\ q.kind = p.kind /\ q.s = p.s /\ q.row = p.row
        /\ q.stopped = p.stopped /\ q.obj = o /\ q.quiesce = p.quiesce
    BY <1>1, <2>3 DEF Run
  <2>7. RunOK(q, inFlight, nextRow, clock')
    BY <1>1, <1>2, <2>2, <2>6 DEF RunOK, BackupPlaces, RestorePlaces
  <2>8. QuietRun(q, Up)
    BY <1>1, <2>6 DEF QuietRun, Replaces
  <2>9. q.at \notin {"tar", "stop", "untar"} /\ helpers' \subseteq helpers \cup {Helper(g)}
    BY <1>2, <2>6
  <2> QED
    BY <1>0, <1>1, <1>2, <1>3, <1>4, <2>4, <2>5, <2>6, <2>7, <2>8, <2>9, RunGoesOn
<1> QED
  BY <1>5, <1>6

LEMMA DropStaleHelperKeeps ==
  ASSUME BackupIInv, NEW g \in Proc, dropStaleHelper(g)
  PROVE  BackupIInv'
<1>0. PICK p : p = proc[g]
  OBVIOUS
<1>1. /\ p \in Run /\ RunOK(p, inFlight, nextRow, clock) /\ QuietRun(p, Up)
      /\ p.kind # "idle" /\ p.at = "drop"
  BY <1>0, RunFacts DEF BackupIInv, QuietInv, dropStaleHelper
<1>2. UNCHANGED <<alive, stopped, inFlight, sched, rows, nextRow, writes, ctr, excused, data,
                  bucket, put, clock>>
  BY DEF dropStaleHelper, table, store, idleBounds
<1>3. clock \in Nat \ {0} /\ clock' \in Nat /\ clock <= clock'
  BY <1>2 DEF BackupIInv, RunInv
<1>4. RestInv' /\ StoreInv'
  BY <1>2, <1>3, StoreLater DEF BackupIInv, RestInv
<1>5. CASE Fault(g) /\ helpers' = helpers
  BY <1>0, <1>1, <1>2, <1>4, <1>5, FailureKeeps
<1>6. CASE ~(Fault(g) /\ helpers' = helpers)
  <2>1. PICK u \in IF p.kind = "backup" THEN p.left ELSE {p.unit} :
          /\ proc' = [proc EXCEPT ![g].unit = u, ![g].left = @ \ {u},
                       ![g].at = IF p.kind = "backup" THEN "tar" ELSE "stop"]
          /\ helpers' = helpers \ Stale(<<p.kind, p.s, IF p.kind = "backup" THEN u ELSE "dst">>)
    BY <1>0, <1>6 DEF dropStaleHelper
  <2>2. u \in Unit
    BY <1>1, <2>1 DEF Run
  <2>3. PICK at \in {"tar", "stop"} : at = IF p.kind = "backup" THEN "tar" ELSE "stop"
    OBVIOUS
  <2>4. PICK q : q = [p EXCEPT !.unit = u, !.left = @ \ {u}, !.at = at]
    OBVIOUS
  <2>5. proc' = [proc EXCEPT ![g] = q]
    BY <1>0, <2>1, <2>3, <2>4 DEF BackupIInv, RunInv
  <2>6. q \in Run
    BY <1>1, <2>2, <2>3, <2>4 DEF Run, Places
  <2>7. /\ q.at = at /\ q.stamp = p.stamp /\ q.kind = p.kind /\ q.s = p.s /\ q.row = p.row
        /\ q.unit = u /\ q.stopped = p.stopped /\ q.obj = p.obj /\ q.quiesce = p.quiesce
    BY <1>1, <2>4 DEF Run
  <2>8. RunOK(q, inFlight, nextRow, clock')
    BY <1>1, <1>2, <2>3, <2>7 DEF RunOK, Run, BackupPlaces, RestorePlaces
  <2>9. QuietRun(q, Up)
    BY <1>1, <2>3, <2>7 DEF QuietRun, Replaces, Run
  <2>10. proc'[g] = q
    BY <2>5 DEF BackupIInv, RunInv
  <2>11. Helper(g)' = <<p.kind, p.s, IF p.kind = "backup" THEN u ELSE "dst">>
    BY <2>7, <2>10 DEF Helper
  <2>12. Helper(g)' \notin helpers' /\ helpers' \subseteq helpers \cup {Helper(g)}
    BY <2>1, <2>11 DEF Stale
  <2> QED
    BY <1>0, <1>1, <1>2, <1>3, <1>4, <2>5, <2>6, <2>7, <2>8, <2>9, <2>12, RunGoesOn
<1> QED
  BY <1>5, <1>6

LEMMA CreateHelperKeeps ==
  ASSUME BackupIInv, NEW g \in Proc, CreateHelper(g)
  PROVE  BackupIInv'
<1>0. PICK p : p = proc[g]
  OBVIOUS
<1>1. /\ p \in Run /\ RunOK(p, inFlight, nextRow, clock) /\ QuietRun(p, Up)
      /\ p.kind # "idle" /\ p.at \in {"tar", "untar"}
  BY <1>0, RunFacts DEF BackupIInv, QuietInv, CreateHelper
<1>2. UNCHANGED <<alive, stopped, inFlight, sched, rows, nextRow, writes, ctr, excused, bucket,
                  put, clock>>
  BY DEF CreateHelper, table, store, idleBounds
<1>3. clock \in Nat \ {0} /\ clock' \in Nat /\ clock <= clock'
  BY <1>2 DEF BackupIInv, RunInv
<1>4. StoreInv'
  BY <1>2, <1>3, StoreLater DEF BackupIInv
<1>5. CASE (Failed(g) \/ Fault(g)) /\ helpers' = helpers /\ data' = data
  BY <1>0, <1>1, <1>2, <1>4, <1>5, FailureKeeps
<1>6. CASE ~((Failed(g) \/ Fault(g)) /\ helpers' = helpers /\ data' = data)
  <2>1. /\ helpers' = helpers \cup {Helper(g)}
        /\ data' = IF p.at = "untar" THEN [data EXCEPT ![p.unit] = Part] ELSE data
        /\ Goto(g, IF p.at = "untar" THEN "untarring" ELSE "tarring")
    BY <1>0, <1>6 DEF CreateHelper
  <2>2. PICK at \in {"tarring", "untarring"} :
          at = IF p.at = "untar" THEN "untarring" ELSE "tarring"
    OBVIOUS
  <2>3. PICK q : q = [p EXCEPT !.at = at]
    OBVIOUS
  <2>4. proc' = [proc EXCEPT ![g] = q]
    BY <1>0, <2>1, <2>2, <2>3 DEF BackupIInv, RunInv, Goto
  <2>5. q \in Run
    BY <1>1, <2>2, <2>3 DEF Run, Places
  <2>6. /\ q.at = at /\ q.stamp = p.stamp /\ q.kind = p.kind /\ q.s = p.s /\ q.row = p.row
        /\ q.stopped = p.stopped /\ q.obj = p.obj /\ q.quiesce = p.quiesce
    BY <1>1, <2>3 DEF Run
  <2>7. RunOK(q, inFlight, nextRow, clock')
    BY <1>1, <1>2, <2>2, <2>6 DEF RunOK, BackupPlaces, RestorePlaces
  <2>8. QuietRun(q, Up)
    BY <1>1, <2>2, <2>6 DEF QuietRun, Replaces
  <2>9. q.at \notin {"tar", "stop", "untar"} /\ helpers' \subseteq helpers \cup {Helper(g)}
    BY <2>1, <2>2, <2>6
  <2>10. RestInv'
    BY <1>1, <1>2, <2>1 DEF BackupIInv, RestInv, Run
  <2> QED
    BY <1>0, <1>1, <1>2, <1>3, <1>4, <2>4, <2>5, <2>6, <2>7, <2>8, <2>9, <2>10, RunGoesOn
<1> QED
  BY <1>5, <1>6

\* What a helper leaves in a volume.
LEMMA UntarredIsData ==
  ASSUME NEW o \in Obj
  PROVE  Untarred(o) \in Content \cup {Part}
BY DEF Untarred, Obj

LEMMA EndHelperKeeps ==
  ASSUME BackupIInv, NEW g \in Proc, EndHelper(g)
  PROVE  BackupIInv'
<1>0. PICK p : p = proc[g]
  OBVIOUS
<1>1. /\ p \in Run /\ RunOK(p, inFlight, nextRow, clock) /\ QuietRun(p, Up)
      /\ p.kind # "idle" /\ p.at \in {"tarring", "untarring"}
  BY <1>0, RunFacts DEF BackupIInv, QuietInv, EndHelper
<1>2. /\ UNCHANGED <<alive, stopped, inFlight, sched, rows, nextRow, writes, ctr, excused,
                     bucket, put, clock>>
      /\ helpers' \subseteq helpers
  BY DEF EndHelper, table, store, idleBounds
<1>3. clock \in Nat \ {0} /\ clock' \in Nat /\ clock <= clock'
  BY <1>2 DEF BackupIInv, RunInv
<1>4. StoreInv'
  BY <1>2, <1>3, StoreLater DEF BackupIInv
<1>5. p.unit \in Unit /\ p.obj \in Obj /\ p.stamp \in Nat
  BY <1>1 DEF Run
<1>6. CASE Fault(g) /\ data' = data
  BY <1>0, <1>1, <1>2, <1>4, <1>6, FailureKeeps
<1>7. CASE ~(Fault(g) /\ data' = data) /\ p.at = "untarring"
  <2>1. p.obj.content # Bad
    BY <1>1, <1>7 DEF QuietRun, Replaces
  <2>2. Goto(g, "restart") /\ data' = [data EXCEPT ![p.unit] = Untarred(p.obj)]
    BY <1>0, <1>7, <2>1 DEF EndHelper
  <2>3. PICK q : q = [p EXCEPT !.at = "restart"]
    OBVIOUS
  <2>4. proc' = [proc EXCEPT ![g] = q]
    BY <1>0, <2>2, <2>3 DEF BackupIInv, RunInv, Goto
  <2>5. q \in Run
    BY <1>1, <2>3 DEF Run, Places
  <2>6. /\ q.at = "restart" /\ q.stamp = p.stamp /\ q.kind = p.kind /\ q.s = p.s
        /\ q.row = p.row /\ q.stopped = p.stopped /\ q.obj = p.obj /\ q.quiesce = p.quiesce
    BY <1>1, <2>3 DEF Run
  <2>7. RunOK(q, inFlight, nextRow, clock')
    BY <1>1, <1>2, <1>7, <2>6 DEF RunOK, BackupPlaces, RestorePlaces
  <2>8. QuietRun(q, Up)
    BY <1>1, <2>6 DEF QuietRun, Replaces
  <2>9. q.at \notin {"tar", "stop", "untar"} /\ helpers' \subseteq helpers \cup {Helper(g)}
    BY <1>2, <2>6
  <2>10. RestInv'
    <3>1. Untarred(p.obj) \in Content \cup {Part}
      BY <1>5, UntarredIsData
    <3> QED
      BY <1>2, <1>5, <2>2, <3>1 DEF BackupIInv, RestInv
  <2> QED
    BY <1>0, <1>1, <1>2, <1>3, <1>4, <2>4, <2>5, <2>6, <2>7, <2>8, <2>9, <2>10, RunGoesOn
<1>8. CASE ~(Fault(g) /\ data' = data) /\ p.at = "tarring"
  <2>1. /\ data' = data
        /\ proc' = [proc EXCEPT ![g].at = "put", ![g].obj = Archive(p.unit, p.stamp)]
    BY <1>0, <1>8 DEF EndHelper
  <2>2. PICK o : o = Archive(p.unit, p.stamp)
    OBVIOUS
  <2>3. o \in Obj /\ o.stamp = p.stamp
    BY <1>5, <2>2, ArchiveIsObject DEF BackupIInv
  <2>4. PICK q : q = [p EXCEPT !.at = "put", !.obj = o]
    OBVIOUS
  <2>5. proc' = [proc EXCEPT ![g] = q]
    BY <1>0, <2>1, <2>2, <2>4 DEF BackupIInv, RunInv
  <2>6. q \in Run
    BY <1>1, <2>3, <2>4 DEF Run, Places
  <2>7. /\ q.at = "put" /\ q.stamp = p.stamp /\ q.kind = p.kind /\ q.s = p.s
        /\ q.row = p.row /\ q.stopped = p.stopped /\ q.obj = o /\ q.quiesce = p.quiesce
    BY <1>1, <2>4 DEF Run
  <2>8. RunOK(q, inFlight, nextRow, clock')
    BY <1>1, <1>2, <1>8, <2>3, <2>7 DEF RunOK, BackupPlaces, RestorePlaces
  <2>9. QuietRun(q, Up)
    BY <1>1, <2>7 DEF QuietRun, Replaces
  <2>10. q.at \notin {"tar", "stop", "untar"} /\ helpers' \subseteq helpers \cup {Helper(g)}
    BY <1>2, <2>7
  <2>11. RestInv'
    BY <1>2, <2>1 DEF BackupIInv, RestInv
  <2> QED
    BY <1>0, <1>1, <1>2, <1>3, <1>4, <2>5, <2>6, <2>7, <2>8, <2>9, <2>10, <2>11, RunGoesOn
<1> QED
  BY <1>1, <1>6, <1>7, <1>8

\* A stamp put again, or a new one, leaves the newest archives where they were.
LEMMA PutKeepsNewest ==
  ASSUME StoreInv, clock \in Nat, NEW o \in Obj, o.stamp \in 1..clock, clock' = clock,
         bucket' = {b \in bucket : <<b.unit, b.stamp>> # <<o.unit, o.stamp>>} \cup {o},
         put' = [put EXCEPT ![o.unit] = @ \cup {o.stamp}]
  PROVE  StoreInv'
<1>1. o.unit \in Unit
  BY DEF Obj
<1>2. /\ put' \in [Unit -> SUBSET (1..clock')]
      /\ \A u \in Unit : put[u] \subseteq put'[u]
      /\ put'[o.unit] = put[o.unit] \cup {o.stamp}
      /\ \A u \in Unit : u # o.unit => put'[u] = put[u]
  BY <1>1 DEF StoreInv
<1>3. bucket' \subseteq Obj
  BY DEF StoreInv
<1>4. \A b \in bucket' : b.stamp \in put'[b.unit]
  BY <1>2 DEF StoreInv, Obj
<1>5. \A b, c \in bucket' : b.unit = c.unit /\ b.stamp = c.stamp => b = c
  BY DEF StoreInv
<1>6. KeepsNewest'
  <2> SUFFICES ASSUME NEW u \in Unit, NEW t \in put'[u],
                      Cardinality({x \in put'[u] : x > t}) < Retention
               PROVE  \E b \in bucket' : b.unit = u /\ b.stamp = t
    BY DEF KeepsNewest
  <2>1. CASE u = o.unit /\ t = o.stamp
    BY <2>1
  <2>2. CASE ~(u = o.unit /\ t = o.stamp)
    <3>1. t \in put[u]
      BY <1>2, <2>2
    <3>2. {x \in put'[u] : x > t} \in SUBSET (1..clock)
      BY <1>2
    <3>0. IsFiniteSet(1..clock)
      BY FS_Interval
    <3>3. IsFiniteSet({x \in put'[u] : x > t})
      BY <3>0, <3>2, FS_Subset
    <3>4. {x \in put[u] : x > t} \in SUBSET {x \in put'[u] : x > t}
      BY <1>2
    <3>5. /\ IsFiniteSet({x \in put[u] : x > t})
          /\ Cardinality({x \in put[u] : x > t}) <= Cardinality({x \in put'[u] : x > t})
      BY <3>3, <3>4, FS_Subset
    <3>6. Cardinality({x \in put[u] : x > t}) < Retention
      BY <3>3, <3>5, FS_CardinalityType, BackupAssumption
    <3>7. PICK b \in bucket : b.unit = u /\ b.stamp = t
      BY <3>1, <3>6 DEF StoreInv, KeepsNewest
    <3> QED
      BY <2>2, <3>7
  <2> QED
    BY <2>1, <2>2
<1> QED
  BY <1>2, <1>3, <1>4, <1>5, <1>6 DEF StoreInv

LEMMA PutKeeps ==
  ASSUME BackupIInv, NEW g \in Proc, Put(g)
  PROVE  BackupIInv'
<1>0. PICK p : p = proc[g]
  OBVIOUS
<1>1. /\ p \in Run /\ RunOK(p, inFlight, nextRow, clock) /\ QuietRun(p, Up)
      /\ p.kind = "backup" /\ p.at = "put"
  BY <1>0, RunFacts DEF BackupIInv, QuietInv, Put, RunOK, BackupPlaces
<1>2. UNCHANGED <<alive, stopped, inFlight, sched, rows, nextRow, writes, ctr, excused, data,
                  helpers, clock>>
  BY DEF Put, table, docker, idleBounds
<1>3. clock \in Nat \ {0} /\ clock' \in Nat /\ clock <= clock'
  BY <1>2 DEF BackupIInv, RunInv
<1>4. RestInv'
  BY <1>2 DEF BackupIInv, RestInv
<1>5. CASE Fault(g) /\ UNCHANGED store
  <2>1. StoreInv'
    BY <1>3, <1>5, StoreLater DEF BackupIInv, store
  <2> QED
    BY <1>0, <1>1, <1>2, <1>5, <2>1, FailureKeeps
<1>6. CASE ~(Fault(g) /\ UNCHANGED store)
  <2>1. PICK o : o = p.obj
    OBVIOUS
  <2>2. /\ bucket' = {b \in bucket : <<b.unit, b.stamp>> # <<o.unit, o.stamp>>} \cup {o}
        /\ put' = [put EXCEPT ![o.unit] = @ \cup {o.stamp}]
        /\ Goto(g, "prune")
    BY <1>0, <1>6, <2>1 DEF Put
  <2>3. o \in Obj /\ o.stamp \in 1..clock
    BY <1>1, <1>3, <2>1 DEF RunOK, Run, Obj
  <2>4. StoreInv'
    BY <1>2, <1>3, <2>2, <2>3, PutKeepsNewest DEF BackupIInv
  <2>5. PICK q : q = [p EXCEPT !.at = "prune"]
    OBVIOUS
  <2>6. proc' = [proc EXCEPT ![g] = q]
    BY <1>0, <2>2, <2>5 DEF BackupIInv, RunInv, Goto
  <2>7. q \in Run
    BY <1>1, <2>5 DEF Run, Places
  <2>8. /\ q.at = "prune" /\ q.stamp = p.stamp /\ q.kind = p.kind /\ q.s = p.s
        /\ q.row = p.row /\ q.stopped = p.stopped /\ q.obj = p.obj /\ q.quiesce = p.quiesce
    BY <1>1, <2>5 DEF Run
  <2>9. RunOK(q, inFlight, nextRow, clock')
    BY <1>1, <1>2, <2>8 DEF RunOK, BackupPlaces, RestorePlaces
  <2>10. QuietRun(q, Up)
    BY <1>1, <2>8 DEF QuietRun, Replaces
  <2>11. q.at \notin {"tar", "stop", "untar"} /\ helpers' \subseteq helpers \cup {Helper(g)}
    BY <1>2, <2>8
  <2> QED
    BY <1>0, <1>1, <1>2, <1>3, <1>4, <2>4, <2>6, <2>7, <2>8, <2>9, <2>10, <2>11, RunGoesOn
<1> QED
  BY <1>5, <1>6

\* An archive that counts among the newest has too few newer ones to be in excess: its
\* unit was given each of them, under a stamp of its own.
LEMMA ExcessIsOld ==
  ASSUME StoreInv, clock \in Nat, NEW o \in bucket, NEW u \in Unit, o.unit = u,
         Retention > 0, Cardinality(Newer(own(u), o)) >= Retention
  PROVE  Cardinality({x \in put[u] : x > o.stamp}) >= Retention
<1>1. PICK N : N = Newer(own(u), o)
  OBVIOUS
<1>2. PICK X : X = {x \in put[u] : x > o.stamp}
  OBVIOUS
<1>3. N \subseteq bucket /\ \A b \in N : b.unit = u /\ b.stamp > o.stamp
  BY <1>1 DEF Newer, own
<1>4. IsFiniteSet(X)
  <2>1. X \in SUBSET (1..clock)
    BY <1>2 DEF StoreInv
  <2>2. IsFiniteSet(1..clock)
    BY FS_Interval
  <2> QED
    BY <2>1, <2>2, FS_Subset
<1>5. PICK f : f = [b \in N |-> b.stamp]
  OBVIOUS
<1>6. f \in Injection(N, X)
  <2>1. \A b \in N : b.stamp \in X
    BY <1>2, <1>3 DEF StoreInv
  <2>2. f \in [N -> X]
    BY <1>5, <2>1
  <2>3. \A a, b \in N : f[a] = f[b] => a = b
    BY <1>3, <1>5 DEF StoreInv
  <2> QED
    BY <2>2, <2>3, Fun_IsInj
<1>7. IsFiniteSet(N) /\ Cardinality(N) <= Cardinality(X)
  BY <1>4, <1>6, FS_Injection
<1>8. Cardinality(N) \in Nat /\ Cardinality(X) \in Nat /\ Retention \in Nat
  BY <1>4, <1>7, FS_CardinalityType, BackupAssumption
<1> QED
  BY <1>1, <1>2, <1>7, <1>8

\* A prune that deletes only what is in excess keeps what it should.
LEMMA PruneKeepsNewest ==
  ASSUME StoreInv, clock \in Nat, NEW u \in Unit, UNCHANGED <<clock, put>>,
         bucket' \subseteq bucket,
         \A o \in bucket \ bucket' :
           o.unit = u /\ Retention > 0 /\ Cardinality(Newer(own(u), o)) >= Retention
  PROVE  StoreInv'
<1>1. KeepsNewest'
  <2> SUFFICES ASSUME NEW w \in Unit, NEW t \in put[w],
                      Cardinality({x \in put[w] : x > t}) < Retention
               PROVE  \E o \in bucket' : o.unit = w /\ o.stamp = t
    BY DEF KeepsNewest
  <2>1. PICK o \in bucket : o.unit = w /\ o.stamp = t
    BY DEF StoreInv, KeepsNewest
  <2>2. o \in bucket'
    <3> SUFFICES ASSUME o \notin bucket' PROVE FALSE
      OBVIOUS
    <3>1. PICK X : X = {x \in put[w] : x > t}
      OBVIOUS
    <3>2. Cardinality(X) >= Retention /\ Cardinality(X) < Retention
      BY <2>1, <3>1, ExcessIsOld
    <3>3. X \in SUBSET (1..clock)
      BY <3>1 DEF StoreInv
    <3>4. IsFiniteSet(1..clock)
      BY FS_Interval
    <3>5. IsFiniteSet(X)
      BY <3>3, <3>4, FS_Subset
    <3>6. Cardinality(X) \in Nat
      BY <3>5, FS_CardinalityType
    <3> QED
      BY <3>2, <3>6, BackupAssumption
  <2> QED
    BY <2>1, <2>2
<1> QED
  BY <1>1 DEF StoreInv

LEMMA PruneKeeps ==
  ASSUME BackupIInv, NEW g \in Proc, prune(g)
  PROVE  BackupIInv'
<1>0. PICK p : p = proc[g]
  OBVIOUS
<1>1. /\ p \in Run /\ RunOK(p, inFlight, nextRow, clock) /\ QuietRun(p, Up)
      /\ p.kind = "backup" /\ p.at = "prune"
  BY <1>0, RunFacts DEF BackupIInv, QuietInv, prune, RunOK, BackupPlaces
<1>2. UNCHANGED <<alive, stopped, inFlight, sched, rows, nextRow, writes, ctr, excused, data,
                  helpers, clock, put>>
  BY DEF prune, table, docker, idleBounds
<1>3. clock \in Nat \ {0} /\ clock' \in Nat /\ clock <= clock'
  BY <1>2 DEF BackupIInv, RunInv
<1>4. RestInv'
  BY <1>2 DEF BackupIInv, RestInv
<1>5. PICK u : u = p.obj.unit
  OBVIOUS
<1>6. PICK excess :
        excess = {o \in own(u) : Retention > 0 /\ Cardinality(Newer(own(u), o)) >= Retention}
  OBVIOUS
<1>7. \/ bucket' = bucket \ excess
      \/ \E o \in own(u) : bucket' = bucket \ (excess \ (Newer(own(u), o) \cup {o}))
  BY <1>0, <1>5, <1>6 DEF prune
<1>8. StoreInv'
  <2>1. u \in Unit
    BY <1>1, <1>5 DEF Run, Obj
  <2>2. bucket' \subseteq bucket /\ bucket \ bucket' \subseteq excess
    BY <1>7
  <2>3. \A o \in bucket \ bucket' :
          o.unit = u /\ Retention > 0 /\ Cardinality(Newer(own(u), o)) >= Retention
    BY <1>6, <2>2 DEF own
  <2> QED
    BY <1>2, <1>3, <2>1, <2>2, <2>3, PruneKeepsNewest DEF BackupIInv
<1>9. CASE Fault(g)
  BY <1>0, <1>1, <1>2, <1>8, <1>9, FailureKeeps
<1>10. CASE ~Fault(g)
  <2>1. Goto(g, IF p.left = {} THEN "record" ELSE "drop")
    BY <1>0, <1>10 DEF prune
  <2>2. PICK at \in {"record", "drop"} : at = IF p.left = {} THEN "record" ELSE "drop"
    OBVIOUS
  <2>3. PICK q : q = [p EXCEPT !.at = at]
    OBVIOUS
  <2>4. proc' = [proc EXCEPT ![g] = q]
    BY <1>0, <2>1, <2>2, <2>3 DEF BackupIInv, RunInv, Goto
  <2>5. q \in Run
    BY <1>1, <2>2, <2>3 DEF Run, Places
  <2>6. /\ q.at = at /\ q.stamp = p.stamp /\ q.kind = p.kind /\ q.s = p.s
        /\ q.row = p.row /\ q.stopped = p.stopped /\ q.obj = p.obj /\ q.quiesce = p.quiesce
    BY <1>1, <2>3 DEF Run
  <2>7. RunOK(q, inFlight, nextRow, clock')
    BY <1>1, <1>2, <2>2, <2>6 DEF RunOK, BackupPlaces, RestorePlaces
  <2>8. QuietRun(q, Up)
    BY <1>1, <2>2, <2>6 DEF QuietRun, Replaces
  <2>9. q.at \notin {"tar", "stop", "untar"} /\ helpers' \subseteq helpers \cup {Helper(g)}
    BY <1>2, <2>2, <2>6
  <2> QED
    BY <1>0, <1>1, <1>2, <1>3, <1>4, <1>8, <2>4, <2>5, <2>6, <2>7, <2>8, <2>9, RunGoesOn
<1> QED
  BY <1>9, <1>10

-----------------------------------------------------------------------------
(* The steps of a restore.                                                 *)

LEMMA RestoreKeeps ==
  ASSUME BackupIInv, NEW g \in Proc, restore(g)
  PROVE  BackupIInv'
<1>0. PICK p : p = proc[g]
  OBVIOUS
<1>1. /\ p \in Run /\ RunOK(p, inFlight, nextRow, clock) /\ QuietRun(p, Up)
      /\ p.kind = "restore" /\ p.at = "execute"
  BY <1>0, RunFacts DEF BackupIInv, QuietInv, restore, At
<1>2. UNCHANGED <<alive, stopped, inFlight, sched, rows, nextRow, writes, ctr, excused, data,
                  helpers, bucket, put, clock>>
  BY DEF restore, still, table, docker, store, idleBounds
<1>3. clock \in Nat \ {0} /\ clock' \in Nat /\ clock <= clock'
  BY <1>2 DEF BackupIInv, RunInv
<1>4. RestInv' /\ StoreInv'
  BY <1>2, <1>3, StoreLater DEF BackupIInv, RestInv
<1>5. CASE Failed(g) \/ Fault(g)
  BY <1>0, <1>1, <1>2, <1>4, <1>5, FailureKeeps
<1>6. CASE ~(Failed(g) \/ Fault(g))
  <2>1. proc' = [proc EXCEPT ![g].at = "download", ![g].quiesce = ToStop(p.s)]
    BY <1>0, <1>6 DEF restore
  <2>2. /\ ToStop(p.s) \in SUBSET Ctr /\ (ToStop(p.s) # {} => p.s \in AppSched)
        /\ p.s \in AppSched => ToStop(p.s) = Up
    BY DEF ToStop, Up
  <2>3. PICK q : q = [p EXCEPT !.at = "download", !.quiesce = ToStop(p.s)]
    OBVIOUS
  <2>4. proc' = [proc EXCEPT ![g] = q]
    BY <1>0, <2>1, <2>3 DEF BackupIInv, RunInv
  <2>5. q \in Run
    BY <1>1, <2>2, <2>3 DEF Run, Places
  <2>6. /\ q.at = "download" /\ q.stamp = p.stamp /\ q.kind = p.kind /\ q.s = p.s
        /\ q.row = p.row /\ q.stopped = p.stopped /\ q.obj = p.obj /\ q.quiesce = ToStop(p.s)
    BY <1>1, <2>3 DEF Run
  <2>7. RunOK(q, inFlight, nextRow, clock')
    BY <1>1, <1>2, <2>6 DEF RunOK, BackupPlaces, RestorePlaces
  <2>8. QuietRun(q, Up)
    BY <1>1, <2>2, <2>6 DEF QuietRun, Replaces
  <2>9. q.at \notin {"tar", "stop", "untar"} /\ helpers' \subseteq helpers \cup {Helper(g)}
    BY <1>2, <2>6
  <2> QED
    BY <1>0, <1>1, <1>2, <1>3, <1>4, <2>4, <2>5, <2>6, <2>7, <2>8, <2>9, RunGoesOn
<1> QED
  BY <1>5, <1>6

LEMMA DownloadKeeps ==
  ASSUME BackupIInv, NEW g \in Proc, download(g)
  PROVE  BackupIInv'
<1>0. PICK p : p = proc[g]
  OBVIOUS
<1>1. /\ p \in Run /\ RunOK(p, inFlight, nextRow, clock) /\ QuietRun(p, Up)
      /\ p.kind = "restore" /\ p.at = "download" /\ p.s \in Sched
  BY <1>0, RunFacts DEF BackupIInv, QuietInv, download, At
<1>2. UNCHANGED <<alive, stopped, inFlight, sched, rows, nextRow, writes, ctr, excused, data,
                  helpers, bucket, put, clock>>
  BY DEF download, still, table, docker, store, idleBounds
<1>3. clock \in Nat \ {0} /\ clock' \in Nat /\ clock <= clock'
  BY <1>2 DEF BackupIInv, RunInv
<1>4. RestInv' /\ StoreInv'
  BY <1>2, <1>3, StoreLater DEF BackupIInv, RestInv
<1>5. CASE Failed(g) \/ Fault(g)
  BY <1>0, <1>1, <1>2, <1>4, <1>5, FailureKeeps
<1>6. CASE ~(Failed(g) \/ Fault(g))
  <2>1. PICK o \in bucket :
          proc' = [proc EXCEPT ![g].obj = o,
                     ![g].at = IF p.s \in DbSched THEN "exec" ELSE "validate"]
    BY <1>0, <1>6 DEF download
  <2>2. PICK at \in {"exec", "validate"} : at = IF p.s \in DbSched THEN "exec" ELSE "validate"
    OBVIOUS
  <2>3. at = "validate" => p.s \in AppSched
    BY <1>1, <2>2 DEF Sched
  <2>4. o \in Obj /\ o.stamp \in Nat /\ o.stamp <= clock
    BY <1>3 DEF BackupIInv, StoreInv, Obj
  <2>5. PICK q : q = [p EXCEPT !.obj = o, !.at = at]
    OBVIOUS
  <2>6. proc' = [proc EXCEPT ![g] = q]
    BY <1>0, <2>1, <2>2, <2>5 DEF BackupIInv, RunInv
  <2>7. q \in Run
    BY <1>1, <2>2, <2>4, <2>5 DEF Run, Places
  <2>8. /\ q.at = at /\ q.stamp = p.stamp /\ q.kind = p.kind /\ q.s = p.s
        /\ q.row = p.row /\ q.stopped = p.stopped /\ q.obj = o /\ q.quiesce = p.quiesce
    BY <1>1, <2>5 DEF Run
  <2>9. RunOK(q, inFlight, nextRow, clock')
    BY <1>1, <1>2, <2>2, <2>4, <2>8 DEF RunOK, BackupPlaces, RestorePlaces
  <2>10. QuietRun(q, Up)
    BY <1>1, <2>2, <2>3, <2>8 DEF QuietRun, Replaces
  <2>11. q.at \notin {"tar", "stop", "untar"} /\ helpers' \subseteq helpers \cup {Helper(g)}
    BY <1>2, <2>2, <2>8
  <2> QED
    BY <1>0, <1>1, <1>2, <1>3, <1>4, <2>6, <2>7, <2>8, <2>9, <2>10, <2>11, RunGoesOn
<1> QED
  BY <1>5, <1>6

LEMMA ValidateTarGzKeeps ==
  ASSUME BackupIInv, NEW g \in Proc, validateTarGz(g)
  PROVE  BackupIInv'
<1>0. PICK p : p = proc[g]
  OBVIOUS
<1>1. /\ p \in Run /\ RunOK(p, inFlight, nextRow, clock) /\ QuietRun(p, Up)
      /\ p.kind = "restore" /\ p.at = "validate"
  BY <1>0, RunFacts DEF BackupIInv, QuietInv, validateTarGz, At
<1>2. UNCHANGED <<alive, stopped, inFlight, sched, rows, nextRow, writes, ctr, excused, data,
                  helpers, bucket, put, clock>>
  BY DEF validateTarGz, still, table, docker, store, bounds
<1>3. clock \in Nat \ {0} /\ clock' \in Nat /\ clock <= clock'
  BY <1>2 DEF BackupIInv, RunInv
<1>4. RestInv' /\ StoreInv'
  BY <1>2, <1>3, StoreLater DEF BackupIInv, RestInv
<1>5. CASE Failed(g)
  BY <1>0, <1>1, <1>2, <1>4, <1>5, FailureKeeps
<1>6. CASE ~Failed(g)
  <2>1. p.obj.content # Bad /\ Goto(g, "drop")
    BY <1>0, <1>6 DEF validateTarGz
  <2>2. PICK q : q = [p EXCEPT !.at = "drop"]
    OBVIOUS
  <2>3. proc' = [proc EXCEPT ![g] = q]
    BY <1>0, <2>1, <2>2 DEF BackupIInv, RunInv, Goto
  <2>4. q \in Run
    BY <1>1, <2>2 DEF Run, Places
  <2>5. /\ q.at = "drop" /\ q.stamp = p.stamp /\ q.kind = p.kind /\ q.s = p.s
        /\ q.row = p.row /\ q.stopped = p.stopped /\ q.obj = p.obj /\ q.quiesce = p.quiesce
    BY <1>1, <2>2 DEF Run
  <2>6. RunOK(q, inFlight, nextRow, clock')
    BY <1>1, <1>2, <2>5 DEF RunOK, BackupPlaces, RestorePlaces
  <2>7. QuietRun(q, Up)
    BY <1>1, <2>1, <2>5 DEF QuietRun, Replaces
  <2>8. q.at \notin {"tar", "stop", "untar"} /\ helpers' \subseteq helpers \cup {Helper(g)}
    BY <1>2, <2>5
  <2> QED
    BY <1>0, <1>1, <1>2, <1>3, <1>4, <2>3, <2>4, <2>5, <2>6, <2>7, <2>8, RunGoesOn
<1> QED
  BY <1>5, <1>6

LEMMA RestoreDatabaseKeeps ==
  ASSUME BackupIInv, NEW g \in Proc, restoreDatabase(g)
  PROVE  BackupIInv'
<1>0. PICK p : p = proc[g]
  OBVIOUS
<1>1. /\ p \in Run /\ RunOK(p, inFlight, nextRow, clock) /\ QuietRun(p, Up)
      /\ p.kind = "restore" /\ p.at = "exec"
  BY <1>0, RunFacts DEF BackupIInv, QuietInv, restoreDatabase, At
<1>2. UNCHANGED <<alive, stopped, inFlight, sched, rows, nextRow, writes, ctr, excused,
                  helpers, bucket, put, clock>>
  BY DEF restoreDatabase, table, store, idleBounds
<1>3. clock \in Nat \ {0} /\ clock' \in Nat /\ clock <= clock'
  BY <1>2 DEF BackupIInv, RunInv
<1>4. StoreInv'
  BY <1>2, <1>3, StoreLater DEF BackupIInv
<1>5. CASE Fault(g) /\ data' = data
  BY <1>0, <1>1, <1>2, <1>4, <1>5, FailureKeeps
<1>6. CASE ~(Fault(g) /\ data' = data)
  <2>1. data' = [data EXCEPT !["db"] = Part] /\ Goto(g, "restoring")
    BY <1>0, <1>6 DEF restoreDatabase
  <2>2. PICK q : q = [p EXCEPT !.at = "restoring"]
    OBVIOUS
  <2>3. proc' = [proc EXCEPT ![g] = q]
    BY <1>0, <2>1, <2>2 DEF BackupIInv, RunInv, Goto
  <2>4. q \in Run
    BY <1>1, <2>2 DEF Run, Places
  <2>5. /\ q.at = "restoring" /\ q.stamp = p.stamp /\ q.kind = p.kind /\ q.s = p.s
        /\ q.row = p.row /\ q.stopped = p.stopped /\ q.obj = p.obj /\ q.quiesce = p.quiesce
    BY <1>1, <2>2 DEF Run
  <2>6. RunOK(q, inFlight, nextRow, clock')
    BY <1>1, <1>2, <2>5 DEF RunOK, BackupPlaces, RestorePlaces
  <2>7. QuietRun(q, Up)
    BY <1>1, <2>1, <2>5 DEF QuietRun, Replaces
  <2>8. q.at \notin {"tar", "stop", "untar"} /\ helpers' \subseteq helpers \cup {Helper(g)}
    BY <1>2, <2>5
  <2>9. RestInv'
    BY <1>2, <2>1 DEF BackupIInv, RestInv
  <2> QED
    BY <1>0, <1>1, <1>2, <1>3, <1>4, <2>3, <2>4, <2>5, <2>6, <2>7, <2>8, <2>9, RunGoesOn
<1> QED
  BY <1>5, <1>6

LEMMA EndRestoreDatabaseKeeps ==
  ASSUME BackupIInv, NEW g \in Proc, EndRestoreDatabase(g)
  PROVE  BackupIInv'
<1>0. PICK p : p = proc[g]
  OBVIOUS
<1>1. /\ p \in Run /\ RunOK(p, inFlight, nextRow, clock) /\ QuietRun(p, Up)
      /\ p.kind = "restore" /\ p.at = "restoring"
  BY <1>0, RunFacts DEF BackupIInv, QuietInv, EndRestoreDatabase, At
<1>2. UNCHANGED <<alive, stopped, inFlight, sched, rows, nextRow, writes, ctr, excused,
                  helpers, bucket, put, clock>>
  BY DEF EndRestoreDatabase, table, store, idleBounds
<1>3. clock \in Nat \ {0} /\ clock' \in Nat /\ clock <= clock'
  BY <1>2 DEF BackupIInv, RunInv
<1>4. StoreInv'
  BY <1>2, <1>3, StoreLater DEF BackupIInv
<1>5. CASE (Failed(g) \/ Fault(g)) /\ data' = data
  BY <1>0, <1>1, <1>2, <1>4, <1>5, FailureKeeps
<1>6. CASE ~((Failed(g) \/ Fault(g)) /\ data' = data)
  <2>1. data' = [data EXCEPT !["db"] = p.obj.content] /\ Goto(g, "restart")
    BY <1>0, <1>6 DEF EndRestoreDatabase
  <2>2. PICK q : q = [p EXCEPT !.at = "restart"]
    OBVIOUS
  <2>3. proc' = [proc EXCEPT ![g] = q]
    BY <1>0, <2>1, <2>2 DEF BackupIInv, RunInv, Goto
  <2>4. q \in Run
    BY <1>1, <2>2 DEF Run, Places
  <2>5. /\ q.at = "restart" /\ q.stamp = p.stamp /\ q.kind = p.kind /\ q.s = p.s
        /\ q.row = p.row /\ q.stopped = p.stopped /\ q.obj = p.obj /\ q.quiesce = p.quiesce
    BY <1>1, <2>2 DEF Run
  <2>6. RunOK(q, inFlight, nextRow, clock')
    BY <1>1, <1>2, <2>5 DEF RunOK, BackupPlaces, RestorePlaces
  <2>7. QuietRun(q, Up)
    BY <1>1, <2>1, <2>5 DEF QuietRun, Replaces
  <2>8. q.at \notin {"tar", "stop", "untar"} /\ helpers' \subseteq helpers \cup {Helper(g)}
    BY <1>2, <2>5
  <2>9. RestInv'
    <3>1. p.obj.content \in Content
      BY <1>1 DEF Run, Obj
    <3> QED
      BY <1>2, <2>1, <3>1 DEF BackupIInv, RestInv
  <2> QED
    BY <1>0, <1>1, <1>2, <1>3, <1>4, <2>3, <2>4, <2>5, <2>6, <2>7, <2>8, <2>9, RunGoesOn
<1> QED
  BY <1>5, <1>6

LEMMA StopContainerKeeps ==
  ASSUME BackupIInv, NEW g \in Proc, StopContainer(g)
  PROVE  BackupIInv'
<1>0. PICK p : p = proc[g]
  OBVIOUS
<1>1. /\ p \in Run /\ RunOK(p, inFlight, nextRow, clock) /\ QuietRun(p, Up)
      /\ p.kind = "restore" /\ p.at = "stop" /\ p.s \in AppSched
  BY <1>0, RunFacts DEF BackupIInv, QuietInv, StopContainer, At, QuietRun, Replaces
<1>2. UNCHANGED <<alive, stopped, inFlight, sched, rows, nextRow, writes, excused, data,
                  helpers, bucket, put, clock>>
  BY DEF StopContainer, table, store, idleBounds
<1>3. clock \in Nat \ {0} /\ clock' \in Nat /\ clock <= clock'
  BY <1>2 DEF BackupIInv, RunInv
<1>4. RestInv' /\ StoreInv'
  BY <1>2, <1>3, StoreLater DEF BackupIInv, RestInv
<1>5. Helper(g) \notin helpers
  BY <1>0, <1>1 DEF BackupIInv, HelperInv
<1>6. proc \in [Proc -> Run] /\ ctr \in [Ctr -> {"up", "down", "gone"}]
  BY DEF BackupIInv, RunInv, CtrInv
<1>7. CASE p.quiesce = {} /\ Goto(g, "untar") /\ ctr' = ctr
  <2>1. PICK q : q = [p EXCEPT !.at = "untar"]
    OBVIOUS
  <2>2. proc' = [proc EXCEPT ![g] = q]
    BY <1>0, <1>6, <1>7, <2>1 DEF Goto
  <2>3. q \in Run
    BY <1>1, <2>1 DEF Run, Places
  <2>4. /\ q.at = "untar" /\ q.stamp = p.stamp /\ q.kind = p.kind /\ q.s = p.s
        /\ q.row = p.row /\ q.stopped = p.stopped /\ q.obj = p.obj /\ q.quiesce = p.quiesce
    BY <1>1, <2>1 DEF Run
  <2>5. RunOK(q, inFlight, nextRow, clock')
    BY <1>1, <1>2, <2>4 DEF RunOK, BackupPlaces, RestorePlaces
  <2>6. QuietRun(q, Up)
    BY <1>1, <1>7, <2>4 DEF QuietRun, Replaces
  <2>7. Helper(g)' \notin helpers' /\ helpers' \subseteq helpers \cup {Helper(g)}
    <3>1. proc'[g] = q
      BY <1>6, <2>2
    <3>2. Helper(g)' = Helper(g)
      BY <1>0, <1>1, <2>4, <3>1 DEF Helper
    <3> QED
      BY <1>2, <1>5, <3>2
  <2> QED
    BY <1>0, <1>1, <1>2, <1>3, <1>4, <1>7, <2>2, <2>3, <2>4, <2>5, <2>6, <2>7, RunGoesOn
<1>8. ASSUME NEW c \in p.quiesce, ctr' = [ctr EXCEPT ![c] = "down"],
             proc' = [proc EXCEPT ![g].quiesce = @ \ {c}, ![g].stopped = @ \cup {c}]
      PROVE  BackupIInv'
  <2>1. PICK q : q = [p EXCEPT !.quiesce = @ \ {c}, !.stopped = @ \cup {c}]
    OBVIOUS
  <2>2. proc' = [proc EXCEPT ![g] = q]
    BY <1>0, <1>6, <1>8, <2>1
  <2>3. c \in Ctr
    BY <1>1 DEF Run
  <2>4. q \in Run
    BY <1>1, <2>1, <2>3 DEF Run
  <2>5. /\ q.at = "stop" /\ q.stamp = p.stamp /\ q.kind = p.kind /\ q.s = p.s
        /\ q.row = p.row /\ q.stopped = p.stopped \cup {c} /\ q.obj = p.obj
        /\ q.quiesce = p.quiesce \ {c}
    BY <1>1, <2>1 DEF Run
  <2>6. RunOK(q, inFlight, nextRow, clock')
    BY <1>1, <1>2, <2>5 DEF RunOK, BackupPlaces, RestorePlaces
  <2>7. Up' = Up \ {c}
    BY <1>6, <1>8 DEF Up
  <2>8. QuietRun(q, Up')
    BY <1>1, <2>5, <2>7 DEF QuietRun, Replaces
  <2>9. proc'[g] = q /\ \A h \in Proc \ {g} : proc'[h] = proc[h]
    BY <1>6, <2>2
  <2>10. Helper(g)' \notin helpers' /\ helpers' \subseteq helpers \cup {Helper(g)}
    <3>1. Helper(g)' = Helper(g)
      BY <1>0, <1>1, <2>5, <2>9 DEF Helper
    <3> QED
      BY <1>2, <1>5, <3>1
  <2>11. CtrInv'
    <3>1. \A d \in Ctr : d # c => ctr'[d] = ctr[d]
      BY <1>6, <1>8
    <3>2. \A h \in Proc : proc[h].stopped \subseteq proc'[h].stopped
      BY <1>0, <2>5, <2>9
    <3>3. c \in proc'[g].stopped
      BY <2>5, <2>9
    <3>4. ctr' \in [Ctr -> {"up", "down", "gone"}]
      BY <1>6, <1>8, <2>3
    <3>5. AppComesBack'
      BY <1>2, <3>1, <3>2, <3>3 DEF BackupIInv, CtrInv, AppComesBack
    <3> QED
      BY <3>4, <3>5 DEF CtrInv
  <2> QED
    BY <1>0, <1>1, <1>2, <1>3, <1>4, <2>2, <2>4, <2>5, <2>6, <2>8, <2>10, <2>11, RunMoves
<1>9. ASSUME NEW c \in p.quiesce, NEW l \in BOOLEAN,
             ctr' = ctr \/ ctr' = [ctr EXCEPT ![c] = "down"],
             proc' = [proc EXCEPT ![g].stopped = Noted(p, c), ![g].at = "restart",
                                  ![g].err = TRUE, ![g].late = @ \/ l]
      PROVE  BackupIInv'
  <2>1. PICK q : q = [p EXCEPT !.stopped = Noted(p, c), !.at = "restart", !.err = TRUE,
                               !.late = @ \/ l]
    OBVIOUS
  <2>2. proc' = [proc EXCEPT ![g] = q]
    BY <1>0, <1>6, <1>9, <2>1
  <2>3. c \in Ctr
    BY <1>1 DEF Run
  <2>4. q \in Run
    <3>1. Noted(p, c) \in SUBSET Ctr /\ (p.late \/ l) \in BOOLEAN /\ "restart" \in Places
      BY <1>1, <2>3 DEF Run, Noted, Places
    <3>2. PICK ds, m : ds = Noted(p, c) /\ m = (p.late \/ l)
      OBVIOUS
    <3>3. q = [p EXCEPT !.stopped = ds, !.at = "restart", !.err = TRUE, !.late = m]
      BY <1>1, <2>1, <3>2 DEF Run
    <3> QED
      BY <1>1, <3>1, <3>2, <3>3 DEF Run
  <2>5. /\ q.at = "restart" /\ q.stamp = p.stamp /\ q.kind = p.kind /\ q.s = p.s
        /\ q.row = p.row /\ q.stopped = p.stopped \cup {c} /\ q.obj = p.obj
        /\ q.quiesce = p.quiesce
    BY <1>1, <2>1 DEF Run, Noted
  <2>6. RunOK(q, inFlight, nextRow, clock')
    BY <1>1, <1>2, <2>5 DEF RunOK, BackupPlaces, RestorePlaces
  <2>8. QuietRun(q, Up')
    BY <1>1, <2>5 DEF QuietRun, Replaces
  <2>9. proc'[g] = q /\ \A h \in Proc \ {g} : proc'[h] = proc[h]
    BY <1>6, <2>2
  <2>10. q.at \notin {"tar", "stop", "untar"} /\ helpers' \subseteq helpers \cup {Helper(g)}
    BY <1>2, <2>5
  <2>11. CtrInv'
    <3>1. \A d \in Ctr : d # c => ctr'[d] = ctr[d]
      BY <1>6, <1>9
    <3>2. \A h \in Proc : proc[h].stopped \subseteq proc'[h].stopped
      BY <1>0, <2>5, <2>9
    <3>3. c \in proc'[g].stopped
      BY <2>5, <2>9
    <3>4. ctr' \in [Ctr -> {"up", "down", "gone"}]
      BY <1>6, <1>9, <2>3
    <3>5. AppComesBack'
      BY <1>2, <3>1, <3>2, <3>3 DEF BackupIInv, CtrInv, AppComesBack
    <3> QED
      BY <3>4, <3>5 DEF CtrInv
  <2> QED
    BY <1>0, <1>1, <1>2, <1>3, <1>4, <2>2, <2>4, <2>5, <2>6, <2>8, <2>10, <2>11, RunMoves
<1> QED
  BY <1>0, <1>7, <1>8, <1>9 DEF StopContainer

LEMMA RestartStoppedKeeps ==
  ASSUME BackupIInv, NEW g \in Proc, RestartStopped(g)
  PROVE  BackupIInv'
<1>0. PICK p : p = proc[g]
  OBVIOUS
<1>1. /\ p \in Run /\ RunOK(p, inFlight, nextRow, clock) /\ QuietRun(p, Up)
      /\ p.kind = "restore" /\ p.at = "restart"
  BY <1>0, RunFacts DEF BackupIInv, QuietInv, RestartStopped, At
<1>2. UNCHANGED <<alive, stopped, inFlight, sched, rows, nextRow, writes, data, helpers,
                  bucket, put, clock>>
  BY DEF RestartStopped, table, store, idleBounds
<1>3. clock \in Nat \ {0} /\ clock' \in Nat /\ clock <= clock'
  BY <1>2 DEF BackupIInv, RunInv
<1>4. RestInv' /\ StoreInv'
  BY <1>2, <1>3, StoreLater DEF BackupIInv, RestInv
<1>5. proc \in [Proc -> Run] /\ ctr \in [Ctr -> {"up", "down", "gone"}]
  BY DEF BackupIInv, RunInv, CtrInv
<1>6. CASE p.stopped = {} /\ Goto(g, "record") /\ UNCHANGED <<ctr, excused>>
  <2>1. PICK q : q = [p EXCEPT !.at = "record"]
    OBVIOUS
  <2>2. proc' = [proc EXCEPT ![g] = q]
    BY <1>0, <1>5, <1>6, <2>1 DEF Goto
  <2>3. q \in Run
    BY <1>1, <2>1 DEF Run, Places
  <2>4. /\ q.at = "record" /\ q.stamp = p.stamp /\ q.kind = p.kind /\ q.s = p.s
        /\ q.row = p.row /\ q.stopped = p.stopped /\ q.obj = p.obj /\ q.quiesce = p.quiesce
    BY <1>1, <2>1 DEF Run
  <2>5. RunOK(q, inFlight, nextRow, clock')
    BY <1>1, <1>2, <1>6, <2>4 DEF RunOK, BackupPlaces, RestorePlaces
  <2>6. QuietRun(q, Up)
    BY <1>1, <2>4 DEF QuietRun, Replaces
  <2>7. q.at \notin {"tar", "stop", "untar"} /\ helpers' \subseteq helpers \cup {Helper(g)}
    BY <1>2, <2>4
  <2> QED
    BY <1>0, <1>1, <1>2, <1>3, <1>4, <1>6, <2>2, <2>3, <2>4, <2>5, <2>6, <2>7, RunGoesOn
<1>7. ASSUME NEW c \in p.stopped, proc' = [proc EXCEPT ![g].stopped = @ \ {c}],
             \/ ctr' = [ctr EXCEPT ![c] = "up"] /\ excused' = excused
             \/ ctr[c] = "gone" /\ UNCHANGED <<ctr, excused>>
             \/ excused' = excused \cup {c} /\ ctr' = ctr
      PROVE  BackupIInv'
  <2>1. PICK q : q = [p EXCEPT !.stopped = @ \ {c}]
    OBVIOUS
  <2>2. proc' = [proc EXCEPT ![g] = q]
    BY <1>0, <1>5, <1>7, <2>1
  <2>3. c \in Ctr /\ p.s \in AppSched
    BY <1>1, <1>7 DEF Run, QuietRun
  <2>4. q \in Run
    BY <1>1, <2>1 DEF Run
  <2>5. /\ q.at = "restart" /\ q.stamp = p.stamp /\ q.kind = p.kind /\ q.s = p.s
        /\ q.row = p.row /\ q.stopped = p.stopped \ {c} /\ q.obj = p.obj
        /\ q.quiesce = p.quiesce
    BY <1>1, <2>1 DEF Run
  <2>6. RunOK(q, inFlight, nextRow, clock')
    BY <1>1, <1>2, <2>5 DEF RunOK, BackupPlaces, RestorePlaces
  <2>7. QuietRun(q, Up')
    BY <1>1, <2>3, <2>5 DEF QuietRun, Replaces
  <2>8. proc'[g] = q /\ \A h \in Proc \ {g} : proc'[h] = proc[h]
    BY <1>5, <2>2
  <2>9. q.at \notin {"tar", "stop", "untar"} /\ helpers' \subseteq helpers \cup {Helper(g)}
    BY <1>2, <2>5
  <2>10. CtrInv'
    <3>1. \A d \in Ctr : d # c => ctr'[d] = ctr[d]
      BY <1>5, <1>7
    <3>2. \A h \in Proc : proc[h].stopped \ {c} \subseteq proc'[h].stopped
      BY <1>0, <2>5, <2>8
    <3>3. ctr'[c] = "down" => c \in excused'
      BY <1>5, <1>7, <2>3
    <3>4. ctr' \in [Ctr -> {"up", "down", "gone"}] /\ excused \subseteq excused'
      BY <1>5, <1>7, <2>3
    <3>5. AppComesBack'
      BY <3>1, <3>2, <3>3, <3>4 DEF BackupIInv, CtrInv, AppComesBack
    <3> QED
      BY <3>4, <3>5 DEF CtrInv
  <2> QED
    BY <1>0, <1>1, <1>2, <1>3, <1>4, <2>2, <2>3, <2>4, <2>5, <2>6, <2>7, <2>9, <2>10, RunMoves
<1>8. \/ p.stopped = {} /\ Goto(g, "record") /\ UNCHANGED <<ctr, excused>>
      \/ \E c \in p.stopped :
           /\ proc' = [proc EXCEPT ![g].stopped = @ \ {c}]
           /\ \/ ctr' = [ctr EXCEPT ![c] = "up"] /\ excused' = excused
              \/ ctr[c] = "gone" /\ UNCHANGED <<ctr, excused>>
              \/ excused' = excused \cup {c} /\ ctr' = ctr
  BY <1>0 DEF RestartStopped
<1> QED
  BY <1>6, <1>7, <1>8

-----------------------------------------------------------------------------
(* A run begins and ends.                                                  *)

\* A run that ends leaves its schedule, and has started again what it stopped.
LEMMA RunEnds ==
  ASSUME BackupIInv, NEW g \in Proc, proc[g].kind # "idle", proc[g].stopped = {},
         proc' = [proc EXCEPT ![g] = Idle], inFlight' = inFlight \ {proc[g].s},
         UNCHANGED <<alive, stopped, sched, nextRow, ctr, excused, data, helpers, bucket, put,
                     clock, writes>>,
         RowInv'
  PROVE  BackupIInv'
<1>1. /\ proc' \in [Proc -> Run] /\ proc'[g] = Idle
      /\ \A h \in Proc \ {g} : proc'[h] = proc[h]
  BY IdleRun DEF BackupIInv, RunInv
<1>2. clock \in Nat \ {0} /\ nextRow \in Nat \ {0}
  BY DEF BackupIInv, RunInv
<1>3. RunInv'
  <2>1. ASSUME NEW h \in Proc PROVE RunOK(proc'[h], inFlight', nextRow', clock')
    <3>1. CASE h = g
      <4>1. RunOK(Idle, inFlight', nextRow', clock')
        BY <1>2, IdleRun DEF RunOK, BackupPlaces, RestorePlaces
      <4> QED
        BY <3>1, <4>1, <1>1
    <3>2. CASE h # g
      <4>1. proc[h] \in Run /\ RunOK(proc[h], inFlight, nextRow, clock)
        BY RunFacts DEF BackupIInv
      <4>2. proc[h].kind # "idle" => proc[h].s \in inFlight'
        BY <3>2, <4>1 DEF BackupIInv, RunInv, OnePerSchedule, RunOK
      <4>3. RunOK(proc[h], inFlight', nextRow', clock')
        BY <1>2, <4>1, <4>2, RunLater
      <4> QED
        BY <1>1, <3>2, <4>3
    <3> QED
      BY <3>1, <3>2
  <2>2. OnePerSchedule'
    BY <1>1, IdleRun DEF BackupIInv, RunInv, OnePerSchedule
  <2> QED
    BY <1>1, <1>2, <2>1, <2>2 DEF BackupIInv, RunInv
<1>4. StoreInv' /\ RestInv'
  BY <1>2, StoreLater DEF BackupIInv, RestInv
<1>5. HelperInv'
  BY <1>1, IdleRun DEF BackupIInv, HelperInv, Helper
<1>6. CtrInv'
  <2>1. \A h \in Proc : proc'[h].stopped = proc[h].stopped
    BY <1>1, IdleRun
  <2> QED
    BY <2>1 DEF BackupIInv, CtrInv, AppComesBack
<1>7. QuietInv'
  <2>1. Up' = Up
    BY DEF Up
  <2>2. QuietRun(Idle, Up)
    BY IdleRun DEF QuietRun, Replaces
  <2>3. \A h \in Proc : QuietRun(proc'[h], Up)
    BY <1>1, <2>2 DEF BackupIInv, QuietInv
  <2> QED
    BY <2>1, <2>3 DEF QuietInv
<1> QED
  BY <1>3, <1>4, <1>5, <1>6, <1>7 DEF BackupIInv

LEMMA StartBackupRunKeeps ==
  ASSUME BackupIInv, NEW g \in Proc, StartBackupRun(g)
  PROVE  BackupIInv'
<1>0. PICK p : p = proc[g]
  OBVIOUS
<1>1. /\ p \in Run /\ RunOK(p, inFlight, nextRow, clock) /\ QuietRun(p, Up)
      /\ p.kind # "idle" /\ p.at = "start" /\ p.row = 0 /\ p.stopped = {} /\ p.s \in Sched
  BY <1>0, RunFacts DEF BackupIInv, QuietInv, StartBackupRun, RunOK
<1>2. UNCHANGED <<alive, stopped, sched, writes, ctr, excused, data, helpers, bucket, put, clock>>
  BY DEF StartBackupRun, docker, store, bounds
<1>3. clock \in Nat \ {0} /\ nextRow \in Nat \ {0} /\ proc \in [Proc -> Run]
  BY DEF BackupIInv, RunInv
<1>4. RestInv' /\ StoreInv'
  BY <1>2, <1>3, StoreLater DEF BackupIInv, RestInv
<1>5. CASE /\ proc' = [proc EXCEPT ![g] = Idle] /\ inFlight' = inFlight \ {p.s}
           /\ UNCHANGED <<rows, nextRow>>
  <2>1. RowInv'
    <3>1. /\ proc'[g].row = proc[g].row
          /\ \A h \in Proc : proc'[h].row = proc[h].row
      BY <1>0, <1>1, <1>3, <1>5, IdleRun
    <3> QED
      BY <1>2, <1>5, <3>1 DEF BackupIInv, RowInv, RunningRowIsRun
  <2> QED
    BY <1>0, <1>1, <1>2, <1>5, <2>1, RunEnds
<1>6. ASSUME NEW row, row = [id |-> nextRow, s |-> p.s, kind |-> p.kind, status |-> "running"],
             rows' \subseteq rows \cup {row}, nextRow' = nextRow + 1,
             proc' = [proc EXCEPT ![g].at = "execute", ![g].row = nextRow],
             inFlight' = inFlight
      PROVE  BackupIInv'
  <2>1. PICK q : q = [p EXCEPT !.at = "execute", !.row = nextRow]
    OBVIOUS
  <2>2. proc' = [proc EXCEPT ![g] = q]
    BY <1>0, <1>3, <1>6, <2>1
  <2>3. q \in Run
    BY <1>1, <1>3, <2>1 DEF Run, Places
  <2>4. /\ q.at = "execute" /\ q.stamp = p.stamp /\ q.kind = p.kind /\ q.s = p.s
        /\ q.row = nextRow /\ q.stopped = p.stopped /\ q.obj = p.obj /\ q.quiesce = p.quiesce
    BY <1>1, <2>1 DEF Run
  <2>5. proc'[g] = q /\ \A h \in Proc \ {g} : proc'[h] = proc[h]
    BY <1>3, <2>2
  <2>6. RunInv'
    <3>1. ASSUME NEW h \in Proc PROVE RunOK(proc'[h], inFlight', nextRow', clock')
      <4>1. CASE h = g
        <5>1. RunOK(q, inFlight', nextRow', clock')
          BY <1>1, <1>2, <1>3, <1>6, <2>4 DEF RunOK, BackupPlaces, RestorePlaces
        <5> QED
          BY <4>1, <5>1, <2>5
      <4>2. CASE h # g
        <5>1. RunOK(proc[h], inFlight', nextRow', clock')
          <6>1. nextRow' \in Nat /\ nextRow <= nextRow' /\ clock' = clock
            BY <1>2, <1>3, <1>6
          <6>2. /\ proc[h] \in Run /\ RunOK(proc[h], inFlight, nextRow, clock)
                /\ proc[h].kind # "idle" => proc[h].s \in inFlight
            BY RunFacts DEF BackupIInv
          <6> QED
            BY <1>3, <1>6, <6>1, <6>2, RunLater
        <5> QED
          BY <4>2, <5>1, <2>5
      <4> QED
        BY <4>1, <4>2
    <3>2. OnePerSchedule'
      <4>1. \A h \in Proc : proc'[h].kind = proc[h].kind /\ proc'[h].s = proc[h].s
        BY <1>0, <2>4, <2>5
      <4> QED
        BY <4>1 DEF BackupIInv, RunInv, OnePerSchedule
    <3>3. proc' \in [Proc -> Run]
      BY <1>3, <2>2, <2>3
    <3> QED
      BY <1>2, <1>3, <1>6, <3>1, <3>2, <3>3 DEF BackupIInv, RunInv
  <2>7. RowInv'
    <3>1. row \in Row /\ row.id = nextRow
      BY <1>1, <1>3, <1>6 DEF Row, Run
    <3>2. rows' \subseteq Row
      BY <1>6, <3>1 DEF BackupIInv, RowInv
    <3>3. \A r \in rows' : r.id < nextRow'
      <4> SUFFICES ASSUME NEW r \in rows' PROVE r.id < nextRow'
        OBVIOUS
      <4>1. r.id \in Nat
        BY <3>2 DEF Row
      <4> QED
        BY <1>3, <1>6, <3>1, <4>1 DEF BackupIInv, RowInv
    <3>4. ASSUME NEW r \in rows', r.status = "running"
          PROVE  ~alive' \/ \E h \in Proc : proc'[h].row = r.id
      <4>1. CASE r = row
        BY <4>1, <3>1, <2>4, <2>5
      <4>2. CASE r # row /\ alive
        <5>1. PICK h \in Proc : proc[h].row = r.id
          BY <4>2, <3>4, <1>6 DEF BackupIInv, RowInv, RunningRowIsRun
        <5>2. r.id # 0
          BY <3>2 DEF Row
        <5> QED
          BY <5>1, <5>2, <1>0, <1>1, <2>5
      <4> QED
        BY <4>1, <4>2, <1>2
    <3>5. RunningRowIsRun'
      BY <3>4 DEF RunningRowIsRun
    <3> QED
      BY <1>2, <3>2, <3>3, <3>5 DEF BackupIInv, RowInv
  <2>8. HelperInv'
    BY <1>2, <2>4, <2>5 DEF BackupIInv, HelperInv, Helper
  <2>9. CtrInv'
    <3>1. \A h \in Proc : proc'[h].stopped = proc[h].stopped
      BY <1>0, <2>4, <2>5
    <3> QED
      BY <1>2, <3>1 DEF BackupIInv, CtrInv, AppComesBack
  <2>10. QuietInv'
    <3>1. Up' = Up
      BY <1>2 DEF Up
    <3>2. QuietRun(q, Up)
      BY <1>1, <2>4 DEF QuietRun, Replaces
    <3>3. \A h \in Proc : QuietRun(proc'[h], Up)
      BY <2>5, <3>2 DEF BackupIInv, QuietInv
    <3> QED
      BY <3>1, <3>3 DEF QuietInv
  <2> QED
    BY <1>4, <2>6, <2>7, <2>8, <2>9, <2>10 DEF BackupIInv
<1>7. CASE ~(proc' = [proc EXCEPT ![g] = Idle] /\ inFlight' = inFlight \ {p.s}
             /\ UNCHANGED <<rows, nextRow>>)
  <2>1. PICK row : row = [id |-> nextRow, s |-> p.s, kind |-> p.kind, status |-> "running"]
    OBVIOUS
  <2>2. /\ rows' \subseteq rows \cup {row} /\ nextRow' = nextRow + 1
        /\ proc' = [proc EXCEPT ![g].at = "execute", ![g].row = nextRow]
        /\ inFlight' = inFlight
    BY <1>0, <1>7, <2>1 DEF StartBackupRun
  <2> QED
    BY <1>6, <2>1, <2>2
<1> QED
  BY <1>5, <1>7

LEMMA FinishBackupRunKeeps ==
  ASSUME BackupIInv, NEW g \in Proc, FinishBackupRun(g)
  PROVE  BackupIInv'
<1>0. PICK p : p = proc[g]
  OBVIOUS
<1>1. /\ p \in Run /\ p.kind # "idle" /\ p.at = "record" /\ p.stopped = {}
  BY <1>0, RunFacts DEF BackupIInv, FinishBackupRun, RunOK
<1>2. /\ UNCHANGED <<alive, stopped, sched, nextRow, writes, ctr, excused, data, helpers,
                     bucket, put, clock>>
      /\ proc' = [proc EXCEPT ![g] = Idle] /\ inFlight' = inFlight \ {p.s}
  BY <1>0 DEF FinishBackupRun, docker, store, bounds
<1>3. PICK outcome \in {"failed", "ok"} :
        rows' = {IF r.id = p.row THEN [r EXCEPT !.status = outcome] ELSE r : r \in rows}
  BY <1>0 DEF FinishBackupRun, Finished
<1>4. RowInv'
  <2>1. \A r \in rows : r \in Row /\ r.id < nextRow
    BY DEF BackupIInv, RowInv
  <2>2. ASSUME NEW e \in rows'
        PROVE  /\ e \in Row /\ e.id < nextRow
               /\ e.status = "running" => e \in rows /\ e.id # p.row
    <3>1. PICK r \in rows : e = IF r.id = p.row THEN [r EXCEPT !.status = outcome] ELSE r
      BY <1>3
    <3>2. CASE r.id # p.row
      BY <3>1, <3>2, <2>1
    <3>3. CASE r.id = p.row
      <4>1. e = [r EXCEPT !.status = outcome]
        BY <3>1, <3>3
      <4>2. e \in Row /\ e.id = r.id /\ e.status = outcome
        BY <4>1, <2>1 DEF Row
      <4> QED
        BY <4>2, <2>1
    <3> QED
      BY <3>2, <3>3
  <2>3. ASSUME NEW e \in rows', e.status = "running", alive
        PROVE  \E h \in Proc : proc'[h].row = e.id
    <3>1. PICK h \in Proc : proc[h].row = e.id
      BY <2>2, <2>3 DEF BackupIInv, RowInv, RunningRowIsRun
    <3>2. h # g
      BY <2>2, <2>3, <3>1, <1>0
    <3>3. proc'[h] = proc[h]
      BY <1>2, <3>2 DEF BackupIInv, RunInv
    <3> QED
      BY <3>1, <3>3
  <2>4. RunningRowIsRun'
    BY <1>2, <2>3 DEF RunningRowIsRun
  <2> QED
    BY <1>2, <2>2, <2>4 DEF BackupIInv, RowInv
<1> QED
  BY <1>0, <1>1, <1>2, <1>4, RunEnds

\* A new run takes a goroutine that does nothing, for a schedule that has no run.
LEMMA LaunchKeeps ==
  ASSUME BackupIInv, NEW s \in Sched, NEW job \in Run, launch(s, job),
         job.kind \in {"backup", "restore"}, job.at = "start", job.row = 0, job.stopped = {},
         job.quiesce = {}, job.stamp = 0, job.obj.stamp <= clock,
         UNCHANGED <<alive, stopped, table, docker, store, bounds, excused>>
  PROVE  BackupIInv'
<1>1. UNCHANGED <<alive, stopped, sched, rows, nextRow, data, ctr, helpers, bucket, put, clock,
                  writes, excused>>
  BY DEF table, docker, store, bounds
<1>2. PICK g \in Proc : g \notin Active /\ proc' = [proc EXCEPT ![g] = [job EXCEPT !.s = s]]
  <2>1. \E g \in Proc : g \notin Active
    BY DEF launch, Active
  <2> QED
    BY <2>1 DEF launch
<1>3. inFlight' = inFlight \cup {s} /\ s \notin inFlight
  BY DEF launch
<1>4. PICK q : q = [job EXCEPT !.s = s]
  OBVIOUS
<1>5. /\ q \in Run /\ q.s = s /\ q.kind = job.kind /\ q.at = "start" /\ q.row = 0
      /\ q.stopped = {} /\ q.quiesce = {} /\ q.stamp = 0 /\ q.obj = job.obj
  BY <1>4 DEF Run
<1>6. clock \in Nat \ {0} /\ nextRow \in Nat \ {0} /\ proc \in [Proc -> Run]
  BY DEF BackupIInv, RunInv
<1>7. /\ proc' \in [Proc -> Run] /\ proc'[g] = q /\ \A h \in Proc \ {g} : proc'[h] = proc[h]
  BY <1>2, <1>4, <1>5, <1>6
<1>8. proc[g] = Idle
  <2>1. proc[g].kind = "idle"
    BY <1>2 DEF Active
  <2> QED
    BY <2>1, RunFacts DEF BackupIInv, RunOK
<1>9. \A h \in Proc : proc[h].kind # "idle" => proc[h].s \in inFlight
  BY RunFacts DEF BackupIInv
<1>10. RunInv'
  <2>1. ASSUME NEW h \in Proc PROVE RunOK(proc'[h], inFlight', nextRow', clock')
    <3>1. CASE h = g
      <4>1. RunOK(q, inFlight', nextRow', clock')
        BY <1>1, <1>3, <1>5, <1>6 DEF RunOK, BackupPlaces, RestorePlaces
      <4> QED
        BY <3>1, <4>1, <1>7
    <3>2. CASE h # g
      <4>1. proc[h] \in Run /\ RunOK(proc[h], inFlight, nextRow, clock)
        BY RunFacts DEF BackupIInv
      <4>2. RunOK(proc[h], inFlight', nextRow', clock')
        BY <1>1, <1>3, <1>6, <1>9, <4>1, RunLater
      <4> QED
        BY <3>2, <4>2, <1>7
    <3> QED
      BY <3>1, <3>2
  <2>2. OnePerSchedule'
    <3> SUFFICES ASSUME NEW h \in Proc, NEW i \in Proc, proc'[h].kind # "idle",
                        proc'[i].kind # "idle", proc'[h].s = proc'[i].s, h # i
                 PROVE  FALSE
      BY DEF OnePerSchedule
    <3>1. CASE h # g /\ i # g
      BY <3>1, <1>7 DEF BackupIInv, RunInv, OnePerSchedule
    <3>2. CASE h = g
      BY <3>2, <1>3, <1>5, <1>7, <1>9
    <3>3. CASE i = g
      BY <3>3, <1>3, <1>5, <1>7, <1>9
    <3> QED
      BY <3>1, <3>2, <3>3
  <2> QED
    BY <1>1, <1>3, <1>6, <1>7, <2>1, <2>2 DEF BackupIInv, RunInv
<1>11. RowInv'
  <2>1. \A h \in Proc : proc'[h].row = proc[h].row
    BY <1>5, <1>7, <1>8, IdleRun
  <2> QED
    BY <1>1, <2>1 DEF BackupIInv, RowInv, RunningRowIsRun
<1>12. StoreInv' /\ RestInv'
  BY <1>1, <1>6, StoreLater DEF BackupIInv, RestInv
<1>13. HelperInv'
  BY <1>1, <1>5, <1>7 DEF BackupIInv, HelperInv, Helper
<1>14. CtrInv'
  <2>1. \A h \in Proc : proc'[h].stopped = proc[h].stopped
    BY <1>5, <1>7, <1>8, IdleRun
  <2> QED
    BY <1>1, <2>1 DEF BackupIInv, CtrInv, AppComesBack
<1>15. QuietInv'
  <2>1. Up' = Up
    BY <1>1 DEF Up
  <2>2. QuietRun(q, Up)
    BY <1>5 DEF QuietRun, Replaces
  <2>3. \A h \in Proc : QuietRun(proc'[h], Up)
    BY <1>7, <2>2 DEF BackupIInv, QuietInv
  <2> QED
    BY <2>1, <2>3 DEF QuietInv
<1> QED
  BY <1>10, <1>11, <1>12, <1>13, <1>14, <1>15 DEF BackupIInv

LEMMA RunNowKeeps ==
  ASSUME BackupIInv, NEW s \in Sched, RunNow(s)
  PROVE  BackupIInv'
<1>1. PICK job : job = [Idle EXCEPT !.kind = "backup", !.at = "start"]
  OBVIOUS
<1>2. /\ launch(s, job)
      /\ UNCHANGED <<alive, stopped, table, docker, store, bounds, excused>>
  BY <1>1 DEF RunNow
<1>3. /\ job \in Run /\ job.kind = "backup" /\ job.at = "start" /\ job.row = 0
      /\ job.stopped = {} /\ job.quiesce = {} /\ job.stamp = 0 /\ job.obj.stamp = 0
  BY <1>1, IdleRun DEF Run, Places
<1>4. job.obj.stamp <= clock
  BY <1>3 DEF BackupIInv, RunInv
<1> QED
  BY <1>2, <1>3, <1>4, LaunchKeeps

LEMMA RestoreBackupKeeps ==
  ASSUME BackupIInv, NEW s \in Sched, handleRestoreBackup(s)
  PROVE  BackupIInv'
<1>1. PICK o \in bucket :
        launch(s, [Idle EXCEPT !.kind = "restore", !.at = "start", !.obj = o, !.unit = o.unit])
  BY DEF handleRestoreBackup
<1>2. PICK job : job = [Idle EXCEPT !.kind = "restore", !.at = "start", !.obj = o, !.unit = o.unit]
  OBVIOUS
<1>3. UNCHANGED <<alive, stopped, table, docker, store, bounds, excused>>
  BY DEF handleRestoreBackup
<1>4. o \in Obj /\ o.unit \in Unit /\ o.stamp <= clock
  BY DEF BackupIInv, StoreInv, RunInv, Obj
<1>5. /\ job \in Run /\ job.kind = "restore" /\ job.at = "start" /\ job.row = 0
      /\ job.stopped = {} /\ job.quiesce = {} /\ job.stamp = 0 /\ job.obj = o
  BY <1>2, <1>4, IdleRun DEF Run, Places
<1> QED
  BY <1>1, <1>2, <1>3, <1>4, <1>5, LaunchKeeps

-----------------------------------------------------------------------------
(* The pages, the process and the world.                                   *)

\* What changes none of the goroutines.
LEMMA WorldMoves ==
  ASSUME BackupIInv, UNCHANGED <<inFlight, proc, nextRow, clock, helpers>>,
         RowInv', StoreInv', CtrInv', QuietInv', RestInv'
  PROVE  BackupIInv'
<1>1. RunInv'
  BY DEF BackupIInv, RunInv, OnePerSchedule
<1>2. HelperInv'
  BY DEF BackupIInv, HelperInv, Helper
<1> QED
  BY <1>1, <1>2 DEF BackupIInv

\* Quiet stays quiet while no container starts.
LEMMA QuietStays ==
  ASSUME QuietInv, proc' = proc, Up' \subseteq Up
  PROVE  QuietInv'
BY DEF QuietInv, QuietRun

LEMMA StutterKeeps ==
  ASSUME BackupIInv, UNCHANGED <<vars>>
  PROVE  BackupIInv'
<1>1. UNCHANGED <<alive, stopped, inFlight, proc, sched, rows, nextRow, data, ctr, helpers,
                  bucket, put, clock, writes, excused>>
  BY DEF vars, goroutines, table, docker, store, bounds
<1>2. RowInv' /\ CtrInv' /\ RestInv'
  BY <1>1 DEF BackupIInv, RowInv, RunningRowIsRun, CtrInv, AppComesBack, RestInv
<1>3. StoreInv'
  BY <1>1, StoreLater DEF BackupIInv, RunInv
<1>4. QuietInv'
  BY <1>1, QuietStays DEF BackupIInv, Up
<1> QED
  BY <1>1, <1>2, <1>3, <1>4, WorldMoves

\* Schedules are made and removed, with their rows.
LEMMA SchedulesKeep ==
  ASSUME BackupIInv, UNCHANGED <<alive, stopped, inFlight, proc, nextRow, data, helpers, bucket,
                                 put, clock, writes, excused>>,
         sched' \in [Sched -> {"none", "there", "gone"}], rows' \subseteq rows,
         ctr' = ctr \/ ctr' = [c \in Ctr |-> "gone"]
  PROVE  BackupIInv'
<1>1. RowInv'
  BY DEF BackupIInv, RowInv, RunningRowIsRun
<1>2. CtrInv'
  BY DEF BackupIInv, CtrInv, AppComesBack
<1>3. StoreInv' /\ RestInv'
  BY StoreLater DEF BackupIInv, RunInv, RestInv
<1>4. QuietInv'
  <2>1. Up' \subseteq Up
    BY DEF Up
  <2> QED
    BY <2>1, QuietStays DEF BackupIInv
<1> QED
  BY <1>1, <1>2, <1>3, <1>4, WorldMoves

LEMMA PagesKeep ==
  ASSUME BackupIInv, NEW s \in Sched, handleCreateBackup(s) \/ handleDeleteBackup(s)
  PROVE  BackupIInv'
<1>1. sched \in [Sched -> {"none", "there", "gone"}]
  BY DEF BackupIInv, RowInv
<1>2. CASE handleCreateBackup(s)
  <2>1. /\ UNCHANGED <<alive, stopped, inFlight, proc, nextRow, data, helpers, bucket, put,
                       clock, writes, excused, rows, ctr>>
        /\ sched' = [sched EXCEPT ![s] = "there"]
    BY <1>2 DEF handleCreateBackup, goroutines, docker, store, bounds
  <2> QED
    BY <1>1, <2>1, SchedulesKeep
<1>3. CASE handleDeleteBackup(s)
  <2>1. /\ UNCHANGED <<alive, stopped, inFlight, proc, nextRow, data, helpers, bucket, put,
                       clock, writes, excused, ctr>>
        /\ rows' \subseteq rows
        /\ sched' = [t \in Sched |-> IF t \in {s} THEN "gone" ELSE sched[t]]
    BY <1>3 DEF handleDeleteBackup, DeleteBackups, goroutines, docker, store, bounds
  <2> QED
    BY <1>1, <2>1, SchedulesKeep
<1> QED
  BY <1>2, <1>3

\* Deleting the app.
LEMMA DeleteTargetKeeps ==
  ASSUME BackupIInv, deleteBackupsForTarget
  PROVE  BackupIInv'
<1>1. UNCHANGED <<alive, stopped, inFlight, proc, nextRow, data, helpers, bucket, put, clock,
                  writes, excused>>
  BY DEF deleteBackupsForTarget, DeleteBackups, goroutines, store, bounds
<1>2. /\ rows' \subseteq rows /\ ctr' = [c \in Ctr |-> "gone"]
      /\ sched' = [t \in Sched |-> IF t \in AppSched THEN "gone" ELSE sched[t]]
  BY DEF deleteBackupsForTarget, DeleteBackups
<1>3. sched' \in [Sched -> {"none", "there", "gone"}]
  BY <1>2 DEF BackupIInv, RowInv
<1> QED
  BY <1>1, <1>2, <1>3, SchedulesKeep

\* The end of the contexts changes no more than that.
LEMMA StopKeeps ==
  ASSUME BackupIInv, Stop
  PROVE  BackupIInv'
<1>1. UNCHANGED <<alive, inFlight, sched, rows, nextRow, data, ctr, helpers, bucket, put, clock,
                  writes, excused>>
  BY DEF Stop, table, docker, store, idleBounds
<1>2. clock \in Nat \ {0} /\ nextRow \in Nat \ {0}
  BY DEF BackupIInv, RunInv
<1>3. ASSUME NEW g \in Proc
      PROVE  /\ proc'[g] \in Run /\ RunOK(proc'[g], inFlight, nextRow, clock)
             /\ QuietRun(proc'[g], Up)
             /\ proc'[g].kind = proc[g].kind /\ proc'[g].s = proc[g].s
             /\ proc'[g].row = proc[g].row /\ proc'[g].stopped = proc[g].stopped
             /\ proc'[g].at = proc[g].at /\ proc'[g].unit = proc[g].unit
  <2>0. PICK p, q : p = proc[g] /\ q = proc'[g]
    OBVIOUS
  <2>1. p \in Run /\ RunOK(p, inFlight, nextRow, clock) /\ QuietRun(p, Up)
    BY <2>0, RunFacts DEF BackupIInv, QuietInv
  <2>2. CASE g \notin Active
    <3>1. q = p
      BY <2>0, <2>2 DEF Stop
    <3> QED
      BY <2>0, <2>1, <3>1
  <2>3. CASE g \in Active
    <3>1. q = [p EXCEPT !.late = TRUE]
      BY <2>0, <2>3 DEF Stop
    <3>2. q \in Run
      BY <2>1, <3>1 DEF Run
    <3>3. /\ q.kind = p.kind /\ q.at = p.at /\ q.s = p.s /\ q.row = p.row /\ q.unit = p.unit
          /\ q.stamp = p.stamp /\ q.obj = p.obj /\ q.quiesce = p.quiesce
          /\ q.stopped = p.stopped
      BY <2>1, <3>1 DEF Run
    <3>4. p.kind # "idle"
      BY <2>0, <2>3 DEF Active
    <3>5. RunOK(q, inFlight, nextRow, clock)
      BY <2>1, <3>3, <3>4 DEF RunOK
    <3>6. QuietRun(q, Up)
      BY <2>1, <3>3 DEF QuietRun, Replaces
    <3> QED
      BY <2>0, <3>2, <3>3, <3>5, <3>6
  <2> QED
    BY <2>2, <2>3
<1>4. RunInv'
  <2>1. proc' \in [Proc -> Run]
    BY <1>3 DEF Stop
  <2>2. OnePerSchedule'
    BY <1>3 DEF BackupIInv, RunInv, OnePerSchedule
  <2> QED
    BY <1>1, <1>2, <1>3, <2>1, <2>2 DEF BackupIInv, RunInv
<1>5. RowInv' /\ CtrInv'
  BY <1>1, <1>3 DEF BackupIInv, RowInv, RunningRowIsRun, CtrInv, AppComesBack
<1>6. StoreInv'
  BY <1>1, <1>2, StoreLater DEF BackupIInv
<1>7. RestInv'
  BY <1>1 DEF BackupIInv, RestInv, Stop
<1>8. HelperInv'
  BY <1>1, <1>3 DEF BackupIInv, HelperInv, Helper
<1>9. QuietInv'
  <2>1. Up' = Up
    BY <1>1 DEF Up
  <2> QED
    BY <1>3, <2>1 DEF QuietInv
<1> QED
  BY <1>4, <1>5, <1>6, <1>7, <1>8, <1>9 DEF BackupIInv

LEMMA ExitKeeps ==
  ASSUME BackupIInv, Exit
  PROVE  BackupIInv'
<1>1. /\ UNCHANGED <<stopped, sched, rows, nextRow, data, ctr, helpers, bucket, put, clock,
                     writes>>
      /\ alive' = FALSE /\ inFlight' = {} /\ proc' = [g \in Proc |-> Idle]
      /\ excused' = excused \cup UNION {proc[g].stopped : g \in Proc}
  BY DEF Exit, table, docker, store, idleBounds
<1>2. clock \in Nat \ {0} /\ nextRow \in Nat \ {0}
  BY DEF BackupIInv, RunInv
<1>3. RunInv'
  <2>1. RunOK(Idle, inFlight', nextRow', clock')
    BY <1>1, <1>2, IdleRun DEF RunOK, BackupPlaces, RestorePlaces
  <2>2. OnePerSchedule'
    BY <1>1, IdleRun DEF OnePerSchedule
  <2> QED
    BY <1>1, <1>2, <2>1, <2>2, IdleRun DEF BackupIInv, RunInv
<1>4. RowInv' /\ RestInv'
  BY <1>1 DEF BackupIInv, RowInv, RunningRowIsRun, RestInv
<1>5. CtrInv'
  BY <1>1 DEF BackupIInv, CtrInv, AppComesBack
<1>6. StoreInv'
  BY <1>1, <1>2, StoreLater DEF BackupIInv
<1>7. HelperInv'
  BY <1>1, IdleRun DEF HelperInv
<1>8. QuietInv'
  <2>1. QuietRun(Idle, Up')
    BY IdleRun DEF QuietRun, Replaces
  <2> QED
    BY <1>1, <2>1 DEF QuietInv
<1> QED
  BY <1>3, <1>4, <1>5, <1>6, <1>7, <1>8 DEF BackupIInv

LEMMA RecoverInterruptedKeeps ==
  ASSUME BackupIInv, RecoverInterrupted
  PROVE  BackupIInv'
<1>1. /\ UNCHANGED <<inFlight, proc, sched, nextRow, data, ctr, helpers, bucket, put, clock,
                     writes, excused>>
      /\ alive' = TRUE /\ stopped' = FALSE
      /\ rows' = {IF r.status = "running" THEN [r EXCEPT !.status = "failed"] ELSE r : r \in rows}
  BY DEF RecoverInterrupted, docker, store, bounds
<1>2. RowInv'
  <2>1. \A r \in rows : r \in Row /\ r.id < nextRow
    BY DEF BackupIInv, RowInv
  <2>2. ASSUME NEW e \in rows'
        PROVE  e \in Row /\ e.id < nextRow /\ e.status # "running"
    <3>1. PICK r \in rows : e = IF r.status = "running" THEN [r EXCEPT !.status = "failed"] ELSE r
      BY <1>1
    <3>2. CASE r.status # "running"
      BY <3>1, <3>2, <2>1
    <3>3. CASE r.status = "running"
      <4>1. e = [r EXCEPT !.status = "failed"]
        BY <3>1, <3>3
      <4>2. e \in Row /\ e.id = r.id /\ e.status = "failed"
        BY <4>1, <2>1 DEF Row
      <4> QED
        BY <4>2, <2>1
    <3> QED
      BY <3>2, <3>3
  <2> QED
    BY <1>1, <2>2 DEF BackupIInv, RowInv, RunningRowIsRun
<1>3. CtrInv' /\ RestInv'
  BY <1>1 DEF BackupIInv, CtrInv, AppComesBack, RestInv
<1>4. StoreInv'
  BY <1>1, StoreLater DEF BackupIInv, RunInv
<1>5. QuietInv'
  BY <1>1, QuietStays DEF BackupIInv, Up
<1> QED
  BY <1>1, <1>2, <1>3, <1>4, <1>5, WorldMoves

\* The operator lets a restore alone, or the containers it starts are not counted on.
LEMMA OperatorSetsKeeps ==
  ASSUME BackupIInv, OperatorSets
  PROVE  BackupIInv'
<1>1. /\ UNCHANGED <<alive, stopped, inFlight, proc, sched, rows, nextRow, data, helpers,
                     bucket, put, clock, writes>>
      /\ Overlap \/ Restoring = {}
  BY DEF OperatorSets, goroutines, table, store, bounds
<1>2. PICK c \in Ctr :
        \/ ctr' = [ctr EXCEPT ![c] = "down"] /\ excused' = excused \cup {c}
        \/ ctr' = [ctr EXCEPT ![c] = "up"] /\ excused' = excused \ {c}
  BY DEF OperatorSets
<1>3. CtrInv'
  BY <1>1, <1>2 DEF BackupIInv, CtrInv, AppComesBack
<1>4. RowInv' /\ RestInv'
  BY <1>1 DEF BackupIInv, RowInv, RunningRowIsRun, RestInv
<1>5. StoreInv'
  BY <1>1, StoreLater DEF BackupIInv, RunInv
<1>6. QuietInv'
  <2> SUFFICES ASSUME NEW g \in Proc PROVE QuietRun(proc[g], Up')
    BY <1>1 DEF QuietInv
  <2>1. QuietRun(proc[g], Up) /\ RunOK(proc[g], inFlight, nextRow, clock)
    BY RunFacts DEF BackupIInv, QuietInv
  <2>2. CASE Overlap
    BY <2>1, <2>2 DEF QuietRun, Alone
  <2>3. CASE Restoring = {}
    <3>1. proc[g].kind # "restore"
      BY <2>3 DEF Restoring, Active
    <3>2. ~(proc[g].at \in {"download", "validate"} \/ Replaces(proc[g]))
      BY <2>1, <3>1 DEF RunOK, RestorePlaces, Replaces
    <3> QED
      BY <2>1, <3>2 DEF QuietRun
  <2> QED
    BY <1>1, <2>2, <2>3
<1> QED
  BY <1>1, <1>3, <1>4, <1>5, <1>6, WorldMoves

LEMMA WriteKeeps ==
  ASSUME BackupIInv, Write
  PROVE  BackupIInv'
<1>1. /\ UNCHANGED <<alive, stopped, inFlight, proc, sched, rows, nextRow, ctr, helpers,
                     bucket, put, clock, excused>>
      /\ writes < MaxWrites /\ writes' = writes + 1
  BY DEF Write, goroutines, table, store
<1>2. PICK u \in Unit : data' = [data EXCEPT ![u] = writes + 1]
  BY DEF Write
<1>3. RestInv'
  <2>1. writes + 1 \in Content
    BY <1>1, BackupAssumption DEF BackupIInv, RestInv, Content, Bad
  <2> QED
    BY <1>1, <1>2, <2>1 DEF BackupIInv, RestInv
<1>4. RowInv' /\ CtrInv'
  BY <1>1 DEF BackupIInv, RowInv, RunningRowIsRun, CtrInv, AppComesBack
<1>5. StoreInv'
  BY <1>1, StoreLater DEF BackupIInv, RunInv
<1>6. QuietInv'
  BY <1>1, QuietStays DEF BackupIInv, Up
<1> QED
  BY <1>1, <1>3, <1>4, <1>5, <1>6, WorldMoves

\* A damaged archive keeps its unit and its stamp.
LEMMA RotKeeps ==
  ASSUME BackupIInv, Rot
  PROVE  BackupIInv'
<1>1. UNCHANGED <<alive, stopped, inFlight, proc, sched, rows, nextRow, data, ctr, helpers, put,
                  clock, writes, excused>>
  BY DEF Rot, goroutines, table, docker, idleBounds
<1>2. PICK o \in bucket : bucket' = (bucket \ {o}) \cup {[o EXCEPT !.content = Bad]}
  BY DEF Rot
<1>3. PICK b : b = [o EXCEPT !.content = Bad]
  OBVIOUS
<1>4. o \in Obj /\ b \in Obj /\ b.unit = o.unit /\ b.stamp = o.stamp
  <2>1. o \in Obj /\ Bad \in Content
    BY BackupAssumption DEF BackupIInv, StoreInv, Content, Bad
  <2> QED
    BY <1>3, <2>1 DEF Obj
<1>5. StoreInv'
  <2>1. bucket' = (bucket \ {o}) \cup {b}
    BY <1>2, <1>3
  <2>2. KeepsNewest'
    BY <1>1, <1>4, <2>1 DEF BackupIInv, StoreInv, KeepsNewest
  <2>3. \A x \in bucket' : x \in Obj /\ x.stamp \in put'[x.unit]
    BY <1>1, <1>4, <2>1 DEF BackupIInv, StoreInv
  <2>4. \A x, y \in bucket' : x.unit = y.unit /\ x.stamp = y.stamp => x = y
    BY <1>4, <2>1 DEF BackupIInv, StoreInv
  <2> QED
    BY <1>1, <2>2, <2>3, <2>4 DEF BackupIInv, StoreInv
<1>6. RowInv' /\ CtrInv' /\ RestInv'
  BY <1>1 DEF BackupIInv, RowInv, RunningRowIsRun, CtrInv, AppComesBack, RestInv
<1>7. QuietInv'
  BY <1>1, QuietStays DEF BackupIInv, Up
<1> QED
  BY <1>1, <1>5, <1>6, <1>7, WorldMoves

-----------------------------------------------------------------------------
(* The invariant.                                                          *)

LEMMA BackupBegins ==
  ASSUME Init
  PROVE  BackupIInv
<1>1. /\ alive = TRUE /\ stopped = FALSE /\ sched = [s \in Sched |-> "none"]
      /\ inFlight = {} /\ proc = [g \in Proc |-> Idle] /\ rows = {} /\ nextRow = 1
      /\ bucket = {} /\ put = [u \in Unit |-> {}] /\ data = [u \in Unit |-> 0]
      /\ ctr \in [Ctr -> {"up", "down"}] /\ helpers = {} /\ clock = 1 /\ writes = 0
      /\ excused = {c \in Ctr : ctr[c] = "down"}
  BY DEF Init
<1>2. RunInv
  <2>1. RunOK(Idle, inFlight, nextRow, clock)
    BY <1>1, IdleRun DEF RunOK, BackupPlaces, RestorePlaces
  <2>2. OnePerSchedule
    BY <1>1, IdleRun DEF OnePerSchedule
  <2> QED
    BY <1>1, <2>1, <2>2, IdleRun DEF RunInv
<1>3. RowInv
  BY <1>1 DEF RowInv, RunningRowIsRun
<1>4. StoreInv
  BY <1>1 DEF StoreInv, KeepsNewest
<1>5. HelperInv
  BY <1>1 DEF HelperInv
<1>6. CtrInv
  BY <1>1 DEF CtrInv, AppComesBack
<1>7. QuietInv
  <2>1. QuietRun(Idle, Up)
    BY IdleRun DEF QuietRun, Replaces
  <2> QED
    BY <1>1, <2>1 DEF QuietInv
<1>8. RestInv
  <2>1. 0 \in Content
    BY BackupAssumption DEF Content, Bad
  <2> QED
    BY <1>1, <2>1 DEF RestInv
<1> QED
  BY <1>2, <1>3, <1>4, <1>5, <1>6, <1>7, <1>8 DEF BackupIInv

LEMMA BackupGoesOn ==
  ASSUME BackupIInv, [Next]_vars
  PROVE  BackupIInv'
<1>1. ASSUME NEW g \in Proc, Step(g) PROVE BackupIInv'
  <2>1. CASE StartBackupRun(g) BY <2>1, StartBackupRunKeeps
  <2>2. CASE execute(g) BY <2>2, ExecuteKeeps
  <2>3. CASE backupDatabase(g) BY <2>3, BackupDatabaseKeeps
  <2>4. CASE dropStaleHelper(g) BY <2>4, DropStaleHelperKeeps
  <2>5. CASE CreateHelper(g) BY <2>5, CreateHelperKeeps
  <2>6. CASE EndHelper(g) BY <2>6, EndHelperKeeps
  <2>7. CASE Put(g) BY <2>7, PutKeeps
  <2>8. CASE prune(g) BY <2>8, PruneKeeps
  <2>9. CASE restore(g) BY <2>9, RestoreKeeps
  <2>10. CASE download(g) BY <2>10, DownloadKeeps
  <2>11. CASE validateTarGz(g) BY <2>11, ValidateTarGzKeeps
  <2>12. CASE StopContainer(g) BY <2>12, StopContainerKeeps
  <2>13. CASE restoreDatabase(g) BY <2>13, RestoreDatabaseKeeps
  <2>14. CASE EndRestoreDatabase(g) BY <2>14, EndRestoreDatabaseKeeps
  <2>15. CASE RestartStopped(g) BY <2>15, RestartStoppedKeeps
  <2>16. CASE FinishBackupRun(g) BY <2>16, FinishBackupRunKeeps
  <2> QED
    BY <1>1, <2>1, <2>2, <2>3, <2>4, <2>5, <2>6, <2>7, <2>8, <2>9, <2>10, <2>11, <2>12, <2>13,
       <2>14, <2>15, <2>16 DEF Step
<1>2. ASSUME NEW s \in Sched, handleCreateBackup(s) \/ handleDeleteBackup(s) PROVE BackupIInv'
  BY <1>2, PagesKeep
<1>3. CASE deleteBackupsForTarget BY <1>3, DeleteTargetKeeps
<1>4. ASSUME NEW s \in Sched, Tick(s) PROVE BackupIInv'
  BY <1>4, RunNowKeeps DEF Tick
<1>5. ASSUME NEW s \in Sched, handleRestoreBackup(s) PROVE BackupIInv'
  BY <1>5, RestoreBackupKeeps
<1>6. CASE Stop BY <1>6, StopKeeps
<1>7. CASE Exit BY <1>7, ExitKeeps
<1>8. CASE RecoverInterrupted BY <1>8, RecoverInterruptedKeeps
<1>9. CASE OperatorSets BY <1>9, OperatorSetsKeeps
<1>10. CASE Write BY <1>10, WriteKeeps
<1>11. CASE Rot BY <1>11, RotKeeps
<1>12. CASE UNCHANGED vars BY <1>12, StutterKeeps
<1> QED
  BY <1>1, <1>2, <1>3, <1>4, <1>5, <1>6, <1>7, <1>8, <1>9, <1>10, <1>11, <1>12 DEF Next

LEMMA BackupInvariant == BackupSpec => []BackupIInv
<1>1. Init => BackupIInv
  BY BackupBegins
<1>2. BackupIInv /\ [Next]_vars => BackupIInv'
  BY BackupGoesOn
<1> QED
  BY <1>1, <1>2, PTL DEF BackupSpec

\* At every step of every backup and restore, killed or cut short: the newest archives of
\* each volume and of the database are in the bucket; a helper's name is free when the run
\* creates it; and a row that says running is the row of a run that will end
\* (backup/manager.go prune, dropStaleHelper, run).
THEOREM BackupsAreKept == BackupSpec => []BackupInv
<1>1. BackupIInv => BackupInv
  <2> SUFFICES ASSUME BackupIInv PROVE BackupInv
    OBVIOUS
  <2>1. \A r \in rows : r.id \in 1..(nextRow - 1) /\ r.status \in {"running", "ok", "failed"}
    BY DEF BackupIInv, RowInv, RunInv, Row
  <2>2. \A o \in bucket : o.unit \in Unit /\ o.stamp \in 1..clock /\ o.content \in Content
    <3> SUFFICES ASSUME NEW o \in bucket
                 PROVE  o.unit \in Unit /\ o.stamp \in 1..clock /\ o.content \in Content
      OBVIOUS
    <3>1. o.unit \in Unit /\ o.content \in Content /\ o.stamp \in put[o.unit]
      BY DEF BackupIInv, StoreInv, Obj
    <3>2. put[o.unit] \subseteq 1..clock
      BY <3>1 DEF BackupIInv, StoreInv
    <3> QED
      BY <3>1, <3>2
  <2>3. BackupTypeOK
    BY <2>1, <2>2 DEF BackupIInv, RunInv, RowInv, CtrInv, RestInv, BackupTypeOK
  <2>4. HelperNameFree
    BY DEF BackupIInv, HelperInv, HelperNameFree
  <2> QED
    BY <2>3, <2>4 DEF BackupIInv, StoreInv, RowInv, BackupInv
<1> QED
  BY <1>1, BackupInvariant, PTL

\* A container that a restore stopped is started again however the restore ends, or its
\* being down is excused: the process died, Docker refused, or the operator stopped it
\* (backup/restore.go restoreVolume).
THEOREM StoppedComesBack == BackupSpec => []AppComesBack
<1>1. BackupIInv => AppComesBack
  BY DEF BackupIInv, CtrInv
<1> QED
  BY <1>1, BackupInvariant, PTL

-----------------------------------------------------------------------------
(* What a restore leaves in a volume.                                      *)

\* A step of a run is its own.
LEMMA StepIsOwn ==
  ASSUME BackupIInv, NEW g \in Proc, Step(g), NEW h \in Proc, h # g
  PROVE  proc'[h] = proc[h]
<1>0. proc \in [Proc -> Run]
  BY DEF BackupIInv, RunInv
<1>1. ASSUME Failed(g) \/ Fault(g) PROVE proc'[h] = proc[h]
  BY <1>0, <1>1 DEF Failed, Fault
<1>2. CASE StartBackupRun(g) BY <1>0, <1>2 DEF StartBackupRun
<1>3. CASE execute(g) BY <1>0, <1>1, <1>3 DEF execute
<1>4. CASE backupDatabase(g) BY <1>0, <1>1, <1>4 DEF backupDatabase
<1>5. CASE dropStaleHelper(g) BY <1>0, <1>1, <1>5 DEF dropStaleHelper
<1>6. CASE CreateHelper(g) BY <1>0, <1>1, <1>6 DEF CreateHelper, Goto
<1>7. CASE EndHelper(g) BY <1>0, <1>1, <1>7 DEF EndHelper, Goto
<1>8. CASE Put(g) BY <1>0, <1>1, <1>8 DEF Put, Goto
<1>9. CASE prune(g) BY <1>0, <1>1, <1>9 DEF prune, Goto
<1>10. CASE restore(g) BY <1>0, <1>1, <1>10 DEF restore
<1>11. CASE download(g) BY <1>0, <1>1, <1>11 DEF download
<1>12. CASE validateTarGz(g) BY <1>0, <1>1, <1>12 DEF validateTarGz, Goto
<1>13. CASE StopContainer(g) BY <1>0, <1>1, <1>13 DEF StopContainer, Goto
<1>14. CASE restoreDatabase(g) BY <1>0, <1>1, <1>14 DEF restoreDatabase, Goto
<1>15. CASE EndRestoreDatabase(g) BY <1>0, <1>1, <1>15 DEF EndRestoreDatabase, Goto
<1>16. CASE RestartStopped(g) BY <1>0, <1>1, <1>16 DEF RestartStopped, Goto
<1>17. CASE FinishBackupRun(g) BY <1>0, <1>17 DEF FinishBackupRun
<1> QED
  BY <1>2, <1>3, <1>4, <1>5, <1>6, <1>7, <1>8, <1>9, <1>10, <1>11, <1>12, <1>13, <1>14, <1>15,
     <1>16, <1>17 DEF Step

\* A run that leaves the tar for the restart without an error ended its helper.
LEMMA DoneIsEndHelper ==
  ASSUME BackupIInv, [Next]_vars, NEW g \in Proc,
         proc[g].at = "untarring", proc'[g].at = "restart", ~proc'[g].err
  PROVE  EndHelper(g) /\ ~Fault(g)
<1>0. proc \in [Proc -> Run] /\ proc[g] \in Run
  BY DEF BackupIInv, RunInv
<1>1. ASSUME NEW h \in Proc, Step(h) PROVE EndHelper(g) /\ ~Fault(g)
  <2>1. h = g
    BY <1>1, StepIsOwn
  <2>2. EndHelper(g)
    BY <1>1, <2>1 DEF Step, StartBackupRun, execute, backupDatabase, dropStaleHelper,
       CreateHelper, Put, prune, restore, download, validateTarGz, StopContainer,
       restoreDatabase, EndRestoreDatabase, RestartStopped, FinishBackupRun, At
  <2>3. ~Fault(g)
    BY <1>0 DEF Fault, Failed, Run
  <2> QED
    BY <2>2, <2>3
<1>2. ASSUME proc' = proc PROVE FALSE
  BY <1>2
<1>3. ASSUME NEW s \in Sched, NEW job, launch(s, job) PROVE FALSE
  <2>1. PICK h \in Proc : h \notin Active /\ proc' = [proc EXCEPT ![h] = [job EXCEPT !.s = s]]
    <3>1. \E h \in Proc : h \notin Active
      BY <1>3 DEF launch, Active
    <3> QED
      BY <1>3, <3>1 DEF launch
  <2>2. h # g
    BY <2>1, RunFacts DEF Active, BackupIInv
  <2> QED
    BY <1>0, <2>1, <2>2
<1>4. CASE Stop
  BY <1>0, <1>4 DEF Stop, Run
<1>5. CASE Exit
  BY <1>5, IdleRun DEF Exit
<1> QED
  BY <1>1, <1>2, <1>3, <1>4, <1>5 DEF Next, handleCreateBackup, handleDeleteBackup, Tick, RunNow,
     handleRestoreBackup, deleteBackupsForTarget, RecoverInterrupted, OperatorSets, Write, Rot,
     vars, goroutines

\* A volume is emptied, or left half full, by a run that has read its archive.
LEMMA EmptiedByRestore ==
  ASSUME BackupIInv, [Next]_vars, NEW v \in Volume, data[v] # Part, data'[v] = Part
  PROVE  \E g \in Proc : proc[g].unit = v /\ proc[g].obj.content # Bad
<1>0. data \in [Unit -> Content \cup {Part}] /\ v \in Unit /\ v # "db" /\ writes \in Nat
  BY IdleRun DEF BackupIInv, RestInv, Unit
<1>1. data' # data
  OBVIOUS
<1>2. ASSUME NEW g \in Proc, CreateHelper(g)
      PROVE  \E h \in Proc : proc[h].unit = v /\ proc[h].obj.content # Bad
  <2>1. proc[g].at = "untar" /\ data' = [data EXCEPT ![proc[g].unit] = Part]
    BY <1>1, <1>2 DEF CreateHelper
  <2>2. proc[g].unit = v
    BY <1>0, <2>1
  <2>3. proc[g].obj.content # Bad
    BY <2>1 DEF BackupIInv, QuietInv, QuietRun, Replaces
  <2> QED
    BY <2>2, <2>3
<1>3. ASSUME NEW g \in Proc, EndHelper(g)
      PROVE  \E h \in Proc : proc[h].unit = v /\ proc[h].obj.content # Bad
  <2>1. /\ proc[g].at = "untarring"
        /\ data' = [data EXCEPT ![proc[g].unit] = Untarred(proc[g].obj)]
    BY <1>1, <1>3 DEF EndHelper
  <2>2. proc[g].unit = v
    BY <1>0, <2>1
  <2>3. proc[g].obj.content # Bad
    BY <2>1 DEF BackupIInv, QuietInv, QuietRun, Replaces
  <2> QED
    BY <2>2, <2>3
<1>4. ASSUME NEW g \in Proc, restoreDatabase(g) \/ EndRestoreDatabase(g) PROVE FALSE
  <2>1. PICK x : data' = [data EXCEPT !["db"] = x]
    BY <1>1, <1>4 DEF restoreDatabase, EndRestoreDatabase
  <2> QED
    BY <1>0, <2>1
<1>5. CASE Write
  <2>1. PICK u \in Unit : data' = [data EXCEPT ![u] = writes + 1]
    BY <1>5 DEF Write
  <2>2. u = v
    BY <1>0, <2>1
  <2>3. writes + 1 = Part
    BY <1>0, <2>1, <2>2
  <2> QED
    BY <1>0, <2>3 DEF Part
<1>6. ASSUME NEW g \in Proc, Step(g)
      PROVE  CreateHelper(g) \/ EndHelper(g) \/ restoreDatabase(g) \/ EndRestoreDatabase(g)
  BY <1>1, <1>6 DEF Step, StartBackupRun, execute, backupDatabase, dropStaleHelper, Put, prune,
     restore, download, validateTarGz, StopContainer, RestartStopped, FinishBackupRun, still,
     docker
<1> QED
  BY <1>1, <1>2, <1>3, <1>4, <1>5, <1>6 DEF Next, handleCreateBackup, handleDeleteBackup, Tick,
     RunNow, handleRestoreBackup, deleteBackupsForTarget, Stop, Exit, RecoverInterrupted,
     OperatorSets, Rot, vars, docker

\* A volume is only emptied, or left half restored, by a run whose archive has been read
\* to its end, whoever else works on the app (backup/restore.go validateTarGz).
THEOREM ReadBeforeEmptied ==
  BackupSpec =>
    [][\A v \in Volume : data[v] # Part /\ data'[v] = Part =>
         \E g \in Proc : proc[g].unit = v /\ proc[g].obj.content # Bad]_vars
<1>1. BackupIInv /\ [Next]_vars =>
        [\A v \in Volume : data[v] # Part /\ data'[v] = Part =>
           \E g \in Proc : proc[g].unit = v /\ proc[g].obj.content # Bad]_vars
  BY EmptiedByRestore
<1> QED
  BY <1>1, BackupInvariant, PTL DEF BackupSpec

\* With one schedule of the app and an operator who waits for it, a restore that ends well
\* leaves in the volume what the archive holds: no container of the app ran while the
\* helper wrote (backup/restore.go restoreVolume).
THEOREM RestoresAreExact ==
  ASSUME Alone
  PROVE  BackupSpec => RestoredExactly
<1>1. ASSUME BackupIInv, [Next]_vars, NEW g \in Proc,
             proc[g].at = "untarring", proc'[g].at = "restart", ~proc'[g].err
      PROVE  data'[proc[g].unit] = proc[g].obj.content
  <2>1. EndHelper(g) /\ ~Fault(g)
    BY <1>1, DoneIsEndHelper
  <2>2. data' = [data EXCEPT ![proc[g].unit] = Untarred(proc[g].obj)]
    BY <1>1, <2>1 DEF EndHelper
  <2>3. Up = {} /\ proc[g].obj.content # Bad
    BY <1>1 DEF BackupIInv, QuietInv, QuietRun, Replaces
  <2>4. Untarred(proc[g].obj) = proc[g].obj.content
    BY <2>3 DEF Untarred
  <2>5. proc[g].unit \in Unit
    BY <1>1, RunFacts DEF BackupIInv
  <2> QED
    BY <1>1, <2>2, <2>4, <2>5 DEF BackupIInv, RestInv
<1>2. BackupIInv /\ [Next]_vars =>
        [/\ \A g \in Proc :
              proc[g].at = "untarring" /\ proc'[g].at = "restart" /\ ~proc'[g].err
                => data'[proc[g].unit] = proc[g].obj.content
         /\ \A v \in Volume : data[v] # Part /\ data'[v] = Part =>
              \E g \in Proc : proc[g].unit = v /\ proc[g].obj.content # Bad]_vars
  BY <1>1, EmptiedByRestore
<1> QED
  BY <1>2, BackupInvariant, PTL DEF BackupSpec, RestoredExactly

-----------------------------------------------------------------------------
(* What an accepted expression of a schedule means.                        *)

\* Each field's range is one of naturals and not empty.
LEMMA BoundsAreRanges ==
  \A f \in C!Field : /\ C!bounds[f] = C!lowest[f]..C!highest[f]
                     /\ C!lowest[f] \in Int /\ C!highest[f] \in Int
<1> SUFFICES ASSUME NEW f \in C!Field
             PROVE  /\ C!bounds[f] = C!lowest[f]..C!highest[f]
                    /\ C!lowest[f] \in Int /\ C!highest[f] \in Int
  OBVIOUS
<1>1. f = 1 \/ f = 2 \/ f = 3 \/ f = 4 \/ f = 5
  BY DEF C!Field
<1>2. CASE f = 1 BY <1>2 DEF C!bounds, C!lowest, C!highest
<1>3. CASE f = 2 BY <1>3 DEF C!bounds, C!lowest, C!highest
<1>4. CASE f = 3 BY <1>4 DEF C!bounds, C!lowest, C!highest
<1>5. CASE f = 4 BY <1>5 DEF C!bounds, C!lowest, C!highest
<1>6. CASE f = 5 BY <1>6 DEF C!bounds, C!lowest, C!highest
<1> QED BY <1>1, <1>2, <1>3, <1>4, <1>5, <1>6

\* Parse never accepts a part that allows nothing, or a bit outside the field's bounds:
\* the mask of a field fits its word and the field can match (cron.go:81-116).
THEOREM AcceptedAllows ==
  ASSUME NEW f \in C!Field, NEW p \in C!Part, C!Accepted(p, f)
  PROVE  C!Values(p, f) # {} /\ C!Values(p, f) \subseteq C!bounds[f]
<1>1. PICK lo, hi \in Int : C!bounds[f] = lo..hi
  BY BoundsAreRanges
<1>2. /\ C!First(p, f) \in Int /\ C!Last(p, f) \in Int /\ C!Step(p) \in Int
      /\ lo <= C!First(p, f) /\ C!First(p, f) <= C!Last(p, f) /\ C!Last(p, f) <= hi
      /\ C!Step(p) >= 1
  <2>1. C!Step(p) \in Int BY DEF C!Step, C!Part
  <2> QED BY <1>1, <2>1 DEF C!Accepted
<1>3. (C!First(p, f) - C!First(p, f)) % C!Step(p) = 0
  <2>1. C!First(p, f) - C!First(p, f) = 0 BY <1>2
  <2>2. 0 % C!Step(p) = 0 BY <1>2
  <2> QED BY <2>1, <2>2
<1>4. C!First(p, f) \in C!Values(p, f)
  BY <1>2, <1>3 DEF C!Values
<1>5. C!Values(p, f) \subseteq C!bounds[f]
  BY <1>1, <1>2 DEF C!Values
<1> QED BY <1>4, <1>5

\* A weekday range that ends in 7 is Sunday alone, or is refused: "0-7" is not every
\* day, though 7 is accepted as Sunday (cron.go:38-40, 121-126).
THEOREM RangeToSundayIsSunday ==
  ASSUME NEW p \in C!Part, p.spec = "range", p.hi = 7, C!Accepted(p, C!Weekday)
  PROVE  C!Values(p, C!Weekday) = {0}
<1>1. C!bounds[C!Weekday] = 0..6
  BY DEF C!bounds, C!Weekday
<1>2. C!Last(p, C!Weekday) = 0
  BY DEF C!Last, C!parseValue
<1>3. C!First(p, C!Weekday) \in Int /\ C!First(p, C!Weekday) = 0
  BY <1>1, <1>2 DEF C!Accepted
<1>4. C!Values(p, C!Weekday) \subseteq {0}
  BY <1>2, <1>3 DEF C!Values
<1>5. C!Weekday \in C!Field BY DEF C!Weekday, C!Field
<1> QED BY <1>4, <1>5, AcceptedAllows

\* Every expression that the form accepts matches some time, though it need not be a
\* date of the calendar (the 31st of February is accepted).
THEOREM ParsedMatches ==
  ASSUME NEW e \in C!Expr, C!Parses(e)
  PROVE  \E t \in [C!Field -> Int] : C!Matches(e, t) /\ \A f \in C!Field : t[f] \in C!bounds[f]
<1>1. \A f \in C!Field : \E v \in C!bounds[f] : v \in C!parseField(e[f], f)
  <2> SUFFICES ASSUME NEW f \in C!Field
               PROVE  \E v \in C!bounds[f] : v \in C!parseField(e[f], f)
    OBVIOUS
  <2>1. e[f] \in Seq(C!Part) /\ e[f] # <<>>
    BY DEF C!Expr
  <2>2. 1 \in DOMAIN e[f] /\ e[f][1] \in C!Part
    BY <2>1
  <2>3. C!Accepted(e[f][1], f)
    BY <2>2 DEF C!Parses
  <2>4. PICK v \in C!bounds[f] : v \in C!Values(e[f][1], f)
    BY <2>2, <2>3, AcceptedAllows
  <2> QED BY <2>2, <2>4 DEF C!parseField
<1>2. PICK t : t = [f \in C!Field |-> CHOOSE v \in C!bounds[f] : v \in C!parseField(e[f], f)]
  OBVIOUS
<1>3. \A f \in C!Field : t[f] \in C!bounds[f] /\ t[f] \in C!parseField(e[f], f)
  BY <1>1, <1>2
<1>4. t \in [C!Field -> Int]
  <2>1. \A f \in C!Field : t[f] \in Int
    BY <1>3, BoundsAreRanges
  <2> QED BY <1>2, <2>1
<1>5. {C!Minute, C!Hour, C!Day, C!Month, C!Weekday} \subseteq C!Field
  BY DEF C!Minute, C!Hour, C!Day, C!Month, C!Weekday, C!Field
<1>6. C!Matches(e, t)
  BY <1>3, <1>5 DEF C!Matches
<1> QED BY <1>3, <1>4, <1>6
=============================================================================

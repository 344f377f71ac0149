------------------------------- MODULE Dbaas --------------------------------
(***************************************************************************)
(* Managed databases (internal/dbaas): one long-lived container per        *)
(* database on a bind-mounted data directory.  Provision runs in a         *)
(* goroutine of its own and replaces an existing container by starting a   *)
(* second one under a temporary name; Start, Stop and Remove run on the    *)
(* HTTP request.  Nothing locks a database: each operation is a sequence   *)
(* of Docker and store calls, any of which may fail or time out.           *)
(* The module follows one database name through rows that come and go.     *)
(***************************************************************************)
EXTENDS Docker

CONSTANTS
  Proc,         \* operations that may be in flight at once
  Serial,       \* TRUE: the operator waits for an operation before the next
  MaxRow,       \* bound: rows ever inserted under the name
  MaxFaults,    \* bound: Docker calls that fail or time out
  MaxRestarts   \* bound: restarts of Outhaul

ASSUME DbaasAssumption ==
  /\ IsFiniteSet(Proc) /\ Serial \in BOOLEAN
  /\ MaxRow \in Nat /\ MaxFaults \in Nat /\ MaxRestarts \in Nat

VARIABLES
  row,      \* the databases row of the name: its id and status
  attached, \* some app's attachment refers to the row
  data,     \* the data directory exists
  ctrs,     \* the containers on the data directory
  op,       \* each operation in flight: what it is, where, and what it holds
  faults, restarts,
  served    \* history, per operation: the database's container was running when it began

vars == <<row, attached, data, ctrs, op, faults, restarts, served>>

Canon == "outhaul-db-x"
Tmp == "outhaul-db-x-new"
NoId == 0
Id == 1..(Cardinality(Proc) + 3)
NoRow == [id |-> 0, status |-> "absent"]
Idle == [kind |-> "idle", at |-> "end", row |-> 0, old |-> NoId, new |-> NoId, late |-> FALSE]
rest == <<row, attached, data, restarts, served>>

Init ==
  /\ row = NoRow /\ attached = FALSE /\ data = FALSE
  /\ ctrs = {}
  /\ op = [p \in Proc |-> Idle]
  /\ faults = 0 /\ restarts = 0
  /\ served = [p \in Proc |-> FALSE]

FreshId == CHOOSE i \in Id : ~Exists(ctrs, i) /\ \A p \in Proc : i \notin {op[p].old, op[p].new}
Quiet == \A p \in Proc : op[p] = Idle
Goto(p, at) == op' = [op EXCEPT ![p].at = at]

\* An operation of kind k starts on row r, when the operator can ask for it.
Begin(p, k, r) ==
  /\ op[p] = Idle
  /\ Serial => Quiet
  /\ op' = [op EXCEPT ![p] = [Idle EXCEPT !.kind = k, !.at = "begin", !.row = r]]
  /\ served' = [served EXCEPT ![p] = Running(FindContainer(ctrs, Canon)) # {}]

At(p, k, at) == op[p].kind = k /\ op[p].at = at

\* A Docker call under the operation's context: it takes effect, the daemon
\* refuses it, or it fails or times out with or without having taken effect.  A
\* context that is over fails every later call made under it.
Call(p, possible, after, next, fallback) ==
  /\ \/ /\ ~op[p].late /\ possible
        /\ ctrs' = after /\ Goto(p, next) /\ UNCHANGED faults
     \/ /\ op[p].late \/ ~possible
        /\ Goto(p, fallback) /\ UNCHANGED <<ctrs, faults>>
     \/ /\ ~op[p].late /\ possible /\ faults < MaxFaults
        /\ faults' = faults + 1
        /\ ctrs' \in {ctrs, after}
        /\ \E l \in BOOLEAN : op' = [op EXCEPT ![p].at = fallback, ![p].late = l]
  /\ UNCHANGED rest

\* SetDatabaseStatus is an UPDATE by id: nothing when the row is gone.
Record(p, status) ==
  row' = IF row.id = op[p].row THEN [row EXCEPT !.status = status] ELSE row

SetDatabaseStatus(p, status, next, fallback) ==
  /\ IF op[p].late THEN UNCHANGED row /\ Goto(p, fallback)
     ELSE Record(p, status) /\ Goto(p, next)
  /\ UNCHANGED <<attached, data, ctrs, faults, restarts, served>>

-----------------------------------------------------------------------------
(* The HTTP handlers.  The page offers Start on a stopped database and Stop *)
(* on a running one; Apply settings and Delete always.                     *)

handleCreateDatabase(p) ==
  /\ row.status = "absent" /\ row.id < MaxRow
  /\ row' = [id |-> row.id + 1, status |-> "creating"]
  /\ Begin(p, "provision", row.id + 1)
  /\ UNCHANGED <<attached, data, ctrs, faults, restarts>>

handleDatabaseSettings(p) ==
  /\ row.status # "absent"
  /\ Begin(p, "provision", row.id)
  /\ UNCHANGED <<row, attached, data, ctrs, faults, restarts>>

handleStartDatabase(p) ==
  /\ row.status = "stopped"
  /\ Begin(p, "start", row.id)
  /\ UNCHANGED <<row, attached, data, ctrs, faults, restarts>>

handleStopDatabase(p) ==
  /\ row.status = "running"
  /\ Begin(p, "stop", row.id)
  /\ UNCHANGED <<row, attached, data, ctrs, faults, restarts>>

handleDeleteDatabase(p) ==
  /\ row.status # "absent"
  /\ Begin(p, "remove", row.id)
  /\ UNCHANGED <<row, attached, data, ctrs, faults, restarts>>

\* An app of the project attaches the database, or its attachment goes.
AttachDatabase ==
  /\ row.status # "absent" /\ ~attached
  /\ Serial => Quiet
  /\ attached' = TRUE
  /\ UNCHANGED <<row, data, ctrs, op, faults, restarts, served>>

DetachDatabase ==
  /\ attached
  /\ attached' = FALSE
  /\ UNCHANGED <<row, data, ctrs, op, faults, restarts, served>>

-----------------------------------------------------------------------------
(* Provision.                                                              *)

MarkCreating(p) ==
  At(p, "provision", "begin") /\ SetDatabaseStatus(p, "creating", "pull", "record")

PullImage(p) ==
  At(p, "provision", "pull") /\ Call(p, TRUE, ctrs, "mkdir", "record")

MkdirData(p) ==
  /\ At(p, "provision", "mkdir")
  /\ \/ data' = TRUE /\ Goto(p, "sweep") /\ UNCHANGED faults
     \/ /\ faults < MaxFaults /\ faults' = faults + 1
        /\ Goto(p, "record") /\ UNCHANGED data
  /\ UNCHANGED <<row, attached, ctrs, restarts, served>>

\* A replacement a killed provision left under the temporary name goes first.
SweepStale(p) ==
  /\ At(p, "provision", "sweep")
  /\ Call(p, TRUE, ctrs \ FindContainer(ctrs, Tmp), "find", "record")

FindExisting(p) ==
  /\ At(p, "provision", "find")
  /\ \/ /\ FindContainer(ctrs, Canon) = {}
        /\ Goto(p, "create")
     \/ \E c \in FindContainer(ctrs, Canon) :
          op' = [op EXCEPT ![p].at = "create_new", ![p].old = c.id]
  /\ UNCHANGED <<ctrs, faults>> /\ UNCHANGED rest

\* CreateContainer of the first container, or of a replacement beside the old one.
Create(p) ==
  \E name \in {Canon, Tmp} :
    /\ At(p, "provision", IF name = Canon THEN "create" ELSE "create_new")
    /\ \/ /\ ~op[p].late /\ CanCreate(ctrs, name)
          /\ ctrs' = CreateContainer(ctrs, FreshId, name)
          /\ \/ /\ op' = [op EXCEPT ![p].new = FreshId,
                                    ![p].at = IF name = Canon THEN "start" ELSE "stop_old"]
                /\ UNCHANGED faults
             \/ /\ faults < MaxFaults /\ faults' = faults + 1
                /\ \E l \in BOOLEAN : op' = [op EXCEPT ![p].at = "record", ![p].late = l]
       \/ /\ op[p].late \/ ~CanCreate(ctrs, name)
          /\ Goto(p, "record") /\ UNCHANGED <<ctrs, faults>>
    /\ UNCHANGED rest

StartFirst(p) ==
  /\ At(p, "provision", "start")
  /\ Call(p, Exists(ctrs, op[p].new), StartContainer(ctrs, op[p].new), "running", "record")

\* Mutant: the replacement starts beside the old engine, as an app's would.
StopOldLater(p) ==
  /\ At(p, "provision", "stop_old")
  /\ Goto(p, "start_new")
  /\ UNCHANGED <<ctrs, faults>> /\ UNCHANGED rest

StopOld(p) ==
  /\ At(p, "provision", "stop_old")
  /\ Call(p, Exists(ctrs, op[p].old), StopContainer(ctrs, op[p].old), "start_new", "undo")

StartNew(p) ==
  /\ At(p, "provision", "start_new")
  /\ Call(p, Exists(ctrs, op[p].new), StartContainer(ctrs, op[p].new), "remove_old", "undo")

RemoveOld(p) ==
  /\ At(p, "provision", "remove_old")
  /\ Call(p, Exists(ctrs, op[p].old), RemoveContainer(ctrs, op[p].old), "rename", "record")

RenameNew(p) ==
  /\ At(p, "provision", "rename")
  /\ Call(p, Exists(ctrs, op[p].new) /\ CanRename(ctrs, op[p].new, Canon),
          RenameContainer(ctrs, op[p].new, Canon), "running", "record")

\* The rollback is detached from the context and ignores its own errors.
BestEffort(p, at, after, next) ==
  /\ At(p, "provision", at)
  /\ \/ ctrs' = after /\ UNCHANGED faults
     \/ faults < MaxFaults /\ faults' = faults + 1 /\ UNCHANGED ctrs
  /\ Goto(p, next)
  /\ UNCHANGED rest

UndoNew(p) == BestEffort(p, "undo", RemoveContainer(ctrs, op[p].new), "restart")
\* Mutant: the rollback only takes the replacement away.
restartNothing(p) == BestEffort(p, "restart", ctrs, "record")

restartOld(p) == BestEffort(p, "restart", StartContainer(ctrs, op[p].old), "record")

MarkRunning(p) ==
  At(p, "provision", "running") /\ SetDatabaseStatus(p, "running", "end", "record")

\* The failure is recorded under the same context: not at all once it is over.
RecordFailure(p) ==
  At(p, "provision", "record") /\ SetDatabaseStatus(p, "failed", "end", "end")

provision(p) ==
  \/ MarkCreating(p) \/ PullImage(p) \/ MkdirData(p) \/ SweepStale(p) \/ FindExisting(p)
  \/ Create(p) \/ StartFirst(p) \/ StopOld(p) \/ StartNew(p) \/ RemoveOld(p) \/ RenameNew(p)
  \/ UndoNew(p) \/ restartOld(p) \/ MarkRunning(p) \/ RecordFailure(p)

-----------------------------------------------------------------------------
(* Start, Stop and Remove.                                                 *)

FindCanon(p) ==
  /\ op[p].at = "begin" /\ op[p].kind \in {"start", "stop"}
  /\ \/ /\ FindContainer(ctrs, Canon) = {}
        /\ Goto(p, IF op[p].kind = "start" THEN "end" ELSE "mark")
     \/ \E c \in FindContainer(ctrs, Canon) :
          op' = [op EXCEPT ![p].at = "act", ![p].old = c.id]
  /\ UNCHANGED <<ctrs, faults>> /\ UNCHANGED rest

Start(p) ==
  \/ /\ At(p, "start", "act")
     /\ Call(p, Exists(ctrs, op[p].old), StartContainer(ctrs, op[p].old), "mark", "end")
  \/ At(p, "start", "mark") /\ SetDatabaseStatus(p, "running", "end", "end")

Stop(p) ==
  \/ /\ At(p, "stop", "act")
     /\ Call(p, Exists(ctrs, op[p].old), StopContainer(ctrs, op[p].old), "mark", "end")
  \/ At(p, "stop", "mark") /\ SetDatabaseStatus(p, "stopped", "end", "end")

DatabaseDeletable(p) ==
  /\ At(p, "remove", "begin")
  /\ Goto(p, IF attached THEN "end" ELSE "ctr")
  /\ UNCHANGED <<ctrs, faults>> /\ UNCHANGED rest

RemoveCanon(p) ==
  /\ At(p, "remove", "ctr")
  /\ Call(p, TRUE, ctrs \ FindContainer(ctrs, Canon), "data", "end")

\* os.RemoveAll, or the daemon's helper container when that is refused.
removeData(p) ==
  /\ At(p, "remove", "data")
  /\ \/ /\ ~op[p].late /\ data' = FALSE /\ Goto(p, "row")
     \/ Goto(p, "end") /\ UNCHANGED data
  /\ UNCHANGED <<row, attached, ctrs, faults, restarts, served>>

\* DeleteDatabase asks about attachments again.
DeleteDatabase(p) ==
  /\ At(p, "remove", "row")
  /\ row' = IF ~attached /\ row.id = op[p].row THEN [row EXCEPT !.status = "absent"] ELSE row
  /\ Goto(p, "end")
  /\ UNCHANGED <<attached, data, ctrs, faults, restarts, served>>

Return(p) ==
  /\ op[p].kind # "idle" /\ op[p].at = "end"
  /\ op' = [op EXCEPT ![p] = Idle]
  /\ UNCHANGED <<ctrs, faults>> /\ UNCHANGED rest

\* The process ends and comes back: RecoverCreatingDatabases fails the rows a
\* provision left in creating; the containers are Docker's and stay.
Reboot ==
  /\ restarts < MaxRestarts
  /\ restarts' = restarts + 1
  /\ row' = IF row.status = "creating" THEN [row EXCEPT !.status = "failed"] ELSE row
  /\ op' = [p \in Proc |-> Idle]
  /\ UNCHANGED <<attached, data, ctrs, faults, served>>

Next ==
  \/ \E p \in Proc :
       \/ handleCreateDatabase(p) \/ handleDatabaseSettings(p) \/ handleStartDatabase(p)
       \/ handleStopDatabase(p) \/ handleDeleteDatabase(p)
       \/ provision(p) \/ FindCanon(p) \/ Start(p) \/ Stop(p)
       \/ DatabaseDeletable(p) \/ RemoveCanon(p) \/ removeData(p) \/ DeleteDatabase(p)
       \/ Return(p)
  \/ AttachDatabase \/ DetachDatabase \/ Reboot

DbSpec == Init /\ [][Next]_vars

-----------------------------------------------------------------------------

DbTypeOK ==
  /\ row.id \in 0..MaxRow
  /\ row.status \in {"absent", "creating", "running", "stopped", "failed"}
  /\ attached \in BOOLEAN /\ data \in BOOLEAN
  /\ \A c \in ctrs : c.id \in Id /\ c.name \in {Canon, Tmp} /\ c.up \in BOOLEAN

\* Two engines never run on one data directory: the old container stops before
\* its replacement starts, and whichever call fails or restart intervenes, what
\* the page offers next does not start the second one.  One failure is survived:
\* a start that took effect and was reported failed, and then a removal that
\* fails, leave the replacement beside the old engine restartOld starts.
OneEngine == faults <= 1 => Cardinality(Running(ctrs)) <= 1

\* A reprovision that fails does not take a working database down: when it has
\* ended, an engine still runs if the database's container ran when it began.  Again
\* one failure is survived: the rollback is best effort.
StillServed ==
  faults <= 1 => \A p \in Proc : op[p].kind = "provision" /\ op[p].at = "end" /\ served[p] => Running(ctrs) # {}

\* Deleting goes container, data, row, so that a step that fails leaves the row
\* to retry from: without a row no container keeps the database's name and no
\* data remains for a later database of the same name to come up on.
RowGoesLast == row.status = "absent" /\ Quiet => FindContainer(ctrs, Canon) = {} /\ ~data

\* One engine on the data while there is a row, and nothing once there is none, at
\* every step of a provision, a start, a stop and a removal (dbaas/manager.go).
DbInv == DbTypeOK /\ OneEngine /\ RowGoesLast

=============================================================================

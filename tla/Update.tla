------------------------------- MODULE Update -------------------------------
(***************************************************************************)
(* Updating Outhaul from its own UI.  Two programs share a directory:      *)
(* Outhaul (user outhaul) creates the file "request" and holds new work    *)
(* while an update is pending; the updater (root, started by systemd when  *)
(* the request exists) writes "status", removes the request, builds,       *)
(* swaps the binary, the unit and the database, and rolls back when the    *)
(* new version does not answer.  No lock spans the two programs: inside    *)
(* Outhaul the directory is read under one mutex, file by file.            *)
(***************************************************************************)
EXTENDS Naturals

CONSTANTS
  Click,       \* concurrent POSTs of the Update button
  Job,         \* work that must be held: deploys, scheduled and manual backups, restores
  MaxVersion,  \* bound: commits main ever has after the first
  LateClaim,   \* TRUE: the updater may start more than two minutes after the request
  MaxLosses    \* bound: power losses while the updater runs

ASSUME UpdateAssumption ==
  /\ MaxVersion \in Nat
  /\ LateClaim \in BOOLEAN
  /\ MaxLosses \in Nat

VARIABLES
  request,  \* the request file: "none", "fresh", or "stale" after two minutes
  state,    \* what the status file says; "overdue" is a run begun over 40 minutes ago
  up,       \* outhaul.service is running
  call,     \* the goroutine that holds Dir.mu, and how far it is
  click,    \* where each POST of the Update button is
  job,      \* where each piece of work is
  page,     \* what the Updates panel last polled
  stage,    \* where the updater is
  bin, unit, db,  \* the versions of the installed binary, unit file and database
  prev,     \* WORK_DIR/previous, the rollback copy
  snapOk,   \* SNAPSHOT_OK of this run
  losses,   \* power losses so far
  before    \* history: what was installed when this run began

files == <<request, state>>
outhaul == <<up, call, click, job, page>>
disk == <<bin, unit, db, prev, snapOk, losses, before>>
vars == <<files, outhaul, stage, disk>>

Version == 0..MaxVersion
Copy == [bin : Version, unit : Version, db : Version]
NoCopy == [bin |-> MaxVersion + 1]
Installed == [bin |-> bin, unit |-> unit, db |-> db]

Final == {"up_to_date", "build_failed", "updated", "rolled_back", "failed"}
Caller == Click \cup Job \cup {"tick", "page"}
NoCall == [who |-> "nobody", at |-> "idle"]

Init ==
  /\ request = "none" /\ state = "none"
  /\ up = TRUE /\ call = NoCall
  /\ click = [c \in Click |-> "idle"]
  /\ job = [j \in Job |-> "idle"]
  /\ page = "idle"
  /\ stage = "idle"
  /\ bin = 0 /\ unit = 0 /\ db = 0
  /\ prev = NoCopy /\ snapOk = FALSE /\ before = Installed /\ losses = 0

-----------------------------------------------------------------------------
(* Outhaul.  Whoever asks whether an update is in progress takes the mutex, *)
(* reads the status file and then looks at the request file.               *)

\* What an update in progress means: asked for, or taken up and not finished.
Pending == request # "none" \/ state = "running"

Lock(who) ==
  /\ up /\ call = NoCall
  /\ call' = [who |-> who, at |-> "status"]

\* The answer releases the mutex and sends its caller on.
Answer(inProgress) ==
  LET w == call.who IN
  /\ call' = IF w \in Click /\ click[w] = "free" /\ ~inProgress
             THEN [call EXCEPT !.at = "create"] ELSE NoCall
  /\ click' = IF w \notin Click THEN click
              ELSE [click EXCEPT ![w] = IF inProgress THEN "idle"
                                        ELSE IF @ = "asked" THEN "checked" ELSE @]
  /\ job' = IF w \notin Job THEN job
            ELSE [job EXCEPT ![w] = IF inProgress THEN "idle" ELSE "go"]
  /\ page' = IF w # "page" THEN page ELSE IF inProgress THEN "busy" ELSE "quiet"

ReadStatus ==
  /\ call.at = "status"
  /\ \/ state = "running" /\ Answer(TRUE)
     \/ /\ state # "running"
        /\ call' = [call EXCEPT !.at = "stat"]
        /\ UNCHANGED <<click, job, page>>
  /\ UNCHANGED <<files, up, stage, disk>>

\* Mutant: a request is pending however old it is.
StatRequestAgeless ==
  /\ call.at = "stat"
  /\ Answer(request # "none")
  /\ UNCHANGED <<files, up, stage, disk>>

StatRequest ==
  /\ call.at = "stat"
  /\ \/ request = "none" /\ Answer(FALSE)
     \/ request = "fresh" /\ Answer(TRUE)
     \/ /\ request = "stale"
        /\ call' = [call EXCEPT !.at = "remove"]
        /\ UNCHANGED <<click, job, page>>
  /\ UNCHANGED <<files, up, stage, disk>>

\* A request nobody claimed in two minutes is removed, then recorded as not
\* started; both errors are ignored.
RemoveStale ==
  /\ call.at = "remove"
  /\ request' = "none"
  /\ call' = [call EXCEPT !.at = "record"]
  /\ UNCHANGED <<state, up, click, job, page, stage, disk>>

RecordNotStarted ==
  /\ call.at = "record"
  /\ state' = "not_started"
  /\ Answer(FALSE)
  /\ UNCHANGED <<request, up, stage, disk>>

\* Request creates the file with O_EXCL, still under the mutex.
CreateRequest ==
  /\ call.at = "create"
  /\ request' = IF request = "none" THEN "fresh" ELSE request
  /\ call' = NoCall
  /\ click' = [click EXCEPT ![call.who] = "idle"]
  /\ UNCHANGED <<state, up, job, page, stage, disk>>

inProgress == ReadStatus \/ StatRequest \/ RemoveStale \/ RecordNotStarted \/ CreateRequest

\* POST /settings/update: is one in progress, is anything running, then Request.
PressUpdate(c) ==
  /\ click[c] = "idle"
  /\ Lock(c)
  /\ click' = [click EXCEPT ![c] = "asked"]
  /\ UNCHANGED <<files, up, job, page, stage, disk>>

updateBlocked(c) ==
  /\ up /\ click[c] = "checked"
  /\ click' = [click EXCEPT ![c] = IF \E j \in Job : job[j] = "running" THEN "idle" ELSE "counted"]
  /\ UNCHANGED <<files, up, call, job, page, stage, disk>>

Request(c) ==
  /\ click[c] = "counted"
  /\ Lock(c)
  /\ click' = [click EXCEPT ![c] = "free"]
  /\ UNCHANGED <<files, up, job, page, stage, disk>>

\* The worker's dispatch, the scheduler's Tick and the manual backup and restore
\* handlers ask first and start their work afterwards.
AskHold(j) ==
  /\ job[j] = "idle"
  /\ Lock(j)
  /\ job' = [job EXCEPT ![j] = "asked"]
  /\ UNCHANGED <<files, up, click, page, stage, disk>>

StartWork(j) ==
  /\ up /\ job[j] = "go"
  /\ job' = [job EXCEPT ![j] = "running"]
  /\ UNCHANGED <<files, up, call, click, page, stage, disk>>

EndWork(j) ==
  /\ up /\ job[j] = "running"
  /\ job' = [job EXCEPT ![j] = "idle"]
  /\ UNCHANGED <<files, up, call, click, page, stage, disk>>

\* A Tick with nothing due, each minute.
Tick ==
  /\ Lock("tick")
  /\ UNCHANGED <<files, up, click, job, page, stage, disk>>

\* The panel's poll asks InProgress, then reads the status under the mutex again.
PollPage ==
  /\ page \in {"idle", "running", "result", "interrupted"}
  /\ Lock("page")
  /\ page' = "asked"
  /\ UNCHANGED <<files, up, click, job, stage, disk>>

ReportPage ==
  /\ up /\ call = NoCall /\ page \in {"busy", "quiet"}
  /\ page' = CASE page = "busy" \/ state = "running" -> "running"
               [] page = "quiet" /\ state = "overdue" -> "interrupted"
               [] OTHER -> "result"
  /\ UNCHANGED <<files, up, call, click, job, stage, disk>>

\* Stopping the service ends every goroutine; recovery fails the work at boot.
Killed ==
  /\ call' = NoCall
  /\ click' = [c \in Click |-> "idle"]
  /\ job' = [j \in Job |-> "idle"]
  /\ page' = "idle"

\* Opening the database migrates it, and never back.
Migrated == IF bin > db THEN bin ELSE db

Boot == up' = TRUE /\ db' = Migrated /\ UNCHANGED <<call, click, job, page>>

-----------------------------------------------------------------------------
(* The updater.                                                            *)

\* Not being able to write the last status does not change the outcome.
Finish(s) == state' \in {state, s} /\ stage' = "idle"

\* outhaul-update.path starts the service while the request exists.
PathTrigger ==
  /\ stage = "idle"
  /\ request = "fresh" \/ (LateClaim /\ request = "stale")
  /\ stage' = "begin"
  /\ UNCHANGED <<files, outhaul, disk>>

\* Mutant: the request is taken away before the status says running.
ClaimByRemoval ==
  /\ stage = "begin"
  /\ request' = "none" /\ stage' = "claimed"
  /\ before' = Installed /\ snapOk' = FALSE
  /\ UNCHANGED <<state, outhaul, bin, unit, db, prev, losses>>

ClaimRequest ==
  /\ stage = "begin"
  /\ state' = "running" /\ stage' = "claimed"
  /\ before' = Installed /\ snapOk' = FALSE
  /\ UNCHANGED <<request, outhaul, bin, unit, db, prev, losses>>

\* The status could not be written: Outhaul would not know, so none is started.
ClaimFails ==
  /\ stage = "begin"
  /\ request' = "none" /\ stage' = "idle"
  /\ UNCHANGED <<state, outhaul, disk>>

RemoveRequest ==
  /\ stage = "claimed"
  /\ request' = "none" /\ stage' = "build"
  /\ UNCHANGED <<state, outhaul, disk>>

Build ==
  /\ stage = "build"
  /\ \/ Finish("up_to_date")
     \/ Finish("build_failed")
     \/ bin < MaxVersion /\ stage' = "stop" /\ UNCHANGED state
  /\ UNCHANGED <<request, outhaul, disk>>

StopOuthaul ==
  /\ stage = "stop"
  /\ \/ up' = FALSE /\ Killed /\ stage' = "snapshot"
     \/ UNCHANGED outhaul /\ stage' = "roll_back"
  /\ UNCHANGED <<files, disk>>

\* Built in previous.new and renamed: previous is a whole copy or absent.
Snapshot ==
  /\ stage = "snapshot"
  /\ \/ prev' = Installed /\ snapOk' = TRUE /\ stage' = "install"
     \/ prev' \in {prev, NoCopy} /\ stage' = "roll_back" /\ UNCHANGED snapOk
  /\ UNCHANGED <<files, outhaul, bin, unit, db, losses, before>>

\* The newest main is ahead of the binary, and of whatever migrated the database.
InstallBinary ==
  /\ stage = "install"
  /\ \/ /\ bin' \in {v \in Version : v > bin /\ v >= db}
        /\ stage' = "install_unit"
     \/ stage' = "roll_back" /\ UNCHANGED bin
  /\ UNCHANGED <<files, outhaul, unit, db, prev, snapOk, losses, before>>

InstallUnit ==
  /\ stage = "install_unit"
  /\ \/ unit' = bin /\ stage' = "start"
     \/ stage' = "roll_back" /\ UNCHANGED unit
  /\ UNCHANGED <<files, outhaul, bin, db, prev, snapOk, losses, before>>

\* The new version migrates the database as it opens it, healthy or not.
StartNew ==
  /\ stage = "start"
  /\ \/ up' = TRUE /\ db' = Migrated /\ Finish("updated")
     \/ /\ up' \in BOOLEAN /\ db' \in {db, Migrated}
        /\ stage' = "roll_back" /\ UNCHANGED state
  /\ UNCHANGED <<request, call, click, job, page, bin, unit, prev, snapOk, losses, before>>

\* Stopping what is already stopped is no error; systemd kills what does not stop.
RollBack ==
  /\ stage = "roll_back"
  /\ up' = FALSE /\ Killed
  /\ stage' = IF snapOk THEN "restore" ELSE "restart"
  /\ UNCHANGED <<files, disk>>

\* Mutant: the unit stays the new version's.
RestoreSnapshotNoUnit ==
  /\ stage = "restore"
  /\ bin' = prev.bin /\ db' = prev.db /\ stage' = "restart"
  /\ UNCHANGED <<files, outhaul, unit, prev, snapOk, losses, before>>

\* restore_snapshot puts the files back in this order and stops at the first it
\* cannot: a failed one is reported, and the old version started all the same.
RestoreSnapshot ==
  /\ stage = "restore"
  /\ bin' \in {bin, prev.bin}
  /\ unit' \in IF bin' = prev.bin THEN {unit, prev.unit} ELSE {unit}
  /\ db' \in IF bin' = prev.bin /\ unit' = prev.unit THEN {db, prev.db} ELSE {db}
  /\ stage' = IF <<bin', unit', db'>> = <<prev.bin, prev.unit, prev.db>>
              THEN "restart" ELSE "give_up"
  /\ UNCHANGED <<files, outhaul, prev, snapOk, losses, before>>

Restart ==
  /\ stage \in {"restart", "give_up"}
  /\ \/ Boot /\ Finish(IF stage = "restart" THEN "rolled_back" ELSE "failed")
     \/ UNCHANGED <<outhaul, db>> /\ Finish("failed")
  /\ UNCHANGED <<request, bin, unit, prev, snapOk, losses, before>>

\* Power is lost and comes back: systemd starts Outhaul, and nothing reports.
PowerLoss ==
  /\ stage # "idle" /\ losses < MaxLosses
  /\ losses' = losses + 1
  /\ stage' = "idle"
  /\ up' = TRUE /\ db' = Migrated /\ Killed
  /\ UNCHANGED <<files, bin, unit, prev, snapOk, before>>

updater ==
  \/ ClaimRequest \/ ClaimFails \/ RemoveRequest \/ Build \/ StopOuthaul \/ Snapshot
  \/ InstallBinary \/ InstallUnit \/ StartNew \/ RollBack \/ RestoreSnapshot \/ Restart

-----------------------------------------------------------------------------

\* Two minutes pass, or forty: systemd stops a run at 30 + 6 minutes, so only a
\* dead one is ever overdue.
TwoMinutes ==
  /\ request = "fresh" /\ (LateClaim \/ stage = "idle")
  /\ request' = "stale"
  /\ UNCHANGED <<state, outhaul, stage, disk>>

FortyMinutes ==
  /\ state = "running" /\ stage \in {"idle", "begin"}
  /\ state' = "overdue"
  /\ UNCHANGED <<request, outhaul, stage, disk>>

\* A failed start of the old version is followed by somebody's systemctl start.
ByHand ==
  /\ ~up /\ stage = "idle"
  /\ Boot
  /\ UNCHANGED <<files, stage, bin, unit, prev, snapOk, losses, before>>

Next ==
  \/ inProgress
  \/ \E c \in Click : PressUpdate(c) \/ updateBlocked(c) \/ Request(c)
  \/ \E j \in Job : AskHold(j) \/ StartWork(j) \/ EndWork(j)
  \/ Tick \/ PollPage \/ ReportPage
  \/ PathTrigger \/ updater \/ PowerLoss
  \/ TwoMinutes \/ FortyMinutes \/ ByHand

UpdateSpec == Init /\ [][Next]_vars

\* The scheduler ticks each minute, a goroutine that holds the mutex goes on, the
\* updater goes on, time passes.  Neither systemd nor the administrator is fair.
UpdateFairSpec ==
  /\ UpdateSpec
  /\ WF_vars(inProgress) /\ SF_vars(Tick) /\ WF_vars(updater)
  /\ WF_vars(TwoMinutes) /\ WF_vars(FortyMinutes) /\ WF_vars(ByHand)

-----------------------------------------------------------------------------

UpdateTypeOK ==
  /\ request \in {"none", "fresh", "stale"}
  /\ state \in Final \cup {"none", "running", "overdue", "not_started"}
  /\ up \in BOOLEAN
  /\ call.who \in Caller \cup {"nobody"}
  /\ call.at \in {"idle", "status", "stat", "remove", "record", "create"}
  /\ stage \in {"idle", "begin", "claimed", "build", "stop", "snapshot", "install",
                "install_unit", "start", "roll_back", "restore", "restart", "give_up"}
  /\ Installed \in Copy /\ prev \in Copy \cup {NoCopy} /\ before \in Copy

\* The updater writes "running" before it removes the request, and a stale
\* request is only recorded as not started: from the moment it is triggered to its last
\* report, one of the two files tells Outhaul to hold its work.
BusyIsVisible == stage # "idle" => Pending

\* Nothing has been installed, but for the migration of a database that an earlier run,
\* which could not put it back, had left behind its binary: any start makes it.
Unswapped ==
  /\ bin = before.bin /\ unit = before.unit
  /\ db = before.db \/ (before.db < bin /\ db = bin)

\* What the last run reported is what it left on the disk, whatever step of
\* the swap failed and in whatever order the files were put back.
ReportTellsTheTruth ==
  stage = "idle" =>
    /\ state \in {"up_to_date", "build_failed", "rolled_back"} => Unswapped
    /\ state = "updated" => bin > before.bin /\ unit = bin /\ db = bin

\* Whatever dies on the way, a request or a running status does not stand for
\* ever: the panel ends with a result and the held work goes on.
UpdateEnds ==
  /\ request # "none" ~> request = "none"
  /\ state = "running" ~> state # "running"

=============================================================================

---------------------------- MODULE DbaasProofs ----------------------------
(***************************************************************************)
(* Proofs about Dbaas, for any number of rows, failures and restarts and an *)
(* operator who waits for an operation before asking for the next.         *)
(***************************************************************************)
EXTENDS Dbaas, FiniteSetTheorems, TLAPS

-----------------------------------------------------------------------------
(* Containers by name.                                                       *)

\* A container of name n has the id i; one is up; there is one.
Holds(C, n, i) == \E c \in C : c.name = n /\ c.id = i
IsUp(C, n) == \E c \in C : c.name = n /\ c.up
Has(C, n) == \E c \in C : c.name = n

\* What the daemon guarantees: an id and a name belong to one container.
CtrOK(C) ==
  /\ C \subseteq [id : Id, name : {Canon, Tmp}, up : BOOLEAN]
  /\ \A c, d \in C : c.id = d.id \/ c.name = d.name => c = d

-----------------------------------------------------------------------------
(* The invariant.                                                            *)

Operation ==
  [kind : {"idle", "provision", "start", "stop", "remove"},
   at : {"begin", "pull", "mkdir", "sweep", "find", "create", "create_new", "start", "stop_old",
         "start_new", "remove_old", "rename", "undo", "restart", "running", "record", "act",
         "mark", "ctr", "data", "row", "end"},
   row : Nat, old : Nat, new : Nat, late : BOOLEAN]

DbTypes ==
  /\ row \in [id : 0..MaxRow, status : {"absent", "creating", "running", "stopped", "failed"}]
  /\ attached \in BOOLEAN /\ data \in BOOLEAN
  /\ CtrOK(ctrs)
  /\ op \in [Proc -> Operation] /\ \A p \in Proc : op[p].kind = "idle" => op[p] = Idle
  /\ faults \in Nat /\ served \in [Proc -> BOOLEAN]

\* One operation at a time, on the row there is.
OneAtATime ==
  /\ \A p, q \in Proc : op[p] # Idle /\ op[q] # Idle => p = q
  /\ \A p \in Proc : op[p] # Idle => op[p].row = row.id

\* A replacement lies about only while the row says that something went wrong, and a row
\* goes when nothing is left of the database.
RowTells ==
  /\ Has(ctrs, Tmp) => row.status \in {"creating", "failed", "absent"}
  /\ row.status = "absent" =>
       /\ ~Has(ctrs, Canon) /\ ~data
       /\ \A p \in Proc : op[p] = Idle \/ (op[p].kind = "remove" /\ op[p].at = "end")

\* What a provision knows of the containers, by its place.
Provisioning(p) ==
  LET at == op[p].at
      old == op[p].old
      new == op[p].new
  IN op[p].kind = "provision" =>
     /\ at \notin {"act", "mark", "ctr", "data", "row"}
     /\ at \notin {"begin", "end"} => row.status = "creating"
     /\ at \notin {"undo", "restart", "record", "end"} => ~op[p].late
     /\ at \in {"undo", "restart"} => faults >= 1
     /\ at \in {"find", "create", "create_new", "start", "running"} => ~Has(ctrs, Tmp)
     /\ at \in {"create", "rename"} => ~Has(ctrs, Canon)
     /\ at \in {"create_new", "stop_old", "start_new", "remove_old", "undo", "restart"}
          => Holds(ctrs, Canon, old)
     /\ at = "start" => Holds(ctrs, Canon, new)
     /\ at \in {"stop_old", "start_new", "remove_old", "undo", "rename"} => Holds(ctrs, Tmp, new)
     /\ at \in {"start_new", "remove_old"} => ~IsUp(ctrs, Canon)
     /\ at = "stop_old" => ~IsUp(ctrs, Tmp)
     /\ at \in {"remove_old", "rename"} => IsUp(ctrs, Tmp)
     /\ at = "running" => IsUp(ctrs, Canon)
     /\ at = "restart" /\ faults <= 1 => ~Has(ctrs, Tmp)

\* A database that ran when its provision began: where it may be down on the way.
Serving(p) ==
  LET at == op[p].at
  IN op[p].kind = "provision" /\ served[p] /\ faults <= 1 =>
     /\ at \notin {"create", "start"}
     /\ at \in {"begin", "pull", "mkdir", "sweep", "find", "create_new", "stop_old"}
          => IsUp(ctrs, Canon)
     /\ at \in {"record", "end"} => IsUp(ctrs, Canon) \/ IsUp(ctrs, Tmp)

\* What a start, a stop and a removal know.
Acting(p) ==
  LET at == op[p].at
  IN /\ op[p].kind \in {"start", "stop"} =>
          /\ at \in {"begin", "act", "mark", "end"}
          /\ at # "end" => row.status \in {"running", "stopped"}
     /\ op[p].kind = "remove" =>
          /\ at \in {"begin", "ctr", "data", "row", "end"}
          /\ at \in {"data", "row"} => ~Has(ctrs, Canon)
          /\ at = "row" => ~data

NotTwo == faults <= 1 => ~(IsUp(ctrs, Canon) /\ IsUp(ctrs, Tmp))

\* The inductive invariant.
DbIInv ==
  /\ DbTypes /\ OneAtATime /\ RowTells /\ NotTwo
  /\ \A p \in Proc : Provisioning(p) /\ Serving(p) /\ Acting(p)

-----------------------------------------------------------------------------
(* The daemon's operations.                                                  *)

\* An id has one name and a name one id.
LEMMA OneName ==
  ASSUME NEW C, CtrOK(C)
  PROVE  /\ \A m, n, i, j : Holds(C, m, i) /\ Holds(C, n, j) => (m = n <=> i = j)
         /\ \A n, i : Holds(C, n, i) => Has(C, n) /\ i \in Id /\ n \in {Canon, Tmp}
         /\ \A n : IsUp(C, n) => Has(C, n)
         /\ \A n : Has(C, n) <=> FindContainer(C, n) # {}
         /\ \A i : Exists(C, i) <=> Holds(C, Canon, i) \/ Holds(C, Tmp, i)
<1>1. C \subseteq [id : Id, name : {Canon, Tmp}, up : BOOLEAN]
      /\ \A c, d \in C : c.id = d.id \/ c.name = d.name => c = d
  BY DEF CtrOK
<1> QED
  BY <1>1 DEF Holds, IsUp, Has, FindContainer, Exists

\* Starting or stopping a container changes nothing of another.
LEMMA SetOne ==
  ASSUME NEW C, CtrOK(C), NEW i, NEW up \in BOOLEAN
  PROVE  /\ CtrOK(Set(C, i, up))
         /\ \A n, j : Holds(Set(C, i, up), n, j) <=> Holds(C, n, j)
         /\ \A n : Has(Set(C, i, up), n) <=> Has(C, n)
         /\ \A n : IsUp(Set(C, i, up), n) <=> IF Holds(C, n, i) THEN up = TRUE ELSE IsUp(C, n)
<1> DEFINE R == [id : Id, name : {Canon, Tmp}, up : BOOLEAN]
           g(c) == IF c.id = i THEN [c EXCEPT !.up = up] ELSE c
           S == Set(C, i, up)
<1>1. C \subseteq R /\ \A c, d \in C : c.id = d.id \/ c.name = d.name => c = d
  BY DEF CtrOK
<1>2. \A c \in C : /\ g(c) \in R /\ g(c).id = c.id /\ g(c).name = c.name
                   /\ g(c).up = IF c.id = i THEN up ELSE c.up
  BY <1>1
<1>3. S = {g(c) : c \in C}
  BY DEF Set
<1> HIDE DEF g, S
<1>4. (\A d \in S : \E c \in C : d = g(c)) /\ \A c \in C : g(c) \in S
  BY <1>3
<1>5. CtrOK(S)
  <2>1. S \subseteq R
    BY <1>2, <1>4
  <2>2. \A c, d \in S : c.id = d.id \/ c.name = d.name => c = d
    <3> SUFFICES ASSUME NEW c \in S, NEW d \in S, c.id = d.id \/ c.name = d.name PROVE c = d
      OBVIOUS
    <3>1. PICK c1 \in C : c = g(c1)
      BY <1>4
    <3>2. PICK d1 \in C : d = g(d1)
      BY <1>4
    <3>3. c1 = d1
      BY <3>1, <3>2, <1>1, <1>2
    <3> QED
      BY <3>1, <3>2, <3>3
  <2> QED
    BY <2>1, <2>2 DEF CtrOK
<1>6. \A n, j : Holds(S, n, j) <=> Holds(C, n, j)
  BY <1>2, <1>4 DEF Holds
<1>7. \A n : Has(S, n) <=> Has(C, n)
  BY <1>2, <1>4 DEF Has
<1>8. ASSUME NEW n PROVE IsUp(S, n) <=> IF Holds(C, n, i) THEN up = TRUE ELSE IsUp(C, n)
  <2>1. IsUp(S, n) <=> \E c \in C : c.name = n /\ IF c.id = i THEN up ELSE c.up
    BY <1>2, <1>4 DEF IsUp
  <2>2. CASE Holds(C, n, i)
    <3>1. PICK c \in C : c.name = n /\ c.id = i
      BY <2>2 DEF Holds
    <3>2. \A d \in C : d.name = n => d = c
      BY <3>1, <1>1
    <3> QED
      BY <2>1, <2>2, <3>1, <3>2
  <2>3. CASE ~Holds(C, n, i)
    BY <2>1, <2>3 DEF Holds, IsUp
  <2> QED
    BY <2>2, <2>3
<1> QED
  BY <1>5, <1>6, <1>7, <1>8 DEF S

\* StartContainer changes the state of one container.
LEMMA StartOne ==
  ASSUME NEW C, CtrOK(C), NEW i
  PROVE  /\ CtrOK(StartContainer(C, i))
         /\ \A n, j : Holds(StartContainer(C, i), n, j) <=> Holds(C, n, j)
         /\ \A n : Has(StartContainer(C, i), n) <=> Has(C, n)
         /\ \A n : IsUp(StartContainer(C, i), n) <=> Holds(C, n, i) \/ IsUp(C, n)
  BY SetOne, TRUE \in BOOLEAN DEF StartContainer

\* StopContainer changes the state of one container.
LEMMA StopOne ==
  ASSUME NEW C, CtrOK(C), NEW i
  PROVE  /\ CtrOK(StopContainer(C, i))
         /\ \A n, j : Holds(StopContainer(C, i), n, j) <=> Holds(C, n, j)
         /\ \A n : Has(StopContainer(C, i), n) <=> Has(C, n)
         /\ \A n : IsUp(StopContainer(C, i), n) <=> ~Holds(C, n, i) /\ IsUp(C, n)
  BY SetOne, FALSE \in BOOLEAN DEF StopContainer

\* Taking containers away.
LEMMA Fewer ==
  ASSUME NEW C, CtrOK(C), NEW D \in SUBSET C
  PROVE  CtrOK(D) /\ (\A n, j : Holds(D, n, j) => Holds(C, n, j))
         /\ (\A n : Has(D, n) => Has(C, n)) /\ (\A n : IsUp(D, n) => IsUp(C, n))
  BY DEF CtrOK, Holds, Has, IsUp

\* RemoveContainer takes one container away.
LEMMA RemoveOne ==
  ASSUME NEW C, CtrOK(C), NEW i
  PROVE  /\ RemoveContainer(C, i) \in SUBSET C
         /\ \A n : Holds(C, n, i) => ~Has(RemoveContainer(C, i), n)
         /\ \A n, j : Holds(C, n, j) /\ j # i => Holds(RemoveContainer(C, i), n, j)
         /\ \A n : IsUp(C, n) /\ ~Holds(C, n, i) => IsUp(RemoveContainer(C, i), n)
  BY DEF RemoveContainer, CtrOK, Holds, Has, IsUp

\* A removal by name takes what has the name away.
LEMMA RemoveNamed ==
  ASSUME NEW C, CtrOK(C), NEW n
  PROVE  /\ C \ FindContainer(C, n) \in SUBSET C
         /\ ~Has(C \ FindContainer(C, n), n)
         /\ \A m : m # n /\ IsUp(C, m) => IsUp(C \ FindContainer(C, n), m)
  BY DEF FindContainer, Has, IsUp

\* CreateContainer adds one container, which does not run.
LEMMA CreateOne ==
  ASSUME NEW C, CtrOK(C), NEW n \in {Canon, Tmp}, ~Has(C, n), NEW i \in Id, ~Exists(C, i)
  PROVE  /\ CtrOK(CreateContainer(C, i, n))
         /\ \A m, j : Holds(CreateContainer(C, i, n), m, j) <=> Holds(C, m, j) \/ (m = n /\ j = i)
         /\ \A m : Has(CreateContainer(C, i, n), m) <=> Has(C, m) \/ m = n
         /\ \A m : IsUp(CreateContainer(C, i, n), m) <=> IsUp(C, m)
<1> DEFINE c == [id |-> i, name |-> n, up |-> FALSE]
<1>1. c \in [id : Id, name : {Canon, Tmp}, up : BOOLEAN] /\ c.id = i /\ c.name = n /\ ~c.up
  OBVIOUS
<1>2. CreateContainer(C, i, n) = C \cup {c}
  BY DEF CreateContainer
<1> HIDE DEF c
<1>3. \A d \in C : d.id # i /\ d.name # n
  BY DEF Has, Exists
<1>4. CtrOK(C \cup {c})
  BY <1>1, <1>3 DEF CtrOK
<1> QED
  BY <1>1, <1>2, <1>4 DEF Holds, Has, IsUp

\* RenameContainer gives one container another name.
LEMMA RenameOne ==
  ASSUME NEW C, CtrOK(C), NEW i, Holds(C, Tmp, i), ~Has(C, Canon)
  PROVE  /\ CtrOK(RenameContainer(C, i, Canon)) /\ ~Has(RenameContainer(C, i, Canon), Tmp)
         /\ IsUp(RenameContainer(C, i, Canon), Canon) <=> IsUp(C, Tmp)
<1> DEFINE R == [id : Id, name : {Canon, Tmp}, up : BOOLEAN]
<1>1. C \subseteq R /\ \A c, d \in C : c.id = d.id \/ c.name = d.name => c = d
  BY DEF CtrOK
<1>2. PICK c \in C : c.name = Tmp /\ c.id = i
  BY DEF Holds
<1>3. \A d \in C : d = c
  BY <1>1, <1>2 DEF Has
<1>4. C = {c}
  BY <1>2, <1>3
<1> DEFINE d == [c EXCEPT !.name = Canon]
<1>5. RenameContainer(C, i, Canon) = {d}
  BY <1>2, <1>4 DEF RenameContainer
<1>6. d \in R /\ d.name = Canon /\ d.up = c.up
  BY <1>1, <1>2
<1>7. Canon # Tmp
  BY DEF Canon, Tmp
<1> HIDE DEF d
<1> QED
  BY <1>2, <1>4, <1>5, <1>6, <1>7 DEF CtrOK, Has, IsUp

\* The replacement's name is another one.
LEMMA Names == Canon # Tmp
  BY DEF Canon, Tmp

-----------------------------------------------------------------------------
(* Steps of an operation in flight.                                          *)

\* While an operation runs nothing else does, so that a step of it keeps the invariant
\* when it keeps what the row and the containers say of it.
LEMMA StepKeeps ==
  ASSUME DbIInv, NEW p \in Proc, op[p] # Idle,
         op' \in [Proc -> Operation], \A q \in Proc \ {p} : op'[q] = op[q],
         op'[p].kind = op[p].kind, op'[p].row = op[p].row,
         row' \in [id : 0..MaxRow, status : {"absent", "creating", "running", "stopped", "failed"}],
         row'.id = row.id, attached' \in BOOLEAN, data' \in BOOLEAN, CtrOK(ctrs'), faults' \in Nat,
         served' = served, RowTells', NotTwo', Provisioning(p)', Serving(p)', Acting(p)'
  PROVE  DbIInv'
<1>1. \A q \in Proc \ {p} : op'[q] = Idle
  BY DEF DbIInv, OneAtATime
<1>2. op[p].kind # "idle"
  BY DEF DbIInv, DbTypes
<1>3. Idle.kind = "idle"
  BY DEF Idle
<1>4. DbTypes'
  BY <1>1, <1>2 DEF DbIInv, DbTypes
<1>5. OneAtATime'
  BY <1>1 DEF DbIInv, OneAtATime
<1>6. \A q \in Proc : Provisioning(q)' /\ Serving(q)' /\ Acting(q)'
  <2> SUFFICES ASSUME NEW q \in Proc \ {p} PROVE Provisioning(q)' /\ Serving(q)' /\ Acting(q)'
    OBVIOUS
  <2>1. op'[q].kind = "idle"
    BY <1>1, <1>3
  <2> QED
    BY <2>1 DEF Provisioning, Serving, Acting
<1> QED
  BY <1>4, <1>5, <1>6 DEF DbIInv

Places == {"begin", "pull", "mkdir", "sweep", "find", "create", "create_new", "start", "stop_old",
  "start_new", "remove_old", "rename", "undo", "restart", "running", "record", "act",
  "mark", "ctr", "data", "row", "end"}

\* A step to another place of the operation, and nothing else of it.
LEMMA GotoOnly ==
  ASSUME DbIInv, NEW p \in Proc, NEW at \in Places, Goto(p, at)
  PROVE  /\ op' \in [Proc -> Operation] /\ \A q \in Proc \ {p} : op'[q] = op[q]
         /\ op'[p].at = at /\ op'[p].kind = op[p].kind /\ op'[p].row = op[p].row
         /\ op'[p].old = op[p].old /\ op'[p].new = op[p].new /\ op'[p].late = op[p].late
<1>1. op \in [Proc -> Operation]
  BY DEF DbIInv, DbTypes
<1>2. [op[p] EXCEPT !.at = at] \in Operation
  BY <1>1 DEF Operation, Places
<1>3. op' = [op EXCEPT ![p] = [op[p] EXCEPT !.at = at]]
  BY DEF Goto
<1>4. op'[p] = [op[p] EXCEPT !.at = at]
  BY <1>1, <1>3
<1> QED
  BY <1>1, <1>2, <1>3, <1>4 DEF Operation

\* A step that notes an id, or that its time may be over, beside its place.
LEMMA OperationWritten ==
  ASSUME NEW o \in Operation, NEW at \in Places, NEW n \in Nat, NEW l \in BOOLEAN
  PROVE  /\ [o EXCEPT !.new = n, !.at = at] \in Operation
         /\ [o EXCEPT !.at = at, !.old = n] \in Operation
         /\ [o EXCEPT !.at = at, !.late = l] \in Operation
<1>1. Operation = [kind : {"idle", "provision", "start", "stop", "remove"}, at : Places,
                   row : Nat, old : Nat, new : Nat, late : BOOLEAN]
  BY DEF Operation, Places
<1> QED
  BY <1>1

\* A step to another place, after which the operation's time may be over.
LEMMA GotoLate ==
  ASSUME DbIInv, NEW p \in Proc, NEW at \in Places, NEW l \in BOOLEAN,
         op' = [op EXCEPT ![p].at = at, ![p].late = l]
  PROVE  /\ op' \in [Proc -> Operation] /\ \A q \in Proc \ {p} : op'[q] = op[q]
         /\ op'[p].at = at /\ op'[p].kind = op[p].kind /\ op'[p].row = op[p].row
         /\ op'[p].old = op[p].old /\ op'[p].new = op[p].new
<1>1. op \in [Proc -> Operation]
  BY DEF DbIInv, DbTypes
<1>2. [op[p] EXCEPT !.at = at, !.late = l] \in Operation
  <2>1. op[p] \in Operation /\ 0 \in Nat
    BY <1>1
  <2> QED
    BY <2>1, OperationWritten
<1>3. op' = [op EXCEPT ![p] = [op[p] EXCEPT !.at = at, !.late = l]]
  BY <1>1
<1>4. op'[p] = [op[p] EXCEPT !.at = at, !.late = l]
  BY <1>1, <1>3
<1> QED
  BY <1>1, <1>2, <1>3, <1>4 DEF Operation

\* A step of a provision: the row stays in creating.
LEMMA ProvisionKeeps ==
  ASSUME DbIInv, NEW p \in Proc, op[p].kind = "provision", op[p].at \notin {"begin", "end"},
         op' \in [Proc -> Operation], \A q \in Proc \ {p} : op'[q] = op[q],
         op'[p].kind = op[p].kind, op'[p].row = op[p].row,
         row' = row, attached' = attached, served' = served,
         data' \in BOOLEAN, CtrOK(ctrs'), faults' \in Nat,
         NotTwo', Provisioning(p)', Serving(p)'
  PROVE  DbIInv'
<1>1. op[p] # Idle
  BY DEF Idle
<1>2. row.status = "creating"
  BY DEF DbIInv, Provisioning
<1>3. RowTells'
  BY <1>2 DEF RowTells
<1>4. Acting(p)'
  BY DEF Acting
<1>5. /\ row' \in [id : 0..MaxRow, status : {"absent", "creating", "running", "stopped", "failed"}]
      /\ row'.id = row.id /\ attached' \in BOOLEAN
  BY DEF DbIInv, DbTypes
<1> QED
  BY <1>1, <1>3, <1>4, <1>5, StepKeeps

\* Pulling an image touches no container.
LEMMA PullImageKeeps == ASSUME DbIInv, NEW p \in Proc, PullImage(p) PROVE DbIInv'
<1> DEFINE after == ctrs
<1>1. /\ op[p].kind = "provision" /\ op[p].at = "pull"
      /\ Call(p, TRUE, after, "mkdir", "record")
  BY DEF PullImage, At
<1>2. CtrOK(ctrs) /\ faults \in Nat /\ data \in BOOLEAN
  BY DEF DbIInv, DbTypes
<1>3. Provisioning(p) /\ Serving(p) /\ NotTwo
  BY DEF DbIInv
<1>4. CtrOK(after)
  BY <1>2
<1>5. row.status = "creating" /\ ~op[p].late
  BY <1>1, <1>3 DEF Provisioning
<1>6. \/ ctrs' = after /\ Goto(p, "mkdir") /\ faults' = faults
      \/ /\ faults' = faults + 1 /\ ctrs' \in {ctrs, after}
         /\ \E l \in BOOLEAN : op' = [op EXCEPT ![p].at = "record", ![p].late = l]
  BY <1>1, <1>5 DEF Call
<1>7. UNCHANGED <<row, attached, data, served>>
  BY <1>1 DEF Call, rest
<1>8. /\ op' \in [Proc -> Operation] /\ \A q \in Proc \ {p} : op'[q] = op[q]
      /\ op'[p].kind = op[p].kind /\ op'[p].row = op[p].row
      /\ op'[p].old = op[p].old /\ op'[p].new = op[p].new
      /\ \/ /\ ctrs' = after /\ op'[p].at = "mkdir"
            /\ op'[p].late = op[p].late /\ faults' = faults
         \/ faults' = faults + 1 /\ ctrs' \in {ctrs, after} /\ op'[p].at = "record"
  <2>1. CASE ctrs' = after /\ Goto(p, "mkdir") /\ faults' = faults
    <3>1. "mkdir" \in Places
      BY DEF Places
    <3> QED
      BY <2>1, <3>1, GotoOnly
  <2>2. CASE /\ faults' = faults + 1 /\ ctrs' \in {ctrs, after}
             /\ \E l \in BOOLEAN : op' = [op EXCEPT ![p].at = "record", ![p].late = l]
    <3>1. PICK l \in BOOLEAN : op' = [op EXCEPT ![p].at = "record", ![p].late = l]
      BY <2>2
    <3>2. "record" \in Places
      BY DEF Places
    <3> QED
      BY <2>2, <3>1, <3>2, GotoLate
  <2> QED
    BY <1>6, <2>1, <2>2
<1>9. CtrOK(ctrs') /\ faults' \in Nat /\ (faults' <= 1 => faults <= 1)
  <2>1. ctrs' = ctrs
    BY <1>8
  <2>2. faults' \in Nat /\ (faults' <= 1 => faults <= 1)
    BY <1>2, <1>8
  <2> QED
    BY <2>1, <2>2, <1>2
<1>10. NotTwo'
  BY <1>3, <1>5, <1>8, <1>9 DEF NotTwo
<1>11. Provisioning(p)'
  BY <1>1, <1>2, <1>3, <1>5, <1>7, <1>8, <1>9 DEF Provisioning
<1>12. Serving(p)'
  BY <1>1, <1>3, <1>5, <1>7, <1>8, <1>9 DEF Serving
<1> QED
  BY <1>1, <1>2, <1>7, <1>8, <1>9, <1>10, <1>11, <1>12, ProvisionKeeps

\* The stale replacement goes; the database's own container stays.
LEMMA SweepStaleKeeps == ASSUME DbIInv, NEW p \in Proc, SweepStale(p) PROVE DbIInv'
<1> DEFINE after == ctrs \ FindContainer(ctrs, Tmp)
<1>1. /\ op[p].kind = "provision" /\ op[p].at = "sweep"
      /\ Call(p, TRUE, after, "find", "record")
  BY DEF SweepStale, At
<1>2. CtrOK(ctrs) /\ faults \in Nat /\ data \in BOOLEAN
  BY DEF DbIInv, DbTypes
<1>3. Provisioning(p) /\ Serving(p) /\ NotTwo
  BY DEF DbIInv
<1>4. CtrOK(after)
  BY <1>2, RemoveNamed, Fewer
<1>5. /\ row.status = "creating" /\ ~op[p].late /\ ~Has(after, Tmp)
      /\ IsUp(after, Canon) <=> IsUp(ctrs, Canon)
      /\ IsUp(after, Tmp) => IsUp(ctrs, Tmp)
  BY <1>1, <1>2, <1>3, Names, RemoveNamed, Fewer DEF Provisioning
<1>6. \/ ctrs' = after /\ Goto(p, "find") /\ faults' = faults
      \/ /\ faults' = faults + 1 /\ ctrs' \in {ctrs, after}
         /\ \E l \in BOOLEAN : op' = [op EXCEPT ![p].at = "record", ![p].late = l]
  BY <1>1, <1>5 DEF Call
<1>7. UNCHANGED <<row, attached, data, served>>
  BY <1>1 DEF Call, rest
<1>8. /\ op' \in [Proc -> Operation] /\ \A q \in Proc \ {p} : op'[q] = op[q]
      /\ op'[p].kind = op[p].kind /\ op'[p].row = op[p].row
      /\ op'[p].old = op[p].old /\ op'[p].new = op[p].new
      /\ \/ /\ ctrs' = after /\ op'[p].at = "find"
            /\ op'[p].late = op[p].late /\ faults' = faults
         \/ faults' = faults + 1 /\ ctrs' \in {ctrs, after} /\ op'[p].at = "record"
  <2>1. CASE ctrs' = after /\ Goto(p, "find") /\ faults' = faults
    <3>1. "find" \in Places
      BY DEF Places
    <3> QED
      BY <2>1, <3>1, GotoOnly
  <2>2. CASE /\ faults' = faults + 1 /\ ctrs' \in {ctrs, after}
             /\ \E l \in BOOLEAN : op' = [op EXCEPT ![p].at = "record", ![p].late = l]
    <3>1. PICK l \in BOOLEAN : op' = [op EXCEPT ![p].at = "record", ![p].late = l]
      BY <2>2
    <3>2. "record" \in Places
      BY DEF Places
    <3> QED
      BY <2>2, <3>1, <3>2, GotoLate
  <2> QED
    BY <1>6, <2>1, <2>2
<1> HIDE DEF after
<1>9. CtrOK(ctrs') /\ faults' \in Nat /\ (faults' <= 1 => faults <= 1)
  <2>1. ctrs' = ctrs \/ ctrs' = after
    BY <1>8
  <2>2. faults' \in Nat /\ (faults' <= 1 => faults <= 1)
    BY <1>2, <1>8
  <2> QED
    BY <2>1, <2>2, <1>2, <1>4
<1>10. NotTwo'
  BY <1>3, <1>5, <1>8, <1>9 DEF NotTwo
<1>11. Provisioning(p)'
  BY <1>1, <1>2, <1>3, <1>5, <1>7, <1>8, <1>9 DEF Provisioning
<1>12. Serving(p)'
  BY <1>1, <1>3, <1>5, <1>7, <1>8, <1>9 DEF Serving
<1> QED
  BY <1>1, <1>2, <1>7, <1>8, <1>9, <1>10, <1>11, <1>12, ProvisionKeeps

\* The first container of the database starts.
LEMMA StartFirstKeeps == ASSUME DbIInv, NEW p \in Proc, StartFirst(p) PROVE DbIInv'
<1> DEFINE after == StartContainer(ctrs, op[p].new)
<1>1. /\ op[p].kind = "provision" /\ op[p].at = "start"
      /\ Call(p, Exists(ctrs, op[p].new), after, "running", "record")
  BY DEF StartFirst, At
<1>2. CtrOK(ctrs) /\ faults \in Nat /\ data \in BOOLEAN
  BY DEF DbIInv, DbTypes
<1>3. Provisioning(p) /\ Serving(p) /\ NotTwo
  BY DEF DbIInv
<1>4. CtrOK(after)
  BY <1>2, StartOne
<1>5. /\ row.status = "creating" /\ ~op[p].late
      /\ Exists(ctrs, op[p].new) /\ ~Has(ctrs, Tmp) /\ ~Has(after, Tmp)
      /\ ~IsUp(ctrs, Tmp) /\ ~IsUp(after, Tmp) /\ IsUp(after, Canon)
  BY <1>1, <1>2, <1>3, StartOne, OneName DEF Provisioning
<1>6. \/ ctrs' = after /\ Goto(p, "running") /\ faults' = faults
      \/ /\ faults' = faults + 1 /\ ctrs' \in {ctrs, after}
         /\ \E l \in BOOLEAN : op' = [op EXCEPT ![p].at = "record", ![p].late = l]
  BY <1>1, <1>5 DEF Call
<1>7. UNCHANGED <<row, attached, data, served>>
  BY <1>1 DEF Call, rest
<1>8. /\ op' \in [Proc -> Operation] /\ \A q \in Proc \ {p} : op'[q] = op[q]
      /\ op'[p].kind = op[p].kind /\ op'[p].row = op[p].row
      /\ op'[p].old = op[p].old /\ op'[p].new = op[p].new
      /\ \/ /\ ctrs' = after /\ op'[p].at = "running"
            /\ op'[p].late = op[p].late /\ faults' = faults
         \/ faults' = faults + 1 /\ ctrs' \in {ctrs, after} /\ op'[p].at = "record"
  <2>1. CASE ctrs' = after /\ Goto(p, "running") /\ faults' = faults
    <3>1. "running" \in Places
      BY DEF Places
    <3> QED
      BY <2>1, <3>1, GotoOnly
  <2>2. CASE /\ faults' = faults + 1 /\ ctrs' \in {ctrs, after}
             /\ \E l \in BOOLEAN : op' = [op EXCEPT ![p].at = "record", ![p].late = l]
    <3>1. PICK l \in BOOLEAN : op' = [op EXCEPT ![p].at = "record", ![p].late = l]
      BY <2>2
    <3>2. "record" \in Places
      BY DEF Places
    <3> QED
      BY <2>2, <3>1, <3>2, GotoLate
  <2> QED
    BY <1>6, <2>1, <2>2
<1>9. CtrOK(ctrs') /\ faults' \in Nat /\ (faults' <= 1 => faults <= 1)
  BY <1>2, <1>4, <1>8
<1>10. NotTwo'
  BY <1>3, <1>5, <1>8, <1>9 DEF NotTwo
<1>11. Provisioning(p)'
  BY <1>1, <1>2, <1>3, <1>5, <1>7, <1>8, <1>9 DEF Provisioning
<1>12. Serving(p)'
  BY <1>1, <1>3, <1>5, <1>7, <1>8, <1>9 DEF Serving
<1> QED
  BY <1>1, <1>2, <1>7, <1>8, <1>9, <1>10, <1>11, <1>12, ProvisionKeeps

\* The old engine stops before its replacement starts.
LEMMA StopOldKeeps == ASSUME DbIInv, NEW p \in Proc, StopOld(p) PROVE DbIInv'
<1> DEFINE after == StopContainer(ctrs, op[p].old)
<1>1. /\ op[p].kind = "provision" /\ op[p].at = "stop_old"
      /\ Call(p, Exists(ctrs, op[p].old), after, "start_new", "undo")
  BY DEF StopOld, At
<1>2. CtrOK(ctrs) /\ faults \in Nat /\ data \in BOOLEAN
  BY DEF DbIInv, DbTypes
<1>3. Provisioning(p) /\ Serving(p) /\ NotTwo
  BY DEF DbIInv
<1>4. CtrOK(after)
  BY <1>2, StopOne
<1>5. /\ row.status = "creating" /\ ~op[p].late
      /\ Holds(ctrs, Canon, op[p].old) /\ Holds(ctrs, Tmp, op[p].new) /\ Exists(ctrs, op[p].old)
      /\ Holds(after, Canon, op[p].old) /\ Holds(after, Tmp, op[p].new)
      /\ ~IsUp(ctrs, Tmp) /\ ~IsUp(after, Tmp) /\ ~IsUp(after, Canon)
  <2>1. /\ row.status = "creating" /\ ~op[p].late
        /\ Holds(ctrs, Canon, op[p].old) /\ Holds(ctrs, Tmp, op[p].new) /\ ~IsUp(ctrs, Tmp)
    BY <1>1, <1>3 DEF Provisioning
  <2>2. ~Holds(ctrs, Tmp, op[p].old) /\ Exists(ctrs, op[p].old)
    BY <2>1, <1>2, OneName, Names
  <2> QED
    BY <2>1, <2>2, <1>2, StopOne
<1>6. \/ ctrs' = after /\ Goto(p, "start_new") /\ faults' = faults
      \/ /\ faults' = faults + 1 /\ ctrs' \in {ctrs, after}
         /\ \E l \in BOOLEAN : op' = [op EXCEPT ![p].at = "undo", ![p].late = l]
  BY <1>1, <1>5 DEF Call
<1>7. UNCHANGED <<row, attached, data, served>>
  BY <1>1 DEF Call, rest
<1>8. /\ op' \in [Proc -> Operation] /\ \A q \in Proc \ {p} : op'[q] = op[q]
      /\ op'[p].kind = op[p].kind /\ op'[p].row = op[p].row
      /\ op'[p].old = op[p].old /\ op'[p].new = op[p].new
      /\ \/ /\ ctrs' = after /\ op'[p].at = "start_new"
            /\ op'[p].late = op[p].late /\ faults' = faults
         \/ faults' = faults + 1 /\ ctrs' \in {ctrs, after} /\ op'[p].at = "undo"
  <2>1. CASE ctrs' = after /\ Goto(p, "start_new") /\ faults' = faults
    <3>1. "start_new" \in Places
      BY DEF Places
    <3> QED
      BY <2>1, <3>1, GotoOnly
  <2>2. CASE /\ faults' = faults + 1 /\ ctrs' \in {ctrs, after}
             /\ \E l \in BOOLEAN : op' = [op EXCEPT ![p].at = "undo", ![p].late = l]
    <3>1. PICK l \in BOOLEAN : op' = [op EXCEPT ![p].at = "undo", ![p].late = l]
      BY <2>2
    <3>2. "undo" \in Places
      BY DEF Places
    <3> QED
      BY <2>2, <3>1, <3>2, GotoLate
  <2> QED
    BY <1>6, <2>1, <2>2
<1>9. CtrOK(ctrs') /\ faults' \in Nat /\ (faults' <= 1 => faults <= 1)
  BY <1>2, <1>4, <1>8
<1>10. NotTwo'
  BY <1>3, <1>5, <1>8, <1>9 DEF NotTwo
<1>11. Provisioning(p)'
  BY <1>1, <1>2, <1>3, <1>5, <1>7, <1>8, <1>9 DEF Provisioning
<1>12. Serving(p)'
  BY <1>1, <1>3, <1>5, <1>7, <1>8, <1>9 DEF Serving
<1> QED
  BY <1>1, <1>2, <1>7, <1>8, <1>9, <1>10, <1>11, <1>12, ProvisionKeeps

\* The replacement starts on data no engine runs on.
LEMMA StartNewKeeps == ASSUME DbIInv, NEW p \in Proc, StartNew(p) PROVE DbIInv'
<1> DEFINE after == StartContainer(ctrs, op[p].new)
<1>1. /\ op[p].kind = "provision" /\ op[p].at = "start_new"
      /\ Call(p, Exists(ctrs, op[p].new), after, "remove_old", "undo")
  BY DEF StartNew, At
<1>2. CtrOK(ctrs) /\ faults \in Nat /\ data \in BOOLEAN
  BY DEF DbIInv, DbTypes
<1>3. Provisioning(p) /\ Serving(p) /\ NotTwo
  BY DEF DbIInv
<1>4. CtrOK(after)
  BY <1>2, StartOne
<1>5. /\ row.status = "creating" /\ ~op[p].late
      /\ Holds(ctrs, Canon, op[p].old) /\ Holds(ctrs, Tmp, op[p].new) /\ Exists(ctrs, op[p].new)
      /\ Holds(after, Canon, op[p].old) /\ Holds(after, Tmp, op[p].new)
      /\ ~IsUp(ctrs, Canon) /\ ~IsUp(after, Canon) /\ IsUp(after, Tmp)
  <2>1. /\ row.status = "creating" /\ ~op[p].late
        /\ Holds(ctrs, Canon, op[p].old) /\ Holds(ctrs, Tmp, op[p].new) /\ ~IsUp(ctrs, Canon)
    BY <1>1, <1>3 DEF Provisioning
  <2>2. ~Holds(ctrs, Canon, op[p].new) /\ Exists(ctrs, op[p].new)
    BY <2>1, <1>2, OneName, Names
  <2> QED
    BY <2>1, <2>2, <1>2, StartOne
<1>6. \/ ctrs' = after /\ Goto(p, "remove_old") /\ faults' = faults
      \/ /\ faults' = faults + 1 /\ ctrs' \in {ctrs, after}
         /\ \E l \in BOOLEAN : op' = [op EXCEPT ![p].at = "undo", ![p].late = l]
  BY <1>1, <1>5 DEF Call
<1>7. UNCHANGED <<row, attached, data, served>>
  BY <1>1 DEF Call, rest
<1>8. /\ op' \in [Proc -> Operation] /\ \A q \in Proc \ {p} : op'[q] = op[q]
      /\ op'[p].kind = op[p].kind /\ op'[p].row = op[p].row
      /\ op'[p].old = op[p].old /\ op'[p].new = op[p].new
      /\ \/ /\ ctrs' = after /\ op'[p].at = "remove_old"
            /\ op'[p].late = op[p].late /\ faults' = faults
         \/ faults' = faults + 1 /\ ctrs' \in {ctrs, after} /\ op'[p].at = "undo"
  <2>1. CASE ctrs' = after /\ Goto(p, "remove_old") /\ faults' = faults
    <3>1. "remove_old" \in Places
      BY DEF Places
    <3> QED
      BY <2>1, <3>1, GotoOnly
  <2>2. CASE /\ faults' = faults + 1 /\ ctrs' \in {ctrs, after}
             /\ \E l \in BOOLEAN : op' = [op EXCEPT ![p].at = "undo", ![p].late = l]
    <3>1. PICK l \in BOOLEAN : op' = [op EXCEPT ![p].at = "undo", ![p].late = l]
      BY <2>2
    <3>2. "undo" \in Places
      BY DEF Places
    <3> QED
      BY <2>2, <3>1, <3>2, GotoLate
  <2> QED
    BY <1>6, <2>1, <2>2
<1>9. CtrOK(ctrs') /\ faults' \in Nat /\ (faults' <= 1 => faults <= 1)
  BY <1>2, <1>4, <1>8
<1>10. NotTwo'
  BY <1>3, <1>5, <1>8, <1>9 DEF NotTwo
<1>11. Provisioning(p)'
  BY <1>1, <1>2, <1>3, <1>5, <1>7, <1>8, <1>9 DEF Provisioning
<1>12. Serving(p)'
  BY <1>1, <1>3, <1>5, <1>7, <1>8, <1>9 DEF Serving
<1> QED
  BY <1>1, <1>2, <1>7, <1>8, <1>9, <1>10, <1>11, <1>12, ProvisionKeeps

\* The old container goes once its replacement runs.
LEMMA RemoveOldKeeps == ASSUME DbIInv, NEW p \in Proc, RemoveOld(p) PROVE DbIInv'
<1> DEFINE after == RemoveContainer(ctrs, op[p].old)
<1>1. /\ op[p].kind = "provision" /\ op[p].at = "remove_old"
      /\ Call(p, Exists(ctrs, op[p].old), after, "rename", "record")
  BY DEF RemoveOld, At
<1>2. CtrOK(ctrs) /\ faults \in Nat /\ data \in BOOLEAN
  BY DEF DbIInv, DbTypes
<1>3. Provisioning(p) /\ Serving(p) /\ NotTwo
  BY DEF DbIInv
<1>4. CtrOK(after)
  BY <1>2, RemoveOne, Fewer
<1>5. /\ row.status = "creating" /\ ~op[p].late
      /\ Holds(ctrs, Canon, op[p].old) /\ Holds(ctrs, Tmp, op[p].new) /\ Exists(ctrs, op[p].old)
      /\ ~IsUp(ctrs, Canon) /\ IsUp(ctrs, Tmp)
      /\ ~Has(after, Canon) /\ Holds(after, Tmp, op[p].new)
      /\ ~IsUp(after, Canon) /\ IsUp(after, Tmp)
  <2>1. /\ row.status = "creating" /\ ~op[p].late
        /\ Holds(ctrs, Canon, op[p].old) /\ Holds(ctrs, Tmp, op[p].new)
        /\ ~IsUp(ctrs, Canon) /\ IsUp(ctrs, Tmp)
    BY <1>1, <1>3 DEF Provisioning
  <2>2. ~Holds(ctrs, Tmp, op[p].old) /\ op[p].old # op[p].new /\ Exists(ctrs, op[p].old)
    BY <2>1, <1>2, OneName, Names
  <2>3. /\ ~Has(after, Canon) /\ Holds(after, Tmp, op[p].new) /\ IsUp(after, Tmp)
    BY <2>1, <2>2, <1>2, RemoveOne
  <2>4. ~IsUp(after, Canon)
    BY <2>3, <1>4, OneName
  <2> QED
    BY <2>1, <2>2, <2>3, <2>4
<1>6. \/ ctrs' = after /\ Goto(p, "rename") /\ faults' = faults
      \/ /\ faults' = faults + 1 /\ ctrs' \in {ctrs, after}
         /\ \E l \in BOOLEAN : op' = [op EXCEPT ![p].at = "record", ![p].late = l]
  BY <1>1, <1>5 DEF Call
<1>7. UNCHANGED <<row, attached, data, served>>
  BY <1>1 DEF Call, rest
<1>8. /\ op' \in [Proc -> Operation] /\ \A q \in Proc \ {p} : op'[q] = op[q]
      /\ op'[p].kind = op[p].kind /\ op'[p].row = op[p].row
      /\ op'[p].old = op[p].old /\ op'[p].new = op[p].new
      /\ \/ /\ ctrs' = after /\ op'[p].at = "rename"
            /\ op'[p].late = op[p].late /\ faults' = faults
         \/ faults' = faults + 1 /\ ctrs' \in {ctrs, after} /\ op'[p].at = "record"
  <2>1. CASE ctrs' = after /\ Goto(p, "rename") /\ faults' = faults
    <3>1. "rename" \in Places
      BY DEF Places
    <3> QED
      BY <2>1, <3>1, GotoOnly
  <2>2. CASE /\ faults' = faults + 1 /\ ctrs' \in {ctrs, after}
             /\ \E l \in BOOLEAN : op' = [op EXCEPT ![p].at = "record", ![p].late = l]
    <3>1. PICK l \in BOOLEAN : op' = [op EXCEPT ![p].at = "record", ![p].late = l]
      BY <2>2
    <3>2. "record" \in Places
      BY DEF Places
    <3> QED
      BY <2>2, <3>1, <3>2, GotoLate
  <2> QED
    BY <1>6, <2>1, <2>2
<1>9. CtrOK(ctrs') /\ faults' \in Nat /\ (faults' <= 1 => faults <= 1)
  BY <1>2, <1>4, <1>8
<1>10. NotTwo'
  BY <1>3, <1>5, <1>8, <1>9 DEF NotTwo
<1>11. Provisioning(p)'
  BY <1>1, <1>2, <1>3, <1>5, <1>7, <1>8, <1>9 DEF Provisioning
<1>12. Serving(p)'
  BY <1>1, <1>3, <1>5, <1>7, <1>8, <1>9 DEF Serving
<1> QED
  BY <1>1, <1>2, <1>7, <1>8, <1>9, <1>10, <1>11, <1>12, ProvisionKeeps

\* The replacement takes the database's name.
LEMMA RenameNewKeeps == ASSUME DbIInv, NEW p \in Proc, RenameNew(p) PROVE DbIInv'
<1> DEFINE after == RenameContainer(ctrs, op[p].new, Canon)
<1>1. /\ op[p].kind = "provision" /\ op[p].at = "rename"
      /\ Call(p, Exists(ctrs, op[p].new) /\ CanRename(ctrs, op[p].new, Canon), after, "running", "record")
  BY DEF RenameNew, At
<1>2. CtrOK(ctrs) /\ faults \in Nat /\ data \in BOOLEAN
  BY DEF DbIInv, DbTypes
<1>3. Provisioning(p) /\ Serving(p) /\ NotTwo
  BY DEF DbIInv
<1>4. CtrOK(after)
  BY <1>1, <1>2, <1>3, RenameOne DEF Provisioning
<1>5. /\ row.status = "creating" /\ ~op[p].late /\ Holds(ctrs, Tmp, op[p].new)
      /\ ~Has(ctrs, Canon) /\ ~IsUp(ctrs, Canon) /\ IsUp(ctrs, Tmp)
      /\ Exists(ctrs, op[p].new) /\ CanRename(ctrs, op[p].new, Canon)
      /\ ~Has(after, Tmp) /\ ~IsUp(after, Tmp) /\ IsUp(after, Canon)
  <2>1. /\ row.status = "creating" /\ ~op[p].late /\ Holds(ctrs, Tmp, op[p].new)
        /\ ~Has(ctrs, Canon) /\ IsUp(ctrs, Tmp)
    BY <1>1, <1>3 DEF Provisioning
  <2>2. ~Has(after, Tmp) /\ IsUp(after, Canon)
    BY <2>1, <1>2, RenameOne
  <2>3. Exists(ctrs, op[p].new) /\ CanRename(ctrs, op[p].new, Canon)
    BY <2>1, <1>2, OneName DEF CanRename
  <2> QED
    BY <2>1, <2>2, <2>3, <1>2, <1>4, OneName
<1>6. \/ ctrs' = after /\ Goto(p, "running") /\ faults' = faults
      \/ /\ faults' = faults + 1 /\ ctrs' \in {ctrs, after}
         /\ \E l \in BOOLEAN : op' = [op EXCEPT ![p].at = "record", ![p].late = l]
  BY <1>1, <1>5 DEF Call
<1>7. UNCHANGED <<row, attached, data, served>>
  BY <1>1 DEF Call, rest
<1>8. /\ op' \in [Proc -> Operation] /\ \A q \in Proc \ {p} : op'[q] = op[q]
      /\ op'[p].kind = op[p].kind /\ op'[p].row = op[p].row
      /\ op'[p].old = op[p].old /\ op'[p].new = op[p].new
      /\ \/ /\ ctrs' = after /\ op'[p].at = "running"
            /\ op'[p].late = op[p].late /\ faults' = faults
         \/ faults' = faults + 1 /\ ctrs' \in {ctrs, after} /\ op'[p].at = "record"
  <2>1. CASE ctrs' = after /\ Goto(p, "running") /\ faults' = faults
    <3>1. "running" \in Places
      BY DEF Places
    <3> QED
      BY <2>1, <3>1, GotoOnly
  <2>2. CASE /\ faults' = faults + 1 /\ ctrs' \in {ctrs, after}
             /\ \E l \in BOOLEAN : op' = [op EXCEPT ![p].at = "record", ![p].late = l]
    <3>1. PICK l \in BOOLEAN : op' = [op EXCEPT ![p].at = "record", ![p].late = l]
      BY <2>2
    <3>2. "record" \in Places
      BY DEF Places
    <3> QED
      BY <2>2, <3>1, <3>2, GotoLate
  <2> QED
    BY <1>6, <2>1, <2>2
<1>9. CtrOK(ctrs') /\ faults' \in Nat /\ (faults' <= 1 => faults <= 1)
  BY <1>2, <1>4, <1>8
<1>10. NotTwo'
  BY <1>3, <1>5, <1>8, <1>9 DEF NotTwo
<1>11. Provisioning(p)'
  BY <1>1, <1>2, <1>3, <1>5, <1>7, <1>8, <1>9 DEF Provisioning
<1>12. Serving(p)'
  BY <1>1, <1>3, <1>5, <1>7, <1>8, <1>9 DEF Serving
<1> QED
  BY <1>1, <1>2, <1>7, <1>8, <1>9, <1>10, <1>11, <1>12, ProvisionKeeps

\* The data directory is made, or is not.
LEMMA MkdirDataKeeps == ASSUME DbIInv, NEW p \in Proc, MkdirData(p) PROVE DbIInv'
<1>1. /\ op[p].kind = "provision" /\ op[p].at = "mkdir"
      /\ UNCHANGED <<row, attached, ctrs, served>> /\ data' \in BOOLEAN
      /\ \/ Goto(p, "sweep") /\ faults' = faults
         \/ Goto(p, "record") /\ faults' = faults + 1
  BY DEF MkdirData, At, DbIInv, DbTypes
<1>2. CtrOK(ctrs) /\ faults \in Nat
  BY DEF DbIInv, DbTypes
<1>3. Provisioning(p) /\ Serving(p) /\ NotTwo
  BY DEF DbIInv
<1>4. /\ op' \in [Proc -> Operation] /\ \A q \in Proc \ {p} : op'[q] = op[q]
      /\ op'[p].kind = op[p].kind /\ op'[p].row = op[p].row /\ op'[p].late = op[p].late
      /\ \/ op'[p].at = "sweep" /\ faults' = faults
         \/ op'[p].at = "record" /\ faults' = faults + 1
  BY <1>1, GotoOnly DEF Places
<1>5. faults' \in Nat /\ (faults' <= 1 => faults <= 1)
  BY <1>2, <1>4
<1>6. CtrOK(ctrs')
  BY <1>1, <1>2
<1>7. NotTwo'
  BY <1>1, <1>3, <1>5 DEF NotTwo
<1>8. Provisioning(p)'
  BY <1>1, <1>3, <1>4 DEF Provisioning
<1>9. Serving(p)'
  BY <1>1, <1>3, <1>4, <1>5 DEF Serving
<1> QED
  BY <1>1, <1>4, <1>5, <1>6, <1>7, <1>8, <1>9, ProvisionKeeps

\* What the provision finds is what it replaces; it finds nothing when none ran.
LEMMA FindExistingKeeps == ASSUME DbIInv, NEW p \in Proc, FindExisting(p) PROVE DbIInv'
<1>1. /\ op[p].kind = "provision" /\ op[p].at = "find"
      /\ UNCHANGED <<row, attached, data, served, ctrs, faults>>
  BY DEF FindExisting, At, rest
<1>2. /\ CtrOK(ctrs) /\ faults \in Nat /\ op \in [Proc -> Operation]
      /\ data \in BOOLEAN
  BY DEF DbIInv, DbTypes
<1>3. Provisioning(p) /\ Serving(p) /\ NotTwo
  BY DEF DbIInv
<1>4. ~Has(ctrs, Tmp) /\ row.status = "creating" /\ ~op[p].late
  BY <1>1, <1>3 DEF Provisioning
<1>5. CASE FindContainer(ctrs, Canon) = {} /\ Goto(p, "create")
  <2>1. ~Has(ctrs, Canon) /\ ~IsUp(ctrs, Canon)
    BY <1>2, <1>5, OneName
  <2>2. /\ op' \in [Proc -> Operation] /\ \A q \in Proc \ {p} : op'[q] = op[q]
        /\ op'[p].kind = op[p].kind /\ op'[p].row = op[p].row /\ op'[p].late = op[p].late
        /\ op'[p].at = "create"
    BY <1>5, GotoOnly DEF Places
  <2>3. Provisioning(p)'
    BY <1>1, <1>4, <2>1, <2>2 DEF Provisioning
  <2>4. Serving(p)'
    BY <1>1, <1>3, <2>1, <2>2 DEF Serving
  <2>5. CtrOK(ctrs') /\ NotTwo'
    BY <1>1, <1>2, <1>3 DEF NotTwo
  <2> QED
    BY <1>1, <1>2, <2>2, <2>3, <2>4, <2>5, ProvisionKeeps
<1>6. ASSUME NEW c \in FindContainer(ctrs, Canon),
             op' = [op EXCEPT ![p].at = "create_new", ![p].old = c.id]
      PROVE  DbIInv'
  <2>1. c \in ctrs /\ c.name = Canon /\ c.id \in Nat /\ Holds(ctrs, Canon, c.id)
    BY <1>2 DEF FindContainer, Holds, CtrOK, Id
  <2>2. /\ op' \in [Proc -> Operation] /\ \A q \in Proc \ {p} : op'[q] = op[q]
        /\ op'[p].kind = op[p].kind /\ op'[p].row = op[p].row /\ op'[p].late = op[p].late
        /\ op'[p].at = "create_new" /\ op'[p].old = c.id
    <3>1. op' = [op EXCEPT ![p] = [op[p] EXCEPT !.at = "create_new", !.old = c.id]]
      BY <1>2, <1>6
    <3>2. [op[p] EXCEPT !.at = "create_new", !.old = c.id] \in Operation
      <4>1. "create_new" \in Places
        BY DEF Places
      <4> QED
        BY <4>1, <1>2, <2>1, OperationWritten
    <3>3. op'[p] = [op[p] EXCEPT !.at = "create_new", !.old = c.id]
      BY <1>2, <3>1
    <3> QED
      BY <1>2, <3>1, <3>2, <3>3 DEF Operation
  <2>3. Provisioning(p)'
    BY <1>1, <1>4, <2>1, <2>2 DEF Provisioning
  <2>4. Serving(p)'
    BY <1>1, <1>3, <2>2 DEF Serving
  <2>5. CtrOK(ctrs') /\ NotTwo'
    BY <1>1, <1>2, <1>3 DEF NotTwo
  <2> QED
    BY <1>1, <1>2, <2>2, <2>3, <2>4, <2>5, ProvisionKeeps
<1> QED
  BY <1>5, <1>6 DEF FindExisting

\* Docker has an id left for a container beside at most one other.
LEMMA IdLeft ==
  ASSUME DbIInv, NEW p \in Proc, op[p].kind = "provision", ~Has(ctrs, Tmp),
         ~Has(ctrs, Canon) \/ (Holds(ctrs, Canon, op[p].old) /\ op[p].at = "create_new")
  PROVE  FreshId \in Id /\ ~Exists(ctrs, FreshId)
<1>1. CtrOK(ctrs) /\ op \in [Proc -> Operation]
  BY DEF DbIInv, DbTypes
<1>2. {1, 2, 3} \subseteq Id
  <2>1. Cardinality(Proc) \in Nat
    BY DbaasAssumption, FS_CardinalityType
  <2> QED
    BY <2>1 DEF Id
<1>3. \A q \in Proc \ {p} : op[q].old = 0 /\ op[q].new = 0
  <2>1. Idle.old = 0 /\ Idle.new = 0 /\ Idle.kind = "idle"
    BY DEF Idle, NoId
  <2> QED
    BY <2>1 DEF DbIInv, OneAtATime
<1>4. \A i : Exists(ctrs, i) => i = op[p].old
  <2>1. \A i : Exists(ctrs, i) => Holds(ctrs, Canon, i) /\ Has(ctrs, Canon)
    BY <1>1, OneName
  <2> QED
    BY <2>1, <1>1, OneName
<1>5. PICK i \in {1, 2, 3} : i # op[p].old /\ i # op[p].new
  BY <1>1 DEF Operation
<1>6. /\ i \in Id /\ ~Exists(ctrs, i) /\ \A q \in Proc : i \notin {op[q].old, op[q].new}
  BY <1>2, <1>3, <1>4, <1>5
<1> QED
  BY <1>6 DEF FreshId

\* A container is created under a name nobody has, of an image that is not yet running.
LEMMA CreateKeeps == ASSUME DbIInv, NEW p \in Proc, Create(p) PROVE DbIInv'
<1>1. PICK name \in {Canon, Tmp} :
        /\ At(p, "provision", IF name = Canon THEN "create" ELSE "create_new")
        /\ \/ /\ ~op[p].late /\ CanCreate(ctrs, name)
              /\ ctrs' = CreateContainer(ctrs, FreshId, name)
              /\ \/ /\ op' = [op EXCEPT ![p].new = FreshId,
                                        ![p].at = IF name = Canon THEN "start" ELSE "stop_old"]
                    /\ UNCHANGED faults
                 \/ /\ faults < MaxFaults /\ faults' = faults + 1
                    /\ \E l \in BOOLEAN : op' = [op EXCEPT ![p].at = "record", ![p].late = l]
           \/ /\ op[p].late \/ ~CanCreate(ctrs, name)
              /\ Goto(p, "record") /\ UNCHANGED <<ctrs, faults>>
        /\ UNCHANGED rest
  BY DEF Create
<1> DEFINE i == FreshId
           after == CreateContainer(ctrs, i, name)
<1>2. /\ CtrOK(ctrs) /\ faults \in Nat /\ op \in [Proc -> Operation]
      /\ data \in BOOLEAN
  BY DEF DbIInv, DbTypes
<1>3. Provisioning(p) /\ Serving(p) /\ NotTwo
  BY DEF DbIInv
<1>4. /\ op[p].kind = "provision" /\ op[p].at = IF name = Canon THEN "create" ELSE "create_new"
      /\ op[p].at \in {"create", "create_new"}
      /\ UNCHANGED <<row, attached, data, served>>
  BY <1>1 DEF At, rest
<1>5. /\ row.status = "creating" /\ ~op[p].late /\ ~Has(ctrs, Tmp)
      /\ name = Canon => ~Has(ctrs, Canon)
      /\ name = Tmp => Holds(ctrs, Canon, op[p].old) /\ op[p].at = "create_new"
  BY <1>3, <1>4, Names DEF Provisioning
<1>6. i \in Id /\ ~Exists(ctrs, i)
  BY <1>4, <1>5, IdLeft
<1> HIDE DEF i
<1>7. ~Has(ctrs, name) /\ CanCreate(ctrs, name)
  <2>1. ~Has(ctrs, name)
    BY <1>5
  <2> QED
    BY <2>1, <1>2, OneName DEF CanCreate
<1>8. /\ CtrOK(after)
      /\ \A m, j : Holds(after, m, j) <=> Holds(ctrs, m, j) \/ (m = name /\ j = i)
      /\ \A m : Has(after, m) <=> Has(ctrs, m) \/ m = name
      /\ \A m : IsUp(after, m) <=> IsUp(ctrs, m)
  BY <1>2, <1>6, <1>7, CreateOne
<1> HIDE DEF after
<1>9. /\ ctrs' = after
      /\ op' \in [Proc -> Operation] /\ \A q \in Proc \ {p} : op'[q] = op[q]
      /\ op'[p].kind = op[p].kind /\ op'[p].row = op[p].row /\ op'[p].old = op[p].old
      /\ \/ /\ op'[p].at = (IF name = Canon THEN "start" ELSE "stop_old") /\ op'[p].new = i
            /\ op'[p].late = op[p].late /\ faults' = faults
         \/ op'[p].at = "record" /\ faults' = faults + 1
  <2>1. ctrs' = after
    BY <1>1, <1>5, <1>7 DEF after, i
  <2>2. CASE op' = [op EXCEPT ![p].new = i, ![p].at = IF name = Canon THEN "start" ELSE "stop_old"]
             /\ faults' = faults
    <3> DEFINE at == IF name = Canon THEN "start" ELSE "stop_old"
    <3>1. at \in Places /\ i \in Nat
      BY <1>6 DEF Places, Id
    <3>2. op' = [op EXCEPT ![p] = [op[p] EXCEPT !.new = i, !.at = at]]
      BY <1>2, <2>2
    <3> HIDE DEF at
    <3>3. [op[p] EXCEPT !.new = i, !.at = at] \in Operation
      BY <1>2, <3>1, OperationWritten
    <3>4. op'[p] = [op[p] EXCEPT !.new = i, !.at = at]
      BY <1>2, <3>2
    <3>5. /\ op'[p].at = at /\ op'[p].new = i /\ op'[p].late = op[p].late
          /\ op'[p].kind = op[p].kind /\ op'[p].row = op[p].row /\ op'[p].old = op[p].old
      BY <1>2, <3>4 DEF Operation
    <3>6. op' \in [Proc -> Operation] /\ \A q \in Proc \ {p} : op'[q] = op[q]
      BY <1>2, <3>2, <3>3
    <3> QED
      BY <2>1, <2>2, <3>5, <3>6 DEF at
  <2>3. CASE /\ faults' = faults + 1
             /\ \E l \in BOOLEAN : op' = [op EXCEPT ![p].at = "record", ![p].late = l]
    BY <2>1, <2>3, GotoLate DEF Places
  <2> QED
    BY <1>1, <1>5, <1>7, <2>2, <2>3 DEF i
<1>10. CtrOK(ctrs') /\ faults' \in Nat /\ (faults' <= 1 => faults <= 1)
  <2>1. faults' \in Nat /\ (faults' <= 1 => faults <= 1)
    BY <1>2, <1>9
  <2> QED
    BY <2>1, <1>8, <1>9
<1>11. NotTwo'
  BY <1>3, <1>8, <1>9, <1>10 DEF NotTwo
<1>12. ~IsUp(ctrs, Tmp)
  BY <1>2, <1>5, OneName
<1>13. Provisioning(p)'
  BY <1>4, <1>5, <1>8, <1>9, <1>12, Names DEF Provisioning
<1>14. Serving(p)'
  BY <1>3, <1>4, <1>8, <1>9, <1>10, Names DEF Serving
<1> QED
  BY <1>2, <1>4, <1>9, <1>10, <1>11, <1>13, <1>14, ProvisionKeeps

\* The rollback: when one call has failed, neither of its own calls does.
LEMMA UndoNewKeeps == ASSUME DbIInv, NEW p \in Proc, UndoNew(p) PROVE DbIInv'
<1> DEFINE after == RemoveContainer(ctrs, op[p].new)
<1>1. /\ op[p].kind = "provision" /\ op[p].at = "undo" /\ Goto(p, "restart")
      /\ UNCHANGED <<row, attached, data, served>>
      /\ \/ ctrs' = after /\ faults' = faults
         \/ ctrs' = ctrs /\ faults' = faults + 1
  BY DEF UndoNew, BestEffort, At, rest
<1>2. /\ CtrOK(ctrs) /\ faults \in Nat /\ data \in BOOLEAN
  BY DEF DbIInv, DbTypes
<1>3. Provisioning(p) /\ Serving(p) /\ NotTwo
  BY DEF DbIInv
<1>4. /\ row.status = "creating" /\ faults >= 1
      /\ Holds(ctrs, Canon, op[p].old) /\ Holds(ctrs, Tmp, op[p].new)
  BY <1>1, <1>3 DEF Provisioning
<1>5. CtrOK(after) /\ Holds(after, Canon, op[p].old) /\ ~Has(after, Tmp) /\ ~IsUp(after, Tmp)
  <2>1. op[p].old # op[p].new
    BY <1>2, <1>4, OneName, Names
  <2>2. CtrOK(after) /\ Holds(after, Canon, op[p].old) /\ ~Has(after, Tmp)
    BY <2>1, <1>2, <1>4, RemoveOne, Fewer
  <2> QED
    BY <2>2, OneName
<1>6. /\ op' \in [Proc -> Operation] /\ \A q \in Proc \ {p} : op'[q] = op[q]
      /\ op'[p].kind = op[p].kind /\ op'[p].row = op[p].row /\ op'[p].at = "restart"
      /\ op'[p].old = op[p].old
  BY <1>1, GotoOnly DEF Places
<1>7. faults' \in Nat /\ faults' >= 1 /\ (faults' <= 1 => ctrs' = after)
  BY <1>1, <1>2, <1>4
<1>8. CtrOK(ctrs') /\ Holds(ctrs', Canon, op[p].old)
  BY <1>1, <1>2, <1>4, <1>5
<1> HIDE DEF after
<1>9. NotTwo'
  BY <1>5, <1>7 DEF NotTwo
<1>10. Provisioning(p)'
  BY <1>1, <1>4, <1>5, <1>6, <1>7, <1>8 DEF Provisioning
<1>11. Serving(p)'
  BY <1>1, <1>6 DEF Serving
<1> QED
  BY <1>1, <1>2, <1>6, <1>7, <1>8, <1>9, <1>10, <1>11, ProvisionKeeps

\* The rollback starts the old container, if the daemon lets it.
LEMMA restartOldKeeps == ASSUME DbIInv, NEW p \in Proc, restartOld(p) PROVE DbIInv'
<1> DEFINE after == StartContainer(ctrs, op[p].old)
<1>1. /\ op[p].kind = "provision" /\ op[p].at = "restart" /\ Goto(p, "record")
      /\ UNCHANGED <<row, attached, data, served>>
      /\ \/ ctrs' = after /\ faults' = faults
         \/ ctrs' = ctrs /\ faults' = faults + 1
  BY DEF restartOld, BestEffort, At, rest
<1>2. /\ CtrOK(ctrs) /\ faults \in Nat /\ data \in BOOLEAN
  BY DEF DbIInv, DbTypes
<1>3. Provisioning(p) /\ Serving(p) /\ NotTwo
  BY DEF DbIInv
<1>4. /\ row.status = "creating" /\ faults >= 1 /\ Holds(ctrs, Canon, op[p].old)
      /\ faults <= 1 => ~Has(ctrs, Tmp)
  BY <1>1, <1>3 DEF Provisioning
<1>5. CtrOK(after) /\ IsUp(after, Canon) /\ (Has(after, Tmp) <=> Has(ctrs, Tmp))
      /\ (IsUp(after, Tmp) => Has(after, Tmp))
  <2>1. CtrOK(after) /\ IsUp(after, Canon) /\ (Has(after, Tmp) <=> Has(ctrs, Tmp))
    BY <1>2, <1>4, StartOne
  <2> QED
    BY <2>1, OneName
<1>6. /\ op' \in [Proc -> Operation] /\ \A q \in Proc \ {p} : op'[q] = op[q]
      /\ op'[p].kind = op[p].kind /\ op'[p].row = op[p].row /\ op'[p].at = "record"
  BY <1>1, GotoOnly DEF Places
<1>7. faults' \in Nat /\ (faults' <= 1 => ctrs' = after /\ faults <= 1)
  BY <1>1, <1>2, <1>4
<1>8. CtrOK(ctrs')
  BY <1>1, <1>2, <1>5
<1> HIDE DEF after
<1>9. NotTwo'
  BY <1>4, <1>5, <1>7 DEF NotTwo
<1>10. Provisioning(p)'
  BY <1>1, <1>4, <1>6 DEF Provisioning
<1>11. Serving(p)'
  BY <1>1, <1>5, <1>6, <1>7 DEF Serving
<1> QED
  BY <1>1, <1>2, <1>6, <1>7, <1>8, <1>9, <1>10, <1>11, ProvisionKeeps

\* The end of a provision.
LEMMA EndKeeps ==
  ASSUME DbIInv, NEW p \in Proc, MarkRunning(p) \/ RecordFailure(p)
  PROVE  DbIInv'
<1>1. /\ CtrOK(ctrs) /\ faults \in Nat /\ data \in BOOLEAN /\ attached \in BOOLEAN
      /\ row \in [id : 0..MaxRow, status : {"absent", "creating", "running", "stopped", "failed"}]
  BY DEF DbIInv, DbTypes
<1>2. Provisioning(p) /\ Serving(p) /\ NotTwo
  BY DEF DbIInv
<1>3. /\ op[p].kind = "provision" /\ op[p].at \in {"running", "record"} /\ row.status = "creating"
      /\ UNCHANGED <<attached, data, ctrs, faults, served>>
  BY <1>2 DEF MarkRunning, RecordFailure, SetDatabaseStatus, At, Provisioning
<1>4. op[p] # Idle /\ op[p].row = row.id
  BY <1>3 DEF DbIInv, OneAtATime, Idle
<1>5. \/ /\ op[p].at = "running" /\ ~op[p].late /\ row' = [row EXCEPT !.status = "running"]
         /\ Goto(p, "end")
      \/ /\ op[p].at = "record" /\ row' \in {row, [row EXCEPT !.status = "failed"]}
         /\ Goto(p, "end")
  BY <1>2, <1>3, <1>4 DEF MarkRunning, RecordFailure, SetDatabaseStatus, Record, At, Provisioning
<1>6. /\ op' \in [Proc -> Operation] /\ \A q \in Proc \ {p} : op'[q] = op[q]
      /\ op'[p].kind = op[p].kind /\ op'[p].row = op[p].row /\ op'[p].at = "end"
  BY <1>5, GotoOnly DEF Places
<1>7. /\ row' \in [id : 0..MaxRow, status : {"absent", "creating", "running", "stopped", "failed"}]
      /\ row'.id = row.id
      /\ \/ op[p].at = "running" /\ row'.status = "running"
         \/ op[p].at = "record" /\ row'.status \in {"creating", "failed"}
  BY <1>1, <1>3, <1>5
<1>8. RowTells'
  BY <1>2, <1>3, <1>7 DEF RowTells, Provisioning
<1>9. Provisioning(p)' /\ NotTwo' /\ Acting(p)'
  BY <1>2, <1>3, <1>6 DEF Provisioning, NotTwo, Acting
<1>10. Serving(p)'
  BY <1>2, <1>3, <1>6 DEF Provisioning, Serving
<1>11. attached' \in BOOLEAN /\ data' \in BOOLEAN /\ CtrOK(ctrs') /\ faults' \in Nat
       /\ served' = served
  BY <1>1, <1>3
<1> QED
  BY <1>4, <1>6, <1>7, <1>8, <1>9, <1>10, <1>11, StepKeeps

\* A provision begins by saying so in the row.
LEMMA MarkCreatingKeeps == ASSUME DbIInv, NEW p \in Proc, MarkCreating(p) PROVE DbIInv'
<1>1. /\ CtrOK(ctrs) /\ faults \in Nat /\ data \in BOOLEAN /\ attached \in BOOLEAN
      /\ row \in [id : 0..MaxRow, status : {"absent", "creating", "running", "stopped", "failed"}]
  BY DEF DbIInv, DbTypes
<1>2. Provisioning(p) /\ Serving(p) /\ NotTwo
  BY DEF DbIInv
<1>3. /\ op[p].kind = "provision" /\ op[p].at = "begin"
      /\ UNCHANGED <<attached, data, ctrs, faults, served>>
  BY DEF MarkCreating, SetDatabaseStatus, At
<1>4. op[p] # Idle /\ op[p].row = row.id /\ ~op[p].late
  BY <1>2, <1>3 DEF DbIInv, OneAtATime, Idle, Provisioning
<1>5. row' = [row EXCEPT !.status = "creating"] /\ Goto(p, "pull")
  BY <1>4 DEF MarkCreating, SetDatabaseStatus, Record
<1>6. /\ op' \in [Proc -> Operation] /\ \A q \in Proc \ {p} : op'[q] = op[q]
      /\ op'[p].kind = op[p].kind /\ op'[p].row = op[p].row /\ op'[p].at = "pull"
      /\ op'[p].late = op[p].late
  BY <1>5, GotoOnly DEF Places
<1>7. /\ row' \in [id : 0..MaxRow, status : {"absent", "creating", "running", "stopped", "failed"}]
      /\ row'.id = row.id /\ row'.status = "creating"
  BY <1>1, <1>5
<1>8. RowTells'
  BY <1>7 DEF RowTells
<1>9. Provisioning(p)' /\ NotTwo' /\ Acting(p)'
  BY <1>2, <1>3, <1>4, <1>6, <1>7 DEF Provisioning, NotTwo, Acting
<1>10. Serving(p)'
  BY <1>2, <1>3, <1>6 DEF Serving
<1>11. attached' \in BOOLEAN /\ data' \in BOOLEAN /\ CtrOK(ctrs') /\ faults' \in Nat
       /\ served' = served
  BY <1>1, <1>3
<1> QED
  BY <1>4, <1>6, <1>7, <1>8, <1>9, <1>10, <1>11, StepKeeps

-----------------------------------------------------------------------------
(* Start, Stop and Remove.                                                   *)

\* A start and a stop look for the container under the database's name.
LEMMA FindCanonKeeps == ASSUME DbIInv, NEW p \in Proc, FindCanon(p) PROVE DbIInv'
<1>1. /\ CtrOK(ctrs) /\ faults \in Nat /\ data \in BOOLEAN /\ attached \in BOOLEAN
      /\ row \in [id : 0..MaxRow, status : {"absent", "creating", "running", "stopped", "failed"}]
      /\ op \in [Proc -> Operation]
  BY DEF DbIInv, DbTypes
<1>2. /\ op[p].kind \in {"start", "stop"} /\ op[p].at = "begin" /\ op[p] # Idle
      /\ UNCHANGED <<row, attached, data, ctrs, faults, served>>
  BY DEF FindCanon, rest, Idle
<1>3. /\ op' \in [Proc -> Operation] /\ \A q \in Proc \ {p} : op'[q] = op[q]
      /\ op'[p].kind = op[p].kind /\ op'[p].row = op[p].row /\ op'[p].at \in {"act", "mark", "end"}
  <2>1. CASE Goto(p, IF op[p].kind = "start" THEN "end" ELSE "mark")
    <3>1. CASE op[p].kind = "start" /\ Goto(p, "end")
      BY <3>1, GotoOnly DEF Places
    <3>2. CASE Goto(p, "mark")
      BY <3>2, GotoOnly DEF Places
    <3> QED
      BY <2>1, <3>1, <3>2
  <2>2. ASSUME NEW c \in FindContainer(ctrs, Canon),
               op' = [op EXCEPT ![p].at = "act", ![p].old = c.id]
        PROVE  /\ op' \in [Proc -> Operation] /\ \A q \in Proc \ {p} : op'[q] = op[q]
               /\ op'[p].kind = op[p].kind /\ op'[p].row = op[p].row /\ op'[p].at = "act"
    <3>1. c.id \in Nat
      BY <1>1 DEF FindContainer, CtrOK, Id
    <3>2. op' = [op EXCEPT ![p] = [op[p] EXCEPT !.at = "act", !.old = c.id]]
      BY <1>1, <2>2
    <3>3. [op[p] EXCEPT !.at = "act", !.old = c.id] \in Operation
      <4>1. "act" \in Places
        BY DEF Places
      <4> QED
        BY <4>1, <1>1, <3>1, OperationWritten
    <3>4. op'[p] = [op[p] EXCEPT !.at = "act", !.old = c.id]
      BY <1>1, <3>2
    <3> QED
      BY <1>1, <3>2, <3>3, <3>4 DEF Operation
  <2> QED
    BY <2>1, <2>2 DEF FindCanon
<1>4. row.status \in {"running", "stopped"}
  BY <1>2 DEF DbIInv, Acting
<1>5. RowTells' /\ NotTwo'
  BY <1>2, <1>4 DEF DbIInv, RowTells, NotTwo
<1>6. Provisioning(p)' /\ Serving(p)' /\ Acting(p)'
  BY <1>2, <1>3, <1>4 DEF Provisioning, Serving, Acting
<1>7. /\ row' \in [id : 0..MaxRow, status : {"absent", "creating", "running", "stopped", "failed"}]
      /\ row'.id = row.id /\ attached' \in BOOLEAN /\ data' \in BOOLEAN /\ CtrOK(ctrs')
      /\ faults' \in Nat /\ served' = served
  BY <1>1, <1>2
<1> QED
  BY <1>2, <1>3, <1>5, <1>6, <1>7, StepKeeps

\* A start and a stop find no replacement beside the database's container, for the row
\* said that it ran, or had been stopped.
LEMMA StartStopKeeps == ASSUME DbIInv, NEW p \in Proc, Start(p) \/ Stop(p) PROVE DbIInv'
<1>1. /\ CtrOK(ctrs) /\ faults \in Nat /\ data \in BOOLEAN /\ attached \in BOOLEAN
      /\ row \in [id : 0..MaxRow, status : {"absent", "creating", "running", "stopped", "failed"}]
      /\ op \in [Proc -> Operation]
  BY DEF DbIInv, DbTypes
<1>2. /\ op[p].kind \in {"start", "stop"} /\ op[p].at \in {"act", "mark"} /\ op[p] # Idle
  BY DEF Start, Stop, At, Idle
<1>3. /\ row.status \in {"running", "stopped"} /\ ~Has(ctrs, Tmp) /\ op[p].row = row.id
  BY <1>2 DEF DbIInv, Acting, RowTells, OneAtATime
<1>4. UNCHANGED <<attached, data, served>>
  BY DEF Start, Stop, Call, SetDatabaseStatus, rest
<1> DEFINE up == StartContainer(ctrs, op[p].old)
           down == StopContainer(ctrs, op[p].old)
<1>5. CtrOK(up) /\ ~Has(up, Tmp) /\ CtrOK(down) /\ ~Has(down, Tmp)
  BY <1>1, <1>3, StartOne, StopOne
<1> HIDE DEF up, down
<1>6. /\ \/ op[p].at = "act" /\ row' = row
         \/ /\ op[p].at = "mark" /\ ctrs' = ctrs
            /\ row' \in {row, [row EXCEPT !.status = "running"], [row EXCEPT !.status = "stopped"]}
      /\ ctrs' \in {ctrs, up, down}
      /\ faults' \in {faults, faults + 1}
      /\ \/ \E at \in {"mark", "end"} : Goto(p, at)
         \/ \E l \in BOOLEAN : op' = [op EXCEPT ![p].at = "end", ![p].late = l]
  <2>1. CASE /\ At(p, "start", "act")
             /\ Call(p, Exists(ctrs, op[p].old), StartContainer(ctrs, op[p].old), "mark", "end")
    BY <2>1 DEF At, Call, rest, up
  <2>2. CASE /\ At(p, "stop", "act")
             /\ Call(p, Exists(ctrs, op[p].old), StopContainer(ctrs, op[p].old), "mark", "end")
    BY <2>2 DEF At, Call, rest, down
  <2>3. CASE At(p, "start", "mark") /\ SetDatabaseStatus(p, "running", "end", "end")
    BY <2>3 DEF At, SetDatabaseStatus, Record
  <2>4. CASE At(p, "stop", "mark") /\ SetDatabaseStatus(p, "stopped", "end", "end")
    BY <2>4 DEF At, SetDatabaseStatus, Record
  <2> QED
    BY <2>1, <2>2, <2>3, <2>4 DEF Start, Stop
<1>7. /\ op' \in [Proc -> Operation] /\ \A q \in Proc \ {p} : op'[q] = op[q]
      /\ op'[p].kind = op[p].kind /\ op'[p].row = op[p].row /\ op'[p].at \in {"mark", "end"}
  <2>1. ASSUME NEW at \in {"mark", "end"}, Goto(p, at)
        PROVE  /\ op' \in [Proc -> Operation] /\ \A q \in Proc \ {p} : op'[q] = op[q]
               /\ op'[p].kind = op[p].kind /\ op'[p].row = op[p].row /\ op'[p].at = at
    BY <2>1, <1>1, GotoOnly DEF Places
  <2>2. ASSUME NEW l \in BOOLEAN, op' = [op EXCEPT ![p].at = "end", ![p].late = l]
        PROVE  /\ op' \in [Proc -> Operation] /\ \A q \in Proc \ {p} : op'[q] = op[q]
               /\ op'[p].kind = op[p].kind /\ op'[p].row = op[p].row /\ op'[p].at = "end"
    BY <2>2, <1>1, GotoLate DEF Places
  <2> QED
    BY <1>6, <2>1, <2>2
<1>8. CtrOK(ctrs') /\ ~Has(ctrs', Tmp) /\ ~IsUp(ctrs', Tmp)
  <2>1. ctrs' = ctrs \/ ctrs' = up \/ ctrs' = down
    BY <1>6
  <2>2. CtrOK(ctrs') /\ ~Has(ctrs', Tmp)
    BY <2>1, <1>1, <1>3, <1>5
  <2> QED
    BY <2>2, OneName
<1>9. /\ row' \in [id : 0..MaxRow, status : {"absent", "creating", "running", "stopped", "failed"}]
      /\ row'.id = row.id /\ row'.status \in {"running", "stopped"}
  BY <1>1, <1>3, <1>6
<1>10. RowTells' /\ NotTwo'
  BY <1>8, <1>9 DEF RowTells, NotTwo
<1>11. Provisioning(p)' /\ Serving(p)' /\ Acting(p)'
  BY <1>2, <1>7, <1>9 DEF Provisioning, Serving, Acting
<1>12. attached' \in BOOLEAN /\ data' \in BOOLEAN /\ faults' \in Nat /\ served' = served
  BY <1>1, <1>4, <1>6
<1> QED
  BY <1>2, <1>7, <1>8, <1>9, <1>10, <1>11, <1>12, StepKeeps

\* A removal goes container, data, row.
LEMMA RemovalKeeps ==
  ASSUME DbIInv, NEW p \in Proc,
         DatabaseDeletable(p) \/ RemoveCanon(p) \/ removeData(p) \/ DeleteDatabase(p)
  PROVE  DbIInv'
<1>1. /\ CtrOK(ctrs) /\ faults \in Nat /\ data \in BOOLEAN /\ attached \in BOOLEAN
      /\ row \in [id : 0..MaxRow, status : {"absent", "creating", "running", "stopped", "failed"}]
      /\ op \in [Proc -> Operation]
  BY DEF DbIInv, DbTypes
<1>2. /\ op[p].kind = "remove" /\ op[p].at \in {"begin", "ctr", "data", "row"} /\ op[p] # Idle
      /\ UNCHANGED <<attached, served>>
  BY DEF DatabaseDeletable, RemoveCanon, removeData, DeleteDatabase, At, Idle, Call, rest
<1>3. Acting(p) /\ RowTells /\ NotTwo /\ op[p].row = row.id /\ row.status # "absent"
  BY <1>2 DEF DbIInv, OneAtATime, RowTells
<1> DEFINE after == ctrs \ FindContainer(ctrs, Canon)
<1>4. /\ CtrOK(after) /\ ~Has(after, Canon) /\ (Has(after, Tmp) => Has(ctrs, Tmp))
      /\ \A n : IsUp(after, n) => IsUp(ctrs, n)
  BY <1>1, RemoveNamed, Fewer
<1> HIDE DEF after
<1>5. \/ /\ op[p].at = "begin" /\ UNCHANGED <<row, data, ctrs, faults>>
         /\ \E at \in {"end", "ctr"} : Goto(p, at)
      \/ /\ op[p].at = "ctr" /\ UNCHANGED <<row, data>> /\ ctrs' = after /\ faults' = faults
         /\ Goto(p, "data")
      \/ /\ op[p].at = "ctr" /\ UNCHANGED <<row, data>>
         /\ ctrs' \in {ctrs, after} /\ faults' \in {faults, faults + 1}
         /\ \/ Goto(p, "end")
            \/ \E l \in BOOLEAN : op' = [op EXCEPT ![p].at = "end", ![p].late = l]
      \/ /\ op[p].at = "data" /\ UNCHANGED <<row, ctrs, faults>>
         /\ \/ data' = FALSE /\ Goto(p, "row")
            \/ data' = data /\ Goto(p, "end")
      \/ /\ op[p].at = "row" /\ UNCHANGED <<data, ctrs, faults>>
         /\ row' \in {row, [row EXCEPT !.status = "absent"]} /\ Goto(p, "end")
  <2>1. CASE DatabaseDeletable(p)
    BY <2>1 DEF DatabaseDeletable, At, rest
  <2>2. CASE RemoveCanon(p)
    BY <2>2 DEF RemoveCanon, At, Call, rest, after
  <2>3. CASE removeData(p)
    BY <2>3 DEF removeData, At
  <2>4. CASE DeleteDatabase(p)
    BY <2>4 DEF DeleteDatabase, At
  <2> QED
    BY <2>1, <2>2, <2>3, <2>4
<1>6. /\ op' \in [Proc -> Operation] /\ \A q \in Proc \ {p} : op'[q] = op[q]
      /\ op'[p].kind = op[p].kind /\ op'[p].row = op[p].row
      /\ \/ op'[p].at = "end"
         \/ op[p].at = "begin" /\ op'[p].at = "ctr"
         \/ op[p].at = "ctr" /\ op'[p].at = "data" /\ ctrs' = after
         \/ op[p].at = "data" /\ op'[p].at = "row" /\ data' = FALSE
  <2>1. \A at \in {"end", "ctr", "data", "row"} : Goto(p, at) =>
          /\ op' \in [Proc -> Operation] /\ \A q \in Proc \ {p} : op'[q] = op[q]
          /\ op'[p].kind = op[p].kind /\ op'[p].row = op[p].row /\ op'[p].at = at
    <3>1. TAKE at \in {"end", "ctr", "data", "row"}
    <3>2. HAVE Goto(p, at)
    <3> QED
      BY <3>2, <1>1, GotoOnly DEF Places
  <2>2. ASSUME NEW l \in BOOLEAN, op' = [op EXCEPT ![p].at = "end", ![p].late = l]
        PROVE  /\ op' \in [Proc -> Operation] /\ \A q \in Proc \ {p} : op'[q] = op[q]
               /\ op'[p].kind = op[p].kind /\ op'[p].row = op[p].row /\ op'[p].at = "end"
    BY <2>2, <1>1, GotoLate DEF Places
  <2>3. CASE op[p].at = "begin" /\ \E at \in {"end", "ctr"} : Goto(p, at)
    BY <2>1, <2>3
  <2>4. CASE op[p].at = "ctr" /\ ctrs' = after /\ Goto(p, "data")
    BY <2>1, <2>4
  <2>5. CASE Goto(p, "end")
    BY <2>1, <2>5
  <2>6. CASE op[p].at = "data" /\ data' = FALSE /\ Goto(p, "row")
    BY <2>1, <2>6
  <2> QED
    BY <1>5, <2>2, <2>3, <2>4, <2>5, <2>6
<1>7. /\ ctrs' = ctrs \/ ctrs' = after
      /\ faults' \in Nat /\ (faults' <= 1 => faults <= 1)
      /\ data' \in BOOLEAN /\ (data' => data)
  <2>1. ctrs' = ctrs \/ ctrs' = after
    BY <1>5
  <2>2. faults' = faults \/ faults' = faults + 1
    BY <1>5
  <2>3. data' = data \/ data' = FALSE
    BY <1>5
  <2>4. faults' \in Nat /\ (faults' <= 1 => faults <= 1)
    BY <2>2, <1>1
  <2>5. data' \in BOOLEAN /\ (data' => data)
    <3>1. data \in BOOLEAN
      BY <1>1
    <3>2. CASE data' = FALSE
      BY <3>2
    <3>3. CASE data' = data
      BY <3>1, <3>3
    <3> QED
      BY <2>3, <3>2, <3>3
  <2> QED
    BY <2>1, <2>4, <2>5
<1>8. CtrOK(ctrs') /\ (\A n : IsUp(ctrs', n) => IsUp(ctrs, n))
      /\ (Has(ctrs', Tmp) => Has(ctrs, Tmp)) /\ (~Has(ctrs, Canon) => ~Has(ctrs', Canon))
  BY <1>1, <1>4, <1>7
<1>9. /\ row' \in [id : 0..MaxRow, status : {"absent", "creating", "running", "stopped", "failed"}]
      /\ row'.id = row.id
      /\ \/ row'.status = row.status
         \/ op[p].at = "row" /\ op'[p].at = "end" /\ row'.status = "absent"
            /\ ctrs' = ctrs /\ data' = data
  <2>1. CASE row' = row
    BY <2>1, <1>1
  <2>2. CASE op[p].at = "row" /\ row' = [row EXCEPT !.status = "absent"]
    BY <2>2, <1>1, <1>5, <1>6
  <2> QED
    BY <1>5, <2>1, <2>2
<1>10. RowTells'
  <2>1. CASE row'.status = row.status
    BY <2>1, <1>3, <1>8 DEF RowTells
  <2>2. CASE /\ op[p].at = "row" /\ op'[p].at = "end" /\ row'.status = "absent"
             /\ ctrs' = ctrs /\ data' = data
    <3>1. ~Has(ctrs, Canon) /\ ~data
      BY <2>2, <1>2, <1>3 DEF Acting
    <3>2. \A q \in Proc \ {p} : op'[q] = Idle
      BY <1>2, <1>6 DEF DbIInv, OneAtATime
    <3> QED
      BY <2>2, <3>1, <3>2, <1>2, <1>6 DEF RowTells
  <2> QED
    BY <1>9, <2>1, <2>2
<1>11. NotTwo'
  BY <1>3, <1>7, <1>8 DEF NotTwo
<1>12. Provisioning(p)' /\ Serving(p)'
  BY <1>2, <1>6 DEF Provisioning, Serving
<1>13. Acting(p)'
  BY <1>2, <1>3, <1>4, <1>6, <1>8 DEF Acting
<1>14. attached' \in BOOLEAN /\ served' = served
  BY <1>1, <1>2
<1> QED
  BY <1>2, <1>6, <1>7, <1>8, <1>9, <1>10, <1>11, <1>12, <1>13, <1>14, StepKeeps

-----------------------------------------------------------------------------
(* What begins, what ends, and the restart.                                  *)

\* An operation begins when none is in flight, on the row it was asked for.
LEMMA BeginKeeps ==
  ASSUME DbIInv, Serial, NEW p \in Proc, NEW k \in {"provision", "start", "stop", "remove"},
         Begin(p, k, row'.id), UNCHANGED <<attached, data, ctrs, faults>>,
         row' \in [id : 0..MaxRow, status : {"creating", "running", "stopped", "failed"}],
         row' = row \/ (row.status = "absent" /\ row'.status = "creating"),
         k \in {"start", "stop"} => row'.status \in {"running", "stopped"}
  PROVE  DbIInv'
<1>1. /\ CtrOK(ctrs) /\ faults \in Nat /\ data \in BOOLEAN /\ attached \in BOOLEAN
      /\ op \in [Proc -> Operation] /\ served \in [Proc -> BOOLEAN]
  BY DEF DbIInv, DbTypes
<1>2. \A q \in Proc : op[q] = Idle
  BY DEF Begin, Quiet
<1> DEFINE o == [Idle EXCEPT !.kind = k, !.at = "begin", !.row = row'.id]
<1>3. row'.id \in Nat /\ MaxRow \in Nat
  BY DbaasAssumption
<1>4. /\ o \in Operation /\ o.kind = k /\ o.at = "begin" /\ o.row = row'.id /\ o.late = FALSE
  BY <1>3 DEF Operation, NoId, Idle
<1>5. op' = [op EXCEPT ![p] = o]
  BY DEF Begin
<1> HIDE DEF o
<1>6. op' \in [Proc -> Operation] /\ op'[p] = o /\ \A q \in Proc \ {p} : op'[q] = Idle
  BY <1>1, <1>2, <1>4, <1>5
<1>7. Idle.kind = "idle"
  BY DEF Idle
<1>8. served' \in [Proc -> BOOLEAN] /\ (served'[p] => IsUp(ctrs, Canon))
  <2>1. served' = [served EXCEPT ![p] = Running(FindContainer(ctrs, Canon)) # {}]
    BY DEF Begin
  <2>2. Running(FindContainer(ctrs, Canon)) # {} => IsUp(ctrs, Canon)
    BY DEF Running, FindContainer, IsUp
  <2> QED
    BY <1>1, <2>1, <2>2
<1>9. DbTypes'
  BY <1>1, <1>4, <1>6, <1>8 DEF DbTypes
<1>10. OneAtATime'
  BY <1>4, <1>6 DEF OneAtATime
<1>11. RowTells' /\ NotTwo'
  <2>1. row'.status # "absent"
    OBVIOUS
  <2>2. Has(ctrs, Tmp) => row'.status \in {"creating", "failed", "absent"}
    BY DEF DbIInv, RowTells
  <2> QED
    BY <2>1, <2>2 DEF DbIInv, RowTells, NotTwo
<1>12. Provisioning(p)' /\ Serving(p)' /\ Acting(p)'
  BY <1>4, <1>6, <1>8 DEF Provisioning, Serving, Acting
<1>13. \A q \in Proc \ {p} : Provisioning(q)' /\ Serving(q)' /\ Acting(q)'
  BY <1>6, <1>7 DEF Provisioning, Serving, Acting
<1> QED
  BY <1>9, <1>10, <1>11, <1>12, <1>13 DEF DbIInv

\* The five requests.
LEMMA HandlersKeep ==
  ASSUME DbIInv, Serial, NEW p \in Proc,
         \/ handleCreateDatabase(p) \/ handleDatabaseSettings(p) \/ handleStartDatabase(p)
         \/ handleStopDatabase(p) \/ handleDeleteDatabase(p)
  PROVE  DbIInv'
<1>1. row \in [id : 0..MaxRow, status : {"absent", "creating", "running", "stopped", "failed"}]
  BY DEF DbIInv, DbTypes
<1>2. CASE handleCreateDatabase(p)
  <2>1. /\ row' = [id |-> row.id + 1, status |-> "creating"] /\ row.status = "absent"
        /\ row.id < MaxRow /\ MaxRow \in Nat
    BY <1>2, DbaasAssumption DEF handleCreateDatabase
  <2>2. row'.id = row.id + 1 /\ row'.status = "creating" /\ row.id + 1 \in 0..MaxRow
    BY <1>1, <2>1
  <2>3. row' \in [id : 0..MaxRow, status : {"creating", "running", "stopped", "failed"}]
    BY <2>1, <2>2
  <2>4. Begin(p, "provision", row'.id) /\ UNCHANGED <<attached, data, ctrs, faults>>
    BY <1>2, <2>2 DEF handleCreateDatabase
  <2> QED
    BY <2>1, <2>2, <2>3, <2>4, BeginKeeps
<1>3. CASE handleDatabaseSettings(p)
  BY <1>1, <1>3, BeginKeeps DEF handleDatabaseSettings
<1>4. CASE handleStartDatabase(p)
  BY <1>1, <1>4, BeginKeeps DEF handleStartDatabase
<1>5. CASE handleStopDatabase(p)
  BY <1>1, <1>5, BeginKeeps DEF handleStopDatabase
<1>6. CASE handleDeleteDatabase(p)
  BY <1>1, <1>6, BeginKeeps DEF handleDeleteDatabase
<1> QED
  BY <1>2, <1>3, <1>4, <1>5, <1>6

\* An attachment that comes or goes says nothing of the containers.
LEMMA AttachmentKeeps ==
  ASSUME DbIInv, AttachDatabase \/ DetachDatabase
  PROVE  DbIInv'
<1>1. attached' \in BOOLEAN /\ UNCHANGED <<row, data, ctrs, op, faults, served>>
  BY DEF AttachDatabase, DetachDatabase
<1> QED
  BY <1>1 DEF DbIInv, DbTypes, OneAtATime, RowTells, NotTwo, Provisioning, Serving, Acting

\* An operation that has ended leaves the next one a database at rest.
LEMMA RestKeeps ==
  ASSUME DbIInv, UNCHANGED <<attached, data, ctrs, faults, served>>,
         \A q \in Proc : op'[q] = Idle \/ op'[q] = op[q], op' \in [Proc -> Operation],
         row' \in [id : 0..MaxRow, status : {"absent", "creating", "running", "stopped", "failed"}],
         \/ row' = row
         \/ /\ \A q \in Proc : op'[q] = Idle
            /\ row.status # "absent" /\ row'.id = row.id /\ row'.status = "failed"
  PROVE  DbIInv'
<1>1. Idle.kind = "idle"
  BY DEF Idle
<1>2. DbTypes'
  BY <1>1 DEF DbIInv, DbTypes
<1>3. OneAtATime'
  BY DEF DbIInv, OneAtATime
<1>4. RowTells' /\ NotTwo'
  BY DEF DbIInv, RowTells, NotTwo
<1>5. ASSUME NEW q \in Proc PROVE Provisioning(q)' /\ Serving(q)' /\ Acting(q)'
  <2>1. CASE op'[q] = Idle
    BY <1>1, <2>1 DEF Provisioning, Serving, Acting
  <2>2. CASE op'[q] = op[q] /\ row' = row
    BY <2>2 DEF DbIInv, Provisioning, Serving, Acting
  <2> QED
    BY <2>1, <2>2
<1> QED
  BY <1>2, <1>3, <1>4, <1>5 DEF DbIInv

\* An operation returns, or all are cut off by a restart.
LEMMA ReturnKeeps ==
  ASSUME DbIInv, (\E p \in Proc : Return(p)) \/ Reboot
  PROVE  DbIInv'
<1>1. /\ row \in [id : 0..MaxRow, status : {"absent", "creating", "running", "stopped", "failed"}]
      /\ op \in [Proc -> Operation]
  BY DEF DbIInv, DbTypes
<1>2. Idle \in Operation
  BY DEF Idle, Operation, NoId
<1>3. ASSUME NEW p \in Proc, Return(p) PROVE DbIInv'
  BY <1>1, <1>2, <1>3, RestKeeps DEF Return, rest
<1>4. CASE Reboot
  <2>1. op' = [p \in Proc |-> Idle] /\ UNCHANGED <<attached, data, ctrs, faults, served>>
    BY <1>4 DEF Reboot
  <2>2. op' \in [Proc -> Operation] /\ \A q \in Proc : op'[q] = Idle
    BY <2>1, <1>2
  <2>3. /\ row' \in [id : 0..MaxRow, status : {"absent", "creating", "running", "stopped", "failed"}]
        /\ \/ row' = row
           \/ row.status # "absent" /\ row'.id = row.id /\ row'.status = "failed"
    <3>1. CASE row.status = "creating" /\ row' = [row EXCEPT !.status = "failed"]
      BY <3>1, <1>1
    <3>2. CASE row' = row
      BY <3>2, <1>1
    <3> QED
      BY <1>4, <3>1, <3>2 DEF Reboot
  <2> QED
    BY <2>1, <2>2, <2>3, RestKeeps
<1> QED
  BY <1>3, <1>4

\* Every step of the specification keeps the invariant.
LEMMA DbKept == ASSUME DbIInv, Serial, [Next]_vars PROVE DbIInv'
<1>1. ASSUME NEW p \in Proc, provision(p) PROVE DbIInv'
  BY <1>1, MarkCreatingKeeps, PullImageKeeps, MkdirDataKeeps, SweepStaleKeeps, FindExistingKeeps,
     CreateKeeps, StartFirstKeeps, StopOldKeeps, StartNewKeeps, RemoveOldKeeps, RenameNewKeeps,
     UndoNewKeeps, restartOldKeeps, EndKeeps DEF provision
<1>2. ASSUME NEW p \in Proc,
             \/ handleCreateDatabase(p) \/ handleDatabaseSettings(p) \/ handleStartDatabase(p)
             \/ handleStopDatabase(p) \/ handleDeleteDatabase(p)
      PROVE  DbIInv'
  BY <1>2, HandlersKeep
<1>3. ASSUME NEW p \in Proc,
             \/ FindCanon(p) \/ Start(p) \/ Stop(p)
             \/ DatabaseDeletable(p) \/ RemoveCanon(p) \/ removeData(p) \/ DeleteDatabase(p)
             \/ Return(p)
      PROVE  DbIInv'
  BY <1>3, FindCanonKeeps, StartStopKeeps, RemovalKeeps, ReturnKeeps
<1>4. CASE AttachDatabase \/ DetachDatabase \/ Reboot
  BY <1>4, AttachmentKeeps, ReturnKeeps
<1>5. CASE UNCHANGED vars
  BY <1>5 DEF vars, DbIInv, DbTypes, OneAtATime, RowTells, NotTwo, Provisioning, Serving, Acting
<1> QED
  BY <1>1, <1>2, <1>3, <1>4, <1>5 DEF Next

\* A server without a database satisfies the invariant.
LEMMA DbStart == ASSUME Init PROVE DbIInv
<1>1. /\ ctrs = {} /\ row = [id |-> 0, status |-> "absent"] /\ attached = FALSE /\ data = FALSE
      /\ faults = 0 /\ op = [p \in Proc |-> Idle] /\ served = [p \in Proc |-> FALSE]
  BY DEF Init, NoRow
<1>2. Idle \in Operation /\ Idle.kind = "idle"
  BY DEF Idle, Operation, NoId
<1>3. row.id \in 0..MaxRow /\ row.status = "absent"
  BY <1>1, DbaasAssumption
<1>4. DbTypes
  <2>1. CtrOK(ctrs)
    BY <1>1 DEF CtrOK
  <2> QED
    BY <1>1, <1>2, <1>3, <2>1 DEF DbTypes
<1>5. OneAtATime /\ RowTells /\ NotTwo
  BY <1>1, <1>3 DEF OneAtATime, RowTells, NotTwo, Has, IsUp
<1>6. \A p \in Proc : Provisioning(p) /\ Serving(p) /\ Acting(p)
  BY <1>1, <1>2 DEF Provisioning, Serving, Acting
<1> QED
  BY <1>4, <1>5, <1>6 DEF DbIInv

-----------------------------------------------------------------------------
(* The theorems.  Their hypothesis is the operator's, who waits for an       *)
(* operation on a database before asking for the next: nothing in the code   *)
(* enforces it (dbaas/manager.go:137), and without it two engines do run.    *)

\* The inductive invariant: what every operation in flight knows of the row and of the
\* containers it found or made (internal/dbaas/manager.go).
THEOREM DbInvariant == ASSUME Serial PROVE DbSpec => []DbIInv
<1>1. Init => DbIInv
  BY DbStart
<1>2. DbIInv /\ [Next]_vars => DbIInv'
  BY DbKept
<1> QED
  BY <1>1, <1>2, PTL DEF DbSpec

\* Names are unique, so engines that are not both up are at most one.
LEMMA AtMostOne ==
  ASSUME NEW C, CtrOK(C), ~(IsUp(C, Canon) /\ IsUp(C, Tmp))
  PROVE  Cardinality(Running(C)) <= 1
<1>1. \A c, d \in Running(C) : c = d
  <2>1. \A c \in Running(C) : c \in C /\ c.up /\ c.name \in {Canon, Tmp}
    BY DEF Running, CtrOK
  <2>2. \A c, d \in Running(C) : c.name = d.name
    BY <2>1 DEF IsUp
  <2> QED
    BY <2>1, <2>2 DEF CtrOK
<1>2. CASE Running(C) = {}
  BY <1>2, FS_EmptySet
<1>3. CASE Running(C) # {}
  <2>1. PICK c : Running(C) = {c}
    BY <1>1, <1>3
  <2>2. Cardinality({c}) = 1
    BY FS_Singleton
  <2> QED
    BY <2>1, <2>2
<1> QED
  BY <1>2, <1>3

\* One engine on the data, and nothing of a database whose row is gone: provisions, starts,
\* stops and removals of any number, whichever of their calls fail (dbaas/manager.go).
THEOREM DbTables == ASSUME Serial PROVE DbSpec => []DbInv
<1>1. DbIInv => DbInv
  <2> SUFFICES ASSUME DbIInv PROVE DbInv
    OBVIOUS
  <2>1. DbTypeOK
    BY DEF DbIInv, DbTypes, CtrOK, DbTypeOK
  <2>2. OneEngine
    BY AtMostOne DEF DbIInv, DbTypes, NotTwo, OneEngine
  <2>3. RowGoesLast
    BY DEF DbIInv, RowTells, RowGoesLast, Has, FindContainer
  <2> QED
    BY <2>1, <2>2, <2>3 DEF DbInv
<1> QED
  BY <1>1, DbInvariant, PTL

\* A reprovision that fails leaves the database it found running on the air
\* (dbaas/manager.go, replace and its rollback).
THEOREM DatabaseStaysUp == ASSUME Serial PROVE DbSpec => []StillServed
<1>1. DbIInv => StillServed
  <2>1. \A n : IsUp(ctrs, n) => Running(ctrs) # {}
    BY DEF IsUp, Running
  <2> QED
    BY <2>1 DEF DbIInv, Serving, StillServed
<1> QED
  BY <1>1, DbInvariant, PTL
=============================================================================

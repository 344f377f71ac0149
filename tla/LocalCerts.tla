---------------------------- MODULE LocalCerts ----------------------------
(***************************************************************************)
(* The built-in local CA (internal/localca/manager.go): a leaf per host    *)
(* with an HTTPS route, installed beside Traefik as two files that cannot  *)
(* be swapped in one step, and the list of leaves Traefik reads.  Sync     *)
(* runs at boot, after the pages that change domains and twice a day; any  *)
(* write may fail and the process may die between any two of them.         *)
(***************************************************************************)
EXTENDS Domains

CONSTANTS
  DefaultHost,  \* the admin host: always wanted
  MaxFaults,    \* bound: writes and calls that fail
  MaxCrashes    \* bound

ASSUME LocalCertsAssumption ==
  DefaultHost \in Nat \ {0} /\ {MaxFaults, MaxCrashes} \subseteq Nat

VARIABLES
  disk,     \* per host the leaf in each file, 0 without one: .key, .pem, .key.bak, .tmp
  due,      \* hosts whose .pem is near its end or no longer fits
  listed,   \* the hosts of outhaul-local-certs.yml
  sync,     \* the Sync that holds the mutex
  asked,    \* a page changed the table and has not synced yet
  torn,     \* history: hosts whose pair a crash cut in two
  pruned,   \* history: hosts whose files are gone and whose name is still listed
  boot,     \* how far the process has come up: "certs", "infra", "done"
  localCA,  \* OUTHAUL_LOCAL_CA, which excludes the tunnel
  faults, crashes

Host == {DefaultHost} \cup {HostOf[r] : r \in Route}
NoFiles == [key |-> 0, pem |-> 0, bak |-> 0, tmp |-> 0]
NoSync == [at |-> "idle", wanted |-> {}, left |-> {}, served |-> {}, host |-> NoHost, had |-> FALSE]
certs == <<disk, due, listed, torn, pruned>>

CertsInit ==
  /\ disk = [h \in Host |-> NoFiles] /\ due = {} /\ listed = {}
  /\ sync = NoSync /\ asked = FALSE /\ torn = {} /\ pruned = {}
  /\ boot = "certs" /\ localCA \in BOOLEAN
  /\ faults = 0 /\ crashes = 0

Fault == faults < MaxFaults /\ faults' = faults + 1
Wanted == {DefaultHost} \cup {HostOf[r] : r \in {q \in Route : \E a \in App : rows[a][q] = "tls"}}
Pair(h) == disk[h].key # 0 /\ disk[h].pem # 0
NewLeaf(h) == CHOOSE g \in 1..4 : g \notin {disk[h].key, disk[h].pem, disk[h].bak}
InPlace == [NoFiles EXCEPT !.key = 1, !.pem = 1]  \* which leaf it is no longer matters

\* The page's own request may be gone by then, and the ticker needs no page.
SyncStart ==
  /\ localCA /\ boot \in {"certs", "done"} /\ sync.at = "idle"
  /\ sync' = [NoSync EXCEPT !.at = "hosts", !.wanted = Wanted, !.left = Wanted]
  /\ asked' = FALSE
  /\ UNCHANGED <<certs, boot, faults>>

ListFails ==
  /\ localCA /\ sync.at = "idle"
  /\ \/ boot = "done" /\ asked /\ UNCHANGED <<boot, faults>>
     \/ boot = "certs" /\ Fault /\ boot' = "infra"
  /\ asked' = FALSE
  /\ UNCHANGED <<certs, sync>>

NextHost == CHOOSE h \in sync.left : \A g \in sync.left : h <= g
\* Mutant of NeedsRemint: a pair that is about to expire is good enough.
NeverDue(h) == ~Pair(h)
NeedsRemint(h) == ~Pair(h) \/ h \in due
Served(h, ok) == [sync EXCEPT !.left = @ \ {h}, !.at = "hosts", !.host = NoHost,
                              !.served = IF ok THEN @ \cup {h} ELSE @]

\* A host whose leaf cannot be minted or written keeps the pair it has.
CheckHost ==
  LET h == NextHost IN
  /\ sync.at = "hosts" /\ sync.left # {}
  /\ \/ ~NeedsRemint(h) /\ sync' = Served(h, TRUE) /\ UNCHANGED <<disk, faults>>
     \/ /\ NeedsRemint(h)
        /\ disk' = [disk EXCEPT ![h].tmp = NewLeaf(h)]
        /\ sync' = [sync EXCEPT !.at = "aside", !.host = h, !.had = Pair(h)]
        /\ UNCHANGED faults
     \/ NeedsRemint(h) /\ Fault /\ sync' = Served(h, Pair(h)) /\ UNCHANGED disk
  /\ UNCHANGED <<due, listed, torn, pruned, asked, boot>>

\* installPair: the old key is set aside, the new key and the new certificate are
\* renamed into place; a rename that fails puts the old key back.
SetKeyAside ==
  LET h == sync.host IN
  /\ sync.at = "aside"
  /\ \/ /\ disk' = IF disk[h].key = 0 THEN disk
                   ELSE [disk EXCEPT ![h].bak = disk[h].key, ![h].key = 0]
        /\ sync' = [sync EXCEPT !.at = IF disk[h].key = 0 THEN "key_new" ELSE "key_swap"]
        /\ UNCHANGED faults
     \/ /\ disk[h].key # 0 /\ Fault
        /\ disk' = [disk EXCEPT ![h].tmp = 0]
        /\ sync' = Served(h, sync.had)
  /\ UNCHANGED <<due, listed, torn, pruned, asked, boot>>

\* Mutant of RestoreKey: the old key stays aside.
LeaveKey(f) == [f EXCEPT !.tmp = 0]
RestoreKey(f) ==
  IF sync.at \in {"key_swap", "pem_swap"} THEN [f EXCEPT !.key = f.bak, !.bak = 0, !.tmp = 0]
  ELSE [f EXCEPT !.tmp = 0]

PutKey ==
  LET h == sync.host IN
  /\ sync.at \in {"key_swap", "key_new"}
  /\ \/ /\ disk' = [disk EXCEPT ![h].key = disk[h].tmp]
        /\ sync' = [sync EXCEPT !.at = IF @ = "key_swap" THEN "pem_swap" ELSE "pem_new"]
        /\ UNCHANGED faults
     \/ /\ Fault
        /\ disk' = [disk EXCEPT ![h] = RestoreKey(@)]
        /\ sync' = Served(h, sync.had)
  /\ UNCHANGED <<due, listed, torn, pruned, asked, boot>>

PutPem ==
  LET h == sync.host IN
  /\ sync.at \in {"pem_swap", "pem_new"}
  /\ \/ /\ disk' = [disk EXCEPT ![h] = InPlace]
        /\ due' = due \ {h} /\ torn' = torn \ {h}
        /\ sync' = Served(h, TRUE) /\ UNCHANGED faults
     \/ /\ Fault
        /\ disk' = [disk EXCEPT ![h] = RestoreKey(@)]
        /\ sync' = Served(h, sync.had)
        /\ UNCHANGED <<due, torn>>
  /\ UNCHANGED <<listed, pruned, asked, boot>>

\* Leaves of hosts nobody wants go, and with them every .tmp and .bak.
Prune ==
  /\ sync.at = "hosts" /\ sync.left = {}
  /\ disk' = [h \in Host |-> IF h \in sync.wanted THEN [disk[h] EXCEPT !.bak = 0, !.tmp = 0]
                             ELSE NoFiles]
  /\ sync' = [sync EXCEPT !.at = "list"]
  /\ due' = due \cap sync.wanted /\ torn' = torn \cap sync.wanted
  /\ pruned' = pruned \cup (listed \ sync.wanted)
  /\ UNCHANGED <<listed, asked, boot, faults>>

WriteList ==
  /\ sync.at = "list"
  /\ \/ listed' = sync.served /\ pruned' = {} /\ UNCHANGED faults
     \/ Fault /\ UNCHANGED <<listed, pruned>>
  /\ sync' = NoSync
  /\ boot' = IF boot = "certs" THEN "infra" ELSE boot
  /\ UNCHANGED <<disk, due, torn, asked>>

\* A leaf comes near its end, or the host's addresses change.
Age(h) ==
  /\ disk[h].pem # 0 /\ h \notin due
  /\ due' = due \cup {h}
  /\ UNCHANGED <<disk, listed, torn, pruned, sync, asked, boot, faults>>

\* A crash leaves a pair in the middle of its swap as it is.
CertsCrash ==
  /\ torn' = torn \cup {h \in {sync.host} \ {NoHost} : disk[h].key # disk[h].pem}
  /\ sync' = NoSync /\ asked' = FALSE
  /\ UNCHANGED <<disk, due, listed, pruned>>

SyncStep == CheckHost \/ SetKeyAside \/ PutKey \/ PutPem \/ Prune \/ WriteList
=============================================================================

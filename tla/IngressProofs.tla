--------------------------- MODULE IngressProofs ---------------------------
(***************************************************************************)
(* The front door, for any number of apps, routes, hosts, tokens, waiting  *)
(* requests, faults and crashes.  A route has one owner and the copy in    *)
(* apps.domain is the app's first host; Traefik is told of no leaf whose   *)
(* key and certificate do not belong together; and between reconciles the  *)
(* proxy and the connector are what the stored token asks for, with a way  *)
(* in left open while both are replaced.                                   *)
(***************************************************************************)
EXTENDS Ingress, WellFoundedInduction, TLAPS

\* Every non-empty set of naturals has a least element.
LEMMA Least ==
  ASSUME NEW S \in SUBSET Nat, S # {}
  PROVE  \E m \in S : \A k \in S : m <= k
<1> DEFINE R == {ss \in Nat \X Nat : ss[1] < ss[2]}
<1>1. IsWellFoundedOn(R, Nat)
  BY NatLessThanWellFounded DEF OpToRel
<1>2. \A y, x \in Nat : <<y, x>> \in R <=> y < x
  OBVIOUS
<1> HIDE DEF R
<1>3. PICK x \in S : \A y \in S : ~(<<y, x>> \in R)
  BY <1>1, WFMin
<1>4. \A y \in S : ~(y < x)
  BY <1>2, <1>3
<1> QED
  BY <1>4

RouteState == {"none", "plain", "tls"}

\* FirstHost names the host of the least route of the app's table (domains.go:194-206).
LEMMA FirstHostIsLeast ==
  ASSUME NEW a, NEW f \in [Route -> RouteState]
  PROVE  LET mine == {r \in Route : f[r] # "none"} IN
         IF mine = {} THEN FirstHost(a, f) = NoHost
         ELSE \E r \in mine : FirstHost(a, f) = HostOf[r] /\ \A q \in mine : r <= q
<1> DEFINE mine == {r \in Route : f[r] # "none"}
           first == CHOOSE r \in mine : \A q \in mine : r <= q
<1>1. CASE mine = {}
  BY <1>1 DEF FirstHost
<1>2. CASE mine # {}
  <2>1. mine \in SUBSET Nat
    BY DomainsAssumption
  <2>2. \E r \in mine : \A q \in mine : r <= q
    BY <1>2, <2>1, Least
  <2>3. first \in mine /\ \A q \in mine : first <= q
    BY <2>2
  <2>4. FirstHost(a, f) = HostOf[first]
    BY <1>2 DEF FirstHost
  <2> QED
    BY <1>2, <2>3, <2>4
<1> QED
  BY <1>1, <1>2

DomainsInv == DomainsTypeOK /\ OneOwner /\ MirrorIsFirst

\* What every write of an app's table keeps, if the routes it adds are free.
LEMMA WriteKeeps ==
  ASSUME DomainsInv, NEW a \in App, NEW f \in [Route -> RouteState],
         apps' \subseteq App, apps \subseteq apps' \cup {a},
         (\E r \in Route : f[r] # "none") => a \in apps',
         Write(a, f),
         \A r \in Route : f[r] # "none" => rows[a][r] # "none" \/ RouteFree(a, r)
  PROVE  DomainsInv'
<1> USE DEF DomainsInv, RouteState
<1>1. rows' \in [App -> [Route -> RouteState]] /\ rows'[a] = f
      /\ \A b \in App \ {a} : rows'[b] = rows[b]
  BY DEF Write, DomainsTypeOK
<1>2. primary'[a] = FirstHost(a, f) /\ \A b \in App \ {a} : primary'[b] = primary[b]
  BY DEF Write, DomainsTypeOK
<1>3. primary' \in [App -> Nat]
  <2>1. FirstHost(a, f) \in Nat
    BY FirstHostIsLeast, DomainsAssumption DEF NoHost
  <2> QED
    BY <2>1 DEF Write, DomainsTypeOK
<1>4. \A b \in App : Rows(b)' # {} => b \in apps'
  BY <1>1 DEF Rows, DomainsTypeOK
<1>5. DomainsTypeOK'
  BY <1>1, <1>3, <1>4 DEF DomainsTypeOK
<1>6. OneOwner'
  <2> SUFFICES ASSUME NEW b \in App, NEW c \in App, NEW r \in Route,
                      rows'[b][r] # "none", rows'[c][r] # "none"
               PROVE  b = c
    BY DEF OneOwner
  <2>1. CASE b # a /\ c # a
    BY <2>1, <1>1 DEF OneOwner
  <2>2. CASE b = a /\ c # a
    BY <2>2, <1>1 DEF OneOwner, RouteFree
  <2>3. CASE b # a /\ c = a
    BY <2>3, <1>1 DEF OneOwner, RouteFree
  <2> QED
    BY <2>1, <2>2, <2>3
<1>7. MirrorIsFirst'
  <2> SUFFICES ASSUME NEW b \in App
               PROVE  IF Rows(b)' = {} THEN primary'[b] = NoHost
                      ELSE \E r \in Rows(b)' : primary'[b] = HostOf[r] /\ \A q \in Rows(b)' : r <= q
    BY DEF MirrorIsFirst
  <2>1. CASE b = a
    <3>1. Rows(b)' = {r \in Route : f[r] # "none"}
      BY <2>1, <1>1 DEF Rows
    <3> QED
      BY <2>1, <3>1, <1>2, FirstHostIsLeast
  <2>2. CASE b # a
    <3>1. Rows(b)' = Rows(b) /\ primary'[b] = primary[b]
      BY <2>2, <1>1, <1>2 DEF Rows
    <3> QED
      BY <3>1 DEF MirrorIsFirst
  <2> QED
    BY <2>1, <2>2
<1> QED
  BY <1>5, <1>6, <1>7

\* Every transaction over the domain table keeps the invariant.
LEMMA DomainsStep == DomainsInv /\ [DomainsNext]_table => DomainsInv'
<1> SUFFICES ASSUME DomainsInv, [DomainsNext]_table PROVE DomainsInv'
  OBVIOUS
<1> USE DEF DomainsInv, RouteState
<1>1. \A a \in App : rows[a] \in [Route -> RouteState]
  BY DEF DomainsTypeOK
<1>2. ASSUME NEW a \in App, NEW R \in SUBSET Route, CreateAppWithDomains(a, R)
      PROVE  DomainsInv'
  <2> DEFINE f == [r \in Route |-> IF r \in R THEN "tls" ELSE "none"]
  <2>1. f \in [Route -> RouteState]
    OBVIOUS
  <2>2. apps' \subseteq App /\ apps \subseteq apps' \cup {a} /\ a \in apps'
    BY <1>2 DEF CreateAppWithDomains, DomainsTypeOK
  <2>3. Write(a, f) /\ \A r \in Route : f[r] # "none" => RouteFree(a, r)
    BY <1>2 DEF CreateAppWithDomains
  <2> HIDE DEF f, DomainsInv
  <2> QED
    BY <2>1, <2>2, <2>3, WriteKeeps
<1>3. ASSUME NEW a \in App, NEW r \in Route, NEW tls \in {"plain", "tls"}, AddDomain(a, r, tls)
      PROVE  DomainsInv'
  <2> DEFINE f == [rows[a] EXCEPT ![r] = tls]
  <2>1. f \in [Route -> RouteState]
    BY <1>1
  <2>2. apps' \subseteq App /\ apps \subseteq apps' \cup {a} /\ a \in apps'
    BY <1>3 DEF AddDomain, DomainsTypeOK
  <2>3. Write(a, f) /\ \A q \in Route : f[q] # "none" => rows[a][q] # "none" \/ RouteFree(a, q)
    BY <1>1, <1>3 DEF AddDomain
  <2> HIDE DEF f, DomainsInv
  <2> QED
    BY <2>1, <2>2, <2>3, WriteKeeps
<1>4. ASSUME NEW a \in App, NEW r \in Route, NEW q \in Route, NEW tls \in {"plain", "tls"},
             UpdateDomain(a, r, q, tls)
      PROVE  DomainsInv'
  <2> DEFINE f == [rows[a] EXCEPT ![r] = "none", ![q] = tls]
  <2>1. f \in [Route -> RouteState]
    BY <1>1
  <2>2. apps' \subseteq App /\ apps \subseteq apps' \cup {a} /\ a \in apps'
    BY <1>4 DEF UpdateDomain, DomainsTypeOK, Rows
  <2>3. Write(a, f) /\ \A s \in Route : f[s] # "none" => rows[a][s] # "none" \/ RouteFree(a, s)
    BY <1>1, <1>4 DEF UpdateDomain
  <2> HIDE DEF f, DomainsInv
  <2> QED
    BY <2>1, <2>2, <2>3, WriteKeeps
<1>5. ASSUME NEW a \in App, NEW r \in Route, DeleteDomain(a, r)
      PROVE  DomainsInv'
  <2> DEFINE f == [rows[a] EXCEPT ![r] = "none"]
  <2>1. f \in [Route -> RouteState]
    BY <1>1
  <2>2. apps' \subseteq App /\ apps \subseteq apps' \cup {a} /\ a \in apps'
    BY <1>5 DEF DeleteDomain, DomainsTypeOK, Rows
  <2>3. Write(a, f) /\ \A q \in Route : f[q] # "none" => rows[a][q] # "none"
    BY <1>1, <1>5 DEF DeleteDomain
  <2> HIDE DEF f, DomainsInv
  <2> QED
    BY <2>1, <2>2, <2>3, WriteKeeps
<1>6. ASSUME NEW a \in App, DeleteApp(a)
      PROVE  DomainsInv'
  <2> DEFINE f == [r \in Route |-> "none"]
  <2>1. f \in [Route -> RouteState] /\ ~\E r \in Route : f[r] # "none"
    OBVIOUS
  <2>2. apps' \subseteq App /\ apps \subseteq apps' \cup {a} /\ Write(a, f)
    BY <1>6 DEF DeleteApp, DomainsTypeOK
  <2> HIDE DEF f, DomainsInv
  <2> QED
    BY <2>1, <2>2, WriteKeeps
<1>7. CASE UNCHANGED table
  BY <1>7 DEF table, DomainsTypeOK, OneOwner, MirrorIsFirst, Rows
<1> QED
  BY <1>2, <1>3, <1>4, <1>5, <1>6, <1>7 DEF DomainsNext

\* An empty table satisfies the invariant.
LEMMA DomainsStart == DomainsInit => DomainsInv
  BY DEF DomainsInit, DomainsInv, DomainsTypeOK, OneOwner, MirrorIsFirst, Rows, NoHost

\* No two apps ever serve one route, so Traefik never picks between them
\* (checkRouteFreeTx, domains.go:67-85).
THEOREM RouteHasOneOwner == DomainsSpec => []OneOwner
<1>1. DomainsInv => OneOwner
  BY DEF DomainsInv
<1> QED
  BY <1>1, DomainsStart, DomainsStep, PTL DEF DomainsSpec

\* The list's copy always names the app's first host (syncPrimaryDomainTx,
\* domains.go:194-206).
THEOREM PrimaryIsFirst == DomainsSpec => []MirrorIsFirst
<1>1. DomainsInv => MirrorIsFirst
  BY DEF DomainsInv
<1> QED
  BY <1>1, DomainsStart, DomainsStep, PTL DEF DomainsSpec
-----------------------------------------------------------------------------
(* The leaves.                                                             *)

Files == [key : 0..4, pem : 0..4, bak : 0..4, tmp : 0..4]
Swapping == {"aside", "key_swap", "key_new", "pem_swap", "pem_new"}

CertTypes ==
  /\ disk \in [Host -> Files]
  /\ due \subseteq Host /\ listed \subseteq Host
  /\ sync \in [at : {"idle", "hosts", "list"} \cup Swapping, wanted : SUBSET Host,
               left : SUBSET Host, served : SUBSET Host, host : Host \cup {NoHost}, had : BOOLEAN]

\* What a Sync knows of its hosts.
SyncOK ==
  /\ sync.host = NoHost <=> sync.at \notin Swapping
  /\ sync.at \in Swapping => sync.host \in sync.left
  /\ sync.served \cap sync.left = {}
  /\ sync.served \cup sync.left \subseteq sync.wanted

\* The pair of a host that is neither being swapped nor torn is whole or has no
\* certificate, and it is whole where this Sync or the list says so.
PairOK(h) ==
  h \notin torn =>
    /\ h # sync.host => disk[h].pem \in {0, disk[h].key}
    /\ h \in sync.served \/ (h \in listed \ pruned /\ h # sync.host) =>
         disk[h].key = disk[h].pem /\ disk[h].pem # 0

\* What installPair can still put back at each of its steps.
SwapOK(h) ==
  /\ sync.had => disk[h].pem # 0 /\ sync.at \notin {"key_new", "pem_new"}
  /\ sync.at = "aside" /\ sync.had => disk[h].key # 0
  /\ h \in listed \ (torn \cup pruned) => sync.had
  /\ h \notin torn =>
       /\ sync.at = "aside" => disk[h].pem \in {0, disk[h].key}
       /\ sync.at \in {"key_swap", "pem_swap"} => disk[h].pem \in {0, disk[h].bak}
       /\ sync.at \in {"key_new", "pem_new"} => disk[h].pem = 0

CertsInv ==
  /\ CertTypes /\ SyncOK
  /\ \A h \in Host : PairOK(h) /\ (h = sync.host => SwapOK(h))

\* Hosts are numbered, and none of them is NoHost.
LEMMA HostsAreNumbers == Host \in SUBSET Nat /\ NoHost \notin Host
  BY DomainsAssumption, LocalCertsAssumption DEF Host, NoHost

\* The loop over the wanted hosts takes one that is left (manager.go:142-160).
LEMMA NextIsLeft ==
  ASSUME CertTypes, sync.left # {}
  PROVE  NextHost \in sync.left
<1>1. sync.left \in SUBSET Nat
  BY HostsAreNumbers DEF CertTypes
<1> QED
  BY <1>1, Least DEF NextHost

\* A mint never gives a leaf that one of the host's files already holds.
LEMMA LeafIsNew ==
  ASSUME CertTypes, NEW h \in Host
  PROVE  NewLeaf(h) \in 1..4
<1> DEFINE S == {disk[h].key, disk[h].pem, disk[h].bak}
<1>1. 1 \notin S \/ 2 \notin S \/ 3 \notin S \/ 4 \notin S
  OBVIOUS
<1>2. \E g \in 1..4 : g \notin S
  BY <1>1
<1> QED
  BY <1>2 DEF NewLeaf

\* A host is done with: what its files hold answers for the list it may enter.
LEMMA HostServed ==
  ASSUME CertsInv, NEW h \in sync.left, sync.host \in {NoHost, h},
         NEW ok \in BOOLEAN, NEW f \in Files,
         disk' = [disk EXCEPT ![h] = f], sync' = Served(h, ok),
         torn' \in {torn, torn \ {h}}, due' \subseteq Host, UNCHANGED <<listed, pruned>>,
         h \notin torn' =>
           /\ f.pem \in {0, f.key}
           /\ ok \/ h \in listed \ pruned => f.key = f.pem /\ f.pem # 0
  PROVE  CertsInv'
<1>1. h \in Host /\ h # NoHost
  BY HostsAreNumbers DEF CertsInv, CertTypes
<1>2. /\ sync'.at = "hosts" /\ sync'.host = NoHost /\ sync'.wanted = sync.wanted
      /\ sync'.left = sync.left \ {h} /\ sync'.had = sync.had
      /\ sync'.served = IF ok THEN sync.served \cup {h} ELSE sync.served
  BY DEF CertsInv, CertTypes, Served
<1>3. disk' \in [Host -> Files] /\ disk'[h] = f /\ \A g \in Host \ {h} : disk'[g] = disk[g]
  BY <1>1 DEF CertsInv, CertTypes
<1>4. CertTypes'
  <2>1. sync' \in [at : {"idle", "hosts", "list"} \cup Swapping, wanted : SUBSET Host,
                   left : SUBSET Host, served : SUBSET Host, host : Host \cup {NoHost},
                   had : BOOLEAN]
    BY <1>1 DEF CertsInv, CertTypes, Served
  <2> QED
    BY <1>3, <2>1 DEF CertsInv, CertTypes
<1>5. SyncOK'
  BY <1>2 DEF CertsInv, SyncOK, Swapping
<1>6. ASSUME NEW g \in Host PROVE PairOK(g)' /\ (g = sync'.host => SwapOK(g)')
  <2>1. g # sync'.host
    BY <1>2, HostsAreNumbers
  <2>2. CASE g = h
    <3>1. h \in sync'.served => ok
      BY <1>2 DEF CertsInv, SyncOK
    <3> QED
      BY <2>1, <2>2, <3>1, <1>3 DEF PairOK
  <2>3. CASE g # h
    <3>1. disk'[g] = disk[g] /\ (g \in torn' <=> g \in torn) /\ g # sync.host
          /\ (g \in sync'.served <=> g \in sync.served)
      BY <2>3, <1>2, <1>3, HostsAreNumbers
    <3>2. PairOK(g)
      BY DEF CertsInv
    <3> QED
      BY <2>1, <3>1, <3>2 DEF PairOK
  <2> QED
    BY <2>1, <2>2, <2>3
<1> QED
  BY <1>4, <1>5, <1>6 DEF CertsInv

\* installPair goes on with a host: only that host's files are in its hands.
LEMMA SwapGoesOn ==
  ASSUME CertsInv, NEW h \in sync.left, sync.host \in {NoHost, h},
         NEW at \in Swapping, NEW had \in BOOLEAN, NEW f \in Files,
         disk' = [disk EXCEPT ![h] = f],
         sync' = [sync EXCEPT !.at = at, !.host = h, !.had = had],
         UNCHANGED <<due, listed, torn, pruned>>,
         SwapOK(h)'
  PROVE  CertsInv'
<1>1. h \in Host /\ h # NoHost
  BY HostsAreNumbers DEF CertsInv, CertTypes
<1>2. /\ sync'.at = at /\ sync'.host = h /\ sync'.wanted = sync.wanted
      /\ sync'.left = sync.left /\ sync'.served = sync.served
  BY DEF CertsInv, CertTypes
<1>3. disk' \in [Host -> Files] /\ \A g \in Host \ {h} : disk'[g] = disk[g]
  BY <1>1 DEF CertsInv, CertTypes
<1>4. CertTypes'
  <2>1. sync' \in [at : {"idle", "hosts", "list"} \cup Swapping, wanted : SUBSET Host,
                   left : SUBSET Host, served : SUBSET Host, host : Host \cup {NoHost},
                   had : BOOLEAN]
    BY <1>1 DEF CertsInv, CertTypes
  <2> QED
    BY <1>3, <2>1 DEF CertsInv, CertTypes
<1>5. SyncOK'
  BY <1>1, <1>2 DEF CertsInv, SyncOK
<1>6. ASSUME NEW g \in Host PROVE PairOK(g)' /\ (g = sync'.host => SwapOK(g)')
  <2>1. CASE g = h
    <3>1. h \notin sync'.served
      BY <1>2 DEF CertsInv, SyncOK
    <3> QED
      BY <2>1, <3>1, <1>2 DEF PairOK
  <2>2. CASE g # h
    <3>1. disk'[g] = disk[g] /\ g # sync.host /\ g # sync'.host /\ sync'.served = sync.served
      BY <2>2, <1>2, <1>3, HostsAreNumbers
    <3>2. PairOK(g)
      BY DEF CertsInv
    <3> QED
      BY <3>1, <3>2 DEF PairOK
  <2> QED
    BY <2>1, <2>2
<1> QED
  BY <1>4, <1>5, <1>6 DEF CertsInv

\* The writes of one host's files.
LEMMA FilesWritten ==
  ASSUME NEW e \in Files, NEW k \in 0..4, NEW m \in 0..4
  PROVE  /\ [e EXCEPT !.tmp = m] \in Files
         /\ [e EXCEPT !.key = k, !.pem = m] \in Files
         /\ [e EXCEPT !.bak = k, !.key = m] \in Files
         /\ [e EXCEPT !.key = k, !.bak = m, !.tmp = m] \in Files
  BY DEF Files

\* The host of the loop is found whole, gets a leaf to install, or keeps what it has.
LEMMA CheckHostKeeps == CertsInv /\ CheckHost => CertsInv'
<1> SUFFICES ASSUME CertsInv, CheckHost PROVE CertsInv'
  OBVIOUS
<1>0. PICK h : h = NextHost
  OBVIOUS
<1>1. h \in sync.left /\ h \in Host
  BY <1>0, NextIsLeft DEF CheckHost, CertsInv, CertTypes
<1>2. sync.host = NoHost
  BY DEF CheckHost, CertsInv, SyncOK, Swapping
<1>3. disk[h] \in Files /\ disk = [disk EXCEPT ![h] = disk[h]]
  BY <1>1 DEF CertsInv, CertTypes
<1>4. h \notin torn =>
        /\ disk[h].pem \in {0, disk[h].key}
        /\ Pair(h) \/ h \in listed \ pruned => disk[h].key = disk[h].pem /\ disk[h].pem # 0
  <2>1. PairOK(h) /\ h # sync.host
    BY <1>1, <1>2, HostsAreNumbers DEF CertsInv
  <2> QED
    BY <2>1, <1>2 DEF PairOK, Pair
<1>5. due \subseteq Host
  BY DEF CertsInv, CertTypes
<1>6. ASSUME NEW ok \in BOOLEAN, ok => Pair(h), sync' = Served(h, ok), disk' = disk,
             UNCHANGED <<due, listed, torn, pruned>>
      PROVE  CertsInv'
  <2> DEFINE f == disk[h]
  <2>1. disk' = [disk EXCEPT ![h] = f] /\ f \in Files
    BY <1>3, <1>6
  <2>2. h \notin torn' =>
          /\ f.pem \in {0, f.key}
          /\ ok \/ h \in listed \ pruned => f.key = f.pem /\ f.pem # 0
    BY <1>4, <1>6
  <2>3. torn' \in {torn, torn \ {h}} /\ due' \subseteq Host
    BY <1>5, <1>6
  <2> HIDE DEF f
  <2> QED
    BY <2>1, <2>2, <2>3, <1>1, <1>2, <1>6, HostServed
<1>7. CASE ~NeedsRemint(h) /\ sync' = Served(h, TRUE) /\ UNCHANGED disk
  BY <1>0, <1>6, <1>7 DEF CheckHost, NeedsRemint
<1>8. CASE sync' = Served(h, Pair(h)) /\ UNCHANGED disk
  BY <1>0, <1>6, <1>8 DEF CheckHost, Pair
<1>9. CASE /\ disk' = [disk EXCEPT ![h].tmp = NewLeaf(h)]
           /\ sync' = [sync EXCEPT !.at = "aside", !.host = h, !.had = Pair(h)]
  <2>0. PICK f : f = [disk[h] EXCEPT !.tmp = NewLeaf(h)]
    OBVIOUS
  <2>1. f \in Files /\ disk' = [disk EXCEPT ![h] = f]
    BY <2>0, <1>1, <1>3, <1>9, LeafIsNew DEF Files, CertsInv
  <2>2. f.key = disk[h].key /\ f.pem = disk[h].pem /\ disk'[h] = f
    BY <2>0, <1>1, <1>3, <2>1 DEF Files, CertsInv, CertTypes
  <2>3. sync'.at = "aside" /\ sync'.host = h /\ sync'.had = Pair(h)
    BY <1>9 DEF CertsInv, CertTypes
  <2>4. UNCHANGED <<due, listed, torn, pruned>>
    BY DEF CheckHost
  <2>5. SwapOK(h)'
    <3>1. CASE Pair(h)
      BY <1>4, <2>2, <2>3, <2>4, <3>1 DEF SwapOK, Pair
    <3>2. CASE ~Pair(h)
      BY <1>4, <2>2, <2>3, <2>4, <3>2 DEF SwapOK, Pair
    <3> QED
      BY <3>1, <3>2
  <2>6. "aside" \in Swapping /\ Pair(h) \in BOOLEAN
    BY DEF Swapping, Pair
  <2> QED
    BY <2>1, <2>4, <2>5, <2>6, <1>1, <1>2, <1>9, SwapGoesOn
<1> QED
  BY <1>0, <1>7, <1>8, <1>9 DEF CheckHost

\* What holds of the host that is being swapped.
LEMMA SwapFacts ==
  ASSUME CertsInv, sync.at \in Swapping
  PROVE  /\ sync.host \in sync.left /\ sync.host \in Host /\ SwapOK(sync.host)
         /\ disk[sync.host] \in Files
<1>1. sync.host \in sync.left /\ sync.host \in Host
  BY DEF CertsInv, SyncOK, CertTypes
<1> QED
  BY <1>1 DEF CertsInv, CertTypes

\* An install that fails puts the pair back as it was before it began
\* (installPair, manager.go).
LEMMA InstallFails ==
  ASSUME CertsInv, sync.at \in Swapping,
         disk' = [disk EXCEPT ![sync.host] = RestoreKey(@)],
         sync' = Served(sync.host, sync.had), UNCHANGED <<due, listed, torn, pruned>>
  PROVE  CertsInv'
<1>0. PICK h, f : h = sync.host /\ f = RestoreKey(disk[h])
  OBVIOUS
<1>1. h \in sync.left /\ h \in Host /\ SwapOK(h) /\ disk[h] \in Files
  BY <1>0, SwapFacts
<1>2. disk' = [disk EXCEPT ![h] = f] /\ f \in Files
  <2>1. f \in Files
    <3>1. disk[h].bak \in 0..4 /\ 0 \in 0..4
      BY <1>1 DEF Files
    <3> QED
      BY <1>0, <1>1, <3>1, FilesWritten DEF RestoreKey
  <2> QED
    BY <1>0, <1>1, <2>1 DEF CertsInv, CertTypes
<1>3. /\ f.pem = disk[h].pem
      /\ sync.at \in {"key_swap", "pem_swap"} => f.key = disk[h].bak
      /\ sync.at = "aside" => f.key = disk[h].key
  BY <1>0, <1>1 DEF RestoreKey, Files
<1>4. h \notin torn =>
        /\ f.pem \in {0, f.key}
        /\ sync.had \/ h \in listed \ pruned => f.key = f.pem /\ f.pem # 0
  <2>1. CASE sync.at = "aside"
    BY <2>1, <1>1, <1>3 DEF SwapOK
  <2>2. CASE sync.at \in {"key_swap", "pem_swap"}
    BY <2>2, <1>1, <1>3 DEF SwapOK
  <2>3. CASE sync.at \in {"key_new", "pem_new"}
    BY <2>3, <1>1, <1>3 DEF SwapOK
  <2> QED
    BY <2>1, <2>2, <2>3 DEF Swapping
<1>5. sync.had \in BOOLEAN /\ due' \subseteq Host
  BY DEF CertsInv, CertTypes
<1>6. sync.host \in {NoHost, h} /\ torn' \in {torn, torn \ {h}} /\ sync' = Served(h, sync.had)
  BY <1>0
<1>7. h \notin torn' =>
        /\ f.pem \in {0, f.key}
        /\ sync.had \/ h \in listed \ pruned => f.key = f.pem /\ f.pem # 0
  BY <1>4
<1> QED
  BY <1>1, <1>2, <1>5, <1>6, <1>7, HostServed

\* The old key is set aside before anything is replaced.
LEMMA SetKeyAsideKeeps == CertsInv /\ SetKeyAside => CertsInv'
<1> SUFFICES ASSUME CertsInv, SetKeyAside PROVE CertsInv'
  OBVIOUS
<1>0. PICK h : h = sync.host
  OBVIOUS
<1>1. sync.at = "aside" /\ sync.at \in Swapping /\ UNCHANGED <<due, listed, torn, pruned>>
  BY DEF SetKeyAside, Swapping
<1>2. h \in sync.left /\ h \in Host /\ SwapOK(h) /\ disk[h] \in Files
  BY <1>0, <1>1, SwapFacts
<1>3. CASE disk' = [disk EXCEPT ![h].tmp = 0] /\ sync' = Served(h, sync.had)
  <2>1. disk' = [disk EXCEPT ![h] = RestoreKey(@)]
    BY <1>0, <1>1, <1>2, <1>3 DEF RestoreKey
  <2> QED
    BY <1>0, <1>1, <1>3, <2>1, InstallFails
<1>4. CASE /\ disk' = IF disk[h].key = 0 THEN disk
                      ELSE [disk EXCEPT ![h].bak = disk[h].key, ![h].key = 0]
           /\ sync' = [sync EXCEPT !.at = IF disk[h].key = 0 THEN "key_new" ELSE "key_swap"]
  <2>0. PICK f, at :
          /\ f = IF disk[h].key = 0 THEN disk[h] ELSE [disk[h] EXCEPT !.bak = disk[h].key, !.key = 0]
          /\ at = IF disk[h].key = 0 THEN "key_new" ELSE "key_swap"
    OBVIOUS
  <2>1. f \in Files /\ disk' = [disk EXCEPT ![h] = f]
    <3>1. disk[h].key \in 0..4 /\ 0 \in 0..4
      BY <1>2 DEF Files
    <3>2. CASE disk[h].key = 0
      BY <2>0, <3>2, <1>2, <1>4 DEF CertsInv, CertTypes
    <3>3. CASE disk[h].key # 0
      <4>1. disk' = [disk EXCEPT ![h].bak = disk[h].key, ![h].key = 0]
        BY <3>3, <1>4
      <4>2. disk' = [disk EXCEPT ![h] = [disk[h] EXCEPT !.bak = disk[h].key, !.key = 0]]
        BY <4>1
      <4>3. [disk[h] EXCEPT !.bak = disk[h].key, !.key = 0] \in Files
        BY <3>1, <1>2, FilesWritten
      <4> QED
        BY <4>2, <4>3, <2>0, <3>3
    <3> QED
      BY <3>1, <3>2, <3>3
  <2>2. /\ f.pem = disk[h].pem
        /\ disk[h].key # 0 => f.bak = disk[h].key
    BY <2>0, <1>2 DEF Files
  <2>3. disk'[h] = f
    BY <1>2, <2>1 DEF CertsInv, CertTypes
  <2>4. sync' = [sync EXCEPT !.at = at, !.host = h, !.had = sync.had]
    BY <1>0, <2>0, <1>4 DEF CertsInv, CertTypes
  <2>5. sync'.at = at /\ sync'.had = sync.had /\ sync.had \in BOOLEAN
    BY <2>0, <1>4 DEF CertsInv, CertTypes
  <2>6. SwapOK(h)'
    BY <2>0, <1>1, <1>2, <2>2, <2>3, <2>5 DEF SwapOK
  <2>7. at \in Swapping
    BY <2>0 DEF Swapping
  <2>8. sync.host \in {NoHost, h}
    BY <1>0
  <2> QED
    BY <1>1, <1>2, <2>1, <2>4, <2>5, <2>6, <2>7, <2>8, SwapGoesOn
<1> QED
  BY <1>0, <1>3, <1>4 DEF SetKeyAside

\* The new key is renamed into place; if that fails the old one is put back.
LEMMA PutKeyKeeps == CertsInv /\ PutKey => CertsInv'
<1> SUFFICES ASSUME CertsInv, PutKey PROVE CertsInv'
  OBVIOUS
<1>0. PICK h : h = sync.host
  OBVIOUS
<1>1. sync.at \in {"key_swap", "key_new"} /\ sync.at \in Swapping
      /\ UNCHANGED <<due, listed, torn, pruned>>
  BY DEF PutKey, Swapping
<1>2. h \in sync.left /\ h \in Host /\ SwapOK(h) /\ disk[h] \in Files
  BY <1>0, <1>1, SwapFacts
<1>3. CASE disk' = [disk EXCEPT ![h] = RestoreKey(@)] /\ sync' = Served(h, sync.had)
  BY <1>0, <1>1, <1>3, InstallFails
<1>4. CASE /\ disk' = [disk EXCEPT ![h].key = disk[h].tmp]
           /\ sync' = [sync EXCEPT !.at = IF @ = "key_swap" THEN "pem_swap" ELSE "pem_new"]
  <2>0. PICK f, at :
          /\ f = [disk[h] EXCEPT !.key = disk[h].tmp]
          /\ at = IF sync.at = "key_swap" THEN "pem_swap" ELSE "pem_new"
    OBVIOUS
  <2>1. f \in Files /\ disk' = [disk EXCEPT ![h] = f]
    BY <2>0, <1>2, <1>4 DEF Files, CertsInv, CertTypes
  <2>2. f.pem = disk[h].pem /\ f.bak = disk[h].bak
    BY <2>0, <1>2 DEF Files
  <2>3. disk'[h] = f
    BY <1>2, <2>1 DEF CertsInv, CertTypes
  <2>4. sync' = [sync EXCEPT !.at = at, !.host = h, !.had = sync.had]
    BY <1>0, <2>0, <1>4 DEF CertsInv, CertTypes
  <2>5. sync'.at = at /\ sync'.had = sync.had /\ sync.had \in BOOLEAN
    BY <2>0, <1>4 DEF CertsInv, CertTypes
  <2>6. SwapOK(h)'
    BY <2>0, <1>1, <1>2, <2>2, <2>3, <2>5 DEF SwapOK
  <2>7. at \in Swapping
    BY <2>0 DEF Swapping
  <2>8. sync.host \in {NoHost, h}
    BY <1>0
  <2> QED
    BY <1>1, <1>2, <2>1, <2>4, <2>5, <2>6, <2>7, <2>8, SwapGoesOn
<1> QED
  BY <1>0, <1>3, <1>4 DEF PutKey

\* The certificate follows its key.
LEMMA PutPemKeeps == CertsInv /\ PutPem => CertsInv'
<1> SUFFICES ASSUME CertsInv, PutPem PROVE CertsInv'
  OBVIOUS
<1>0. PICK h : h = sync.host
  OBVIOUS
<1>1. sync.at \in Swapping /\ UNCHANGED <<listed, pruned>>
  BY DEF PutPem, Swapping
<1>2. h \in sync.left /\ h \in Host
  BY <1>0, <1>1, SwapFacts
<1>3. CASE disk' = [disk EXCEPT ![h] = RestoreKey(@)] /\ sync' = Served(h, sync.had)
           /\ UNCHANGED <<due, torn>>
  BY <1>0, <1>1, <1>3, InstallFails
<1>4. CASE /\ disk' = [disk EXCEPT ![h] = InPlace]
           /\ due' = due \ {h} /\ torn' = torn \ {h} /\ sync' = Served(h, TRUE)
  <2>1. InPlace \in Files /\ InPlace.key = 1 /\ InPlace.pem = 1
    <3>1. InPlace.key = 1 /\ InPlace.pem = 1
      BY DEF InPlace, NoFiles
    <3>2. NoFiles \in Files /\ 1 \in 0..4
      BY DEF NoFiles, Files
    <3> QED
      BY <3>1, <3>2, FilesWritten DEF InPlace
  <2>2. due' \subseteq Host
    BY <1>4 DEF CertsInv, CertTypes
  <2>3. sync.host \in {NoHost, h} /\ torn' \in {torn, torn \ {h}}
    BY <1>0, <1>4
  <2>4. PICK f : f = InPlace
    OBVIOUS
  <2>5. h \notin torn' => f.pem \in {0, f.key} /\ f.key = f.pem /\ f.pem # 0
    BY <2>1, <2>4
  <2> QED
    BY <1>1, <1>2, <1>4, <2>1, <2>2, <2>3, <2>4, <2>5, HostServed
<1> QED
  BY <1>0, <1>3, <1>4 DEF PutPem

\* Pruning takes the files of hosts nobody wants, so it takes none this Sync found
\* or installed.
LEMMA PruneKeeps == CertsInv /\ Prune => CertsInv'
<1> SUFFICES ASSUME CertsInv, Prune PROVE CertsInv'
  OBVIOUS
<1>1. /\ sync'.at = "list" /\ sync'.host = sync.host /\ sync'.left = sync.left
      /\ sync'.served = sync.served /\ sync'.wanted = sync.wanted /\ sync.host = NoHost
  BY DEF Prune, CertsInv, CertTypes, SyncOK, Swapping
<1>2. NoFiles \in Files /\ NoFiles.pem = 0
  BY DEF NoFiles, Files
<1>3. ASSUME NEW h \in Host
      PROVE  /\ disk'[h] \in Files
             /\ h \in sync.wanted => disk'[h].key = disk[h].key /\ disk'[h].pem = disk[h].pem
             /\ h \notin sync.wanted => disk'[h].pem = 0
  <2>1. disk[h] \in Files
    BY DEF CertsInv, CertTypes
  <2>2. CASE h \in sync.wanted
    <3>1. disk'[h] = [disk[h] EXCEPT !.bak = 0, !.tmp = 0]
      BY <2>2 DEF Prune
    <3>2. 0 \in 0..4
      OBVIOUS
    <3> QED
      BY <2>1, <2>2, <3>1, <3>2 DEF Files
  <2>3. CASE h \notin sync.wanted
    BY <1>2, <2>3 DEF Prune
  <2> QED
    BY <2>2, <2>3
<1>4. CertTypes'
  <2>1. disk' \in [Host -> Files]
    BY <1>3 DEF Prune
  <2>2. sync' \in [at : {"idle", "hosts", "list"} \cup Swapping, wanted : SUBSET Host,
                   left : SUBSET Host, served : SUBSET Host, host : Host \cup {NoHost},
                   had : BOOLEAN]
    BY DEF Prune, CertsInv, CertTypes
  <2> QED
    BY <2>1, <2>2 DEF Prune, CertsInv, CertTypes
<1>5. SyncOK'
  BY <1>1 DEF CertsInv, SyncOK, Swapping
<1>6. ASSUME NEW h \in Host PROVE PairOK(h)' /\ (h = sync'.host => SwapOK(h)')
  <2>1. PairOK(h) /\ h # sync.host
    BY <1>1, HostsAreNumbers DEF CertsInv
  <2>2. listed' = listed /\ pruned' = pruned \cup (listed \ sync.wanted)
        /\ torn' = torn \cap sync.wanted
    BY DEF Prune
  <2>3. CASE h \in sync.wanted
    BY <1>1, <1>3, <2>1, <2>2, <2>3 DEF PairOK
  <2>4. CASE h \notin sync.wanted
    <3>1. h \notin sync.served
      BY <2>4 DEF CertsInv, SyncOK
    <3> QED
      BY <1>1, <1>3, <2>1, <2>2, <2>4, <3>1 DEF PairOK
  <2> QED
    BY <2>3, <2>4
<1> QED
  BY <1>4, <1>5, <1>6 DEF CertsInv

\* Between two Syncs nothing is in hand.
LEMMA NoSyncTypes == CertTypes => /\ NoSync.at = "idle" /\ NoSync.host = NoHost /\ NoSync.served = {}
                                  /\ NoSync \in [at : {"idle", "hosts", "list"} \cup Swapping,
                                       wanted : SUBSET Host, left : SUBSET Host, served : SUBSET Host,
                                       host : Host \cup {NoHost}, had : BOOLEAN]
  BY DEF NoSync

\* The list names what this Sync found or installed, or stays the old one.
LEMMA WriteListKeeps == CertsInv /\ WriteList => CertsInv'
<1> SUFFICES ASSUME CertsInv, WriteList PROVE CertsInv'
  OBVIOUS
<1>1. sync' = NoSync /\ sync.host = NoHost /\ UNCHANGED <<disk, due, torn>>
  BY DEF WriteList, CertsInv, SyncOK, Swapping
<1>2. sync'.at = "idle" /\ sync'.host = NoHost /\ sync'.served = {} /\ sync'.left = {}
      /\ sync'.wanted = {}
  BY <1>1 DEF NoSync
<1>3. CertTypes'
  <2>1. listed' \subseteq Host
    BY DEF WriteList, CertsInv, CertTypes
  <2> QED
    BY <1>1, <2>1, NoSyncTypes DEF CertsInv, CertTypes
<1>4. SyncOK'
  BY <1>2 DEF SyncOK, Swapping
<1>5. ASSUME NEW h \in Host PROVE PairOK(h)' /\ (h = sync'.host => SwapOK(h)')
  <2>1. PairOK(h) /\ h # sync.host /\ h # sync'.host
    BY <1>1, <1>2, HostsAreNumbers DEF CertsInv
  <2>2. CASE listed' = sync.served /\ pruned' = {}
    BY <1>1, <1>2, <2>1, <2>2 DEF PairOK
  <2>3. CASE UNCHANGED <<listed, pruned>>
    BY <1>1, <1>2, <2>1, <2>3 DEF PairOK
  <2> QED
    BY <2>1, <2>2, <2>3 DEF WriteList
<1> QED
  BY <1>3, <1>4, <1>5 DEF CertsInv

\* A Sync begins with the hosts that are wanted now.
LEMMA SyncStartKeeps == CertsInv /\ SyncStart => CertsInv'
<1> SUFFICES ASSUME CertsInv, SyncStart PROVE CertsInv'
  OBVIOUS
<1>1. Wanted \subseteq Host
  BY DEF Wanted, Host
<1>2. /\ sync'.at = "hosts" /\ sync'.host = NoHost /\ sync'.served = {}
      /\ sync'.left = Wanted /\ sync'.wanted = Wanted
      /\ sync.host = NoHost /\ UNCHANGED <<disk, due, listed, torn, pruned>>
  BY DEF SyncStart, NoSync, certs, CertsInv, SyncOK, Swapping
<1>3. CertTypes'
  <2>1. sync' \in [at : {"idle", "hosts", "list"} \cup Swapping, wanted : SUBSET Host,
                   left : SUBSET Host, served : SUBSET Host, host : Host \cup {NoHost},
                   had : BOOLEAN]
    BY <1>1 DEF SyncStart, NoSync
  <2> QED
    BY <1>2, <2>1 DEF CertsInv, CertTypes
<1>4. SyncOK'
  BY <1>2 DEF SyncOK, Swapping
<1>5. ASSUME NEW h \in Host PROVE PairOK(h)' /\ (h = sync'.host => SwapOK(h)')
  <2>1. PairOK(h) /\ h # sync.host /\ h # sync'.host
    BY <1>2, HostsAreNumbers DEF CertsInv
  <2> QED
    BY <1>2, <2>1 DEF PairOK
<1> QED
  BY <1>3, <1>4, <1>5 DEF CertsInv

\* A crash tears the pair it catches between its two renames, and no other.
LEMMA CertsCrashKeeps == CertsInv /\ CertsCrash => CertsInv'
<1> SUFFICES ASSUME CertsInv, CertsCrash PROVE CertsInv'
  OBVIOUS
<1>1. sync' = NoSync /\ UNCHANGED <<disk, due, listed, pruned>>
      /\ torn' = torn \cup {h \in {sync.host} \ {NoHost} : disk[h].key # disk[h].pem}
  BY DEF CertsCrash
<1>2. sync'.at = "idle" /\ sync'.host = NoHost /\ sync'.served = {} /\ sync'.left = {}
      /\ sync'.wanted = {}
  BY <1>1 DEF NoSync
<1>3. CertTypes'
  BY <1>1, NoSyncTypes DEF CertsInv, CertTypes
<1>4. SyncOK'
  BY <1>2 DEF SyncOK, Swapping
<1>5. ASSUME NEW h \in Host PROVE PairOK(h)' /\ (h = sync'.host => SwapOK(h)')
  <2>1. PairOK(h) /\ h # sync'.host /\ h # NoHost
    BY <1>2, HostsAreNumbers DEF CertsInv
  <2>2. CASE h = sync.host
    <3>1. SwapOK(h)
      BY <2>2 DEF CertsInv
    <3> QED
      BY <1>1, <1>2, <2>1, <2>2, <3>1 DEF PairOK, SwapOK
  <2>3. CASE h # sync.host
    BY <1>1, <1>2, <2>1, <2>3 DEF PairOK
  <2> QED
    BY <2>2, <2>3
<1> QED
  BY <1>3, <1>4, <1>5 DEF CertsInv

\* A leaf that comes due, and anything that leaves the files alone.
LEMMA CertsStay ==
  ASSUME CertsInv, UNCHANGED <<disk, listed, torn, pruned, sync>>, due' \subseteq Host
  PROVE  CertsInv'
<1>1. CertTypes'
  BY DEF CertsInv, CertTypes
<1>2. SyncOK'
  BY DEF CertsInv, SyncOK
<1>3. ASSUME NEW h \in Host PROVE PairOK(h)' /\ (h = sync'.host => SwapOK(h)')
  <2>1. PairOK(h) /\ (h = sync.host => SwapOK(h))
    BY DEF CertsInv
  <2> QED
    BY <2>1 DEF PairOK, SwapOK
<1> QED
  BY <1>1, <1>2, <1>3 DEF CertsInv

\* The certificates start empty.
LEMMA CertsStart == CertsInit => CertsInv
<1> SUFFICES ASSUME CertsInit PROVE CertsInv
  OBVIOUS
<1>1. disk \in [Host -> Files] /\ \A h \in Host : disk[h].pem = 0 /\ disk[h].key = 0
  BY DEF CertsInit, NoFiles, Files
<1>2. sync.at = "idle" /\ sync.host = NoHost /\ sync.served = {} /\ sync.left = {} /\ sync.wanted = {}
  BY DEF CertsInit, NoSync
<1>3. CertTypes
  BY <1>1 DEF CertsInit, CertTypes, NoSync
<1>4. SyncOK
  BY <1>2 DEF SyncOK, Swapping
<1>5. ASSUME NEW h \in Host PROVE PairOK(h) /\ (h = sync.host => SwapOK(h))
  BY <1>1, <1>2, HostsAreNumbers DEF CertsInit, PairOK
<1> QED
  BY <1>3, <1>4, <1>5 DEF CertsInv

\* Every step of a Sync, of the clock and of the table keeps the certificates' invariant.
LEMMA CertsStep ==
  ASSUME CertsInv, CertsNext \/ CertsCrash \/ UNCHANGED <<certs, sync>>
  PROVE  CertsInv'
<1>1. CASE SyncStart
  BY <1>1, SyncStartKeeps
<1>2. CASE ListFails
  <2>1. UNCHANGED <<disk, listed, torn, pruned, sync>> /\ due' \subseteq Host
    BY <1>2 DEF ListFails, certs, CertsInv, CertTypes
  <2> QED
    BY <2>1, CertsStay
<1>3. CASE SyncStep
  BY <1>3, CheckHostKeeps, SetKeyAsideKeeps, PutKeyKeeps, PutPemKeeps, PruneKeeps, WriteListKeeps
     DEF SyncStep
<1>4. ASSUME NEW h \in Host, Age(h) PROVE CertsInv'
  <2>1. UNCHANGED <<disk, listed, torn, pruned, sync>> /\ due' \subseteq Host
    BY <1>4 DEF Age, CertsInv, CertTypes
  <2> QED
    BY <2>1, CertsStay
<1>5. CASE CertsCrash
  BY <1>5, CertsCrashKeeps
<1>6. CASE UNCHANGED <<certs, sync>>
  <2>1. UNCHANGED <<disk, listed, torn, pruned, sync>> /\ due' \subseteq Host
    BY <1>6 DEF certs, CertsInv, CertTypes
  <2> QED
    BY <2>1, CertsStay
<1> QED
  BY <1>1, <1>2, <1>3, <1>4, <1>5, <1>6 DEF CertsNext

\* The invariant says of every listed pair what the property asks.
LEMMA CertsMatch == CertsInv => PairsMatch
<1> SUFFICES ASSUME CertsInv, NEW h \in listed, h \notin {sync.host} \cup torn \cup pruned
             PROVE  disk[h].key = disk[h].pem /\ disk[h].key # 0
  BY DEF PairsMatch
<1>1. h \in Host
  BY DEF CertsInv, CertTypes
<1> QED
  BY <1>1 DEF CertsInv, PairOK

-----------------------------------------------------------------------------
(* The door.                                                               *)

Box == {"proxy", "connector"}
Spec == Token \cup {"none", "tunnel", "local_ca", "ports"}
BoxType == [Box -> [spec : Spec, up : BOOLEAN]]
Places == {"find", "pull", "stop", "remove", "create", "start"}
Finished(w, t) == box[w] = [spec |-> Desired(w, t), up |-> Desired(w, t) # "none"]
Other(w) == IF w = "proxy" THEN "connector" ELSE "proxy"

DoorTypes ==
  /\ token \in Token \cup {Off} /\ ask \subseteq Token \cup {Off}
  /\ box \in BoxType
  /\ failed \in BOOLEAN /\ gap \in BOOLEAN
  /\ boot \in {"certs", "infra", "done"}
  /\ \A w \in Box : box[w].spec = "none" => ~box[w].up

\* A reconcile works for the stored token, or a page that changed it since waits;
\* it is at the first of its two containers, or at the second with the first
\* finished; and where it is tells what that container is like.
RecOK ==
  \/ rec = NoRec
  \/ /\ rec = [at |-> rec.at, tok |-> rec.tok, plan |-> rec.plan]
     /\ rec.at \in Places /\ rec.tok \in Token \cup {Off}
     /\ \/ rec.plan = Plan(rec.tok)
        \/ rec.plan = Tail(Plan(rec.tok)) /\ Finished(Other(W), rec.tok)
     /\ rec.at \in {"pull", "create", "start"} => Want # "none"
     /\ rec.at = "start" => box[W].spec = Want
     /\ token = rec.tok \/ ask # {}

DoorInv == DoorTypes /\ RecOK /\ FollowsToken /\ PortlessHasTunnel

\* The two plans.
LEMMA PlanIsTwo ==
  ASSUME NEW t
  PROVE  /\ Len(Plan(t)) = 2 /\ Len(Tail(Plan(t))) = 1
         /\ Head(Plan(t)) = IF t # Off THEN "connector" ELSE "proxy"
         /\ Head(Tail(Plan(t))) = IF t # Off THEN "proxy" ELSE "connector"
  BY DEF Plan

\* What each container should be under a token.
LEMMA DesiredIs ==
  ASSUME NEW t \in Token \cup {Off}
  PROVE  /\ Desired("connector", t) \in Spec /\ Desired("proxy", t) \in Spec
         /\ Desired("proxy", t) # "none"
         /\ Desired("proxy", t) = "tunnel" <=> t # Off
         /\ Desired("connector", t) # "none" <=> t # Off
  BY IngressAssumption DEF Desired, connectorSpec, proxyConfig, Off, Spec

\* The reconcile that holds the mutex is at one of the two containers.
LEMMA AtWork ==
  ASSUME DoorInv, rec.at # "idle"
  PROVE  /\ rec = [at |-> rec.at, tok |-> rec.tok, plan |-> rec.plan]
         /\ rec.at \in Places /\ rec.tok \in Token \cup {Off}
         /\ W \in Box /\ Want \in Spec
         /\ rec.plan = Plan(rec.tok) \/ rec.plan = Tail(Plan(rec.tok))
<1>1. rec # NoRec
  BY DEF NoRec
<1>2. /\ rec = [at |-> rec.at, tok |-> rec.tok, plan |-> rec.plan]
      /\ rec.at \in Places /\ rec.tok \in Token \cup {Off}
      /\ rec.plan = Plan(rec.tok) \/ rec.plan = Tail(Plan(rec.tok))
  BY <1>1 DEF DoorInv, RecOK
<1>3. W \in Box
  BY <1>2, PlanIsTwo DEF W, Box
<1> QED
  BY <1>2, <1>3, DesiredIs DEF Want, Box

\* A step that stays with its container: it may touch that container alone, and a
\* way in is left or the connector is being replaced.
LEMMA Stays ==
  ASSUME DoorInv, rec.at # "idle", NEW at \in Places \ {"find"}, rec' = [rec EXCEPT !.at = at],
         UNCHANGED <<boot, failed, gap, localCA, token, ask>>,
         NEW b \in [spec : Spec, up : BOOLEAN], box' = [box EXCEPT ![W] = b],
         b.spec = "none" => ~b.up,
         at \in {"pull", "create", "start"} => Want # "none",
         at = "start" => b.spec = Want,
         W = "proxy" /\ b.up => b = box["proxy"],
         at = "pull" => rec.at = "find" /\ b = box[W],
         W = "connector" /\ Want = "none" => at \in {"stop", "remove"}
  PROVE  DoorInv'
<1>0. PICK w, t, d : w = W /\ t = rec.tok /\ d = Want
  OBVIOUS
<1>1. /\ rec = [at |-> rec.at, tok |-> t, plan |-> rec.plan]
      /\ rec.at \in Places /\ t \in Token \cup {Off} /\ w \in Box
      /\ rec.plan = Plan(t) \/ rec.plan = Tail(Plan(t))
  BY <1>0, AtWork
<1>2. rec'.at = at /\ rec'.tok = t /\ rec'.plan = rec.plan
      /\ rec' = [at |-> rec'.at, tok |-> rec'.tok, plan |-> rec'.plan]
  BY <1>1
<1>3. W' = w
  BY <1>0, <1>2 DEF W
<1>4. \A v, s : Desired(v, s)' = Desired(v, s)
  BY DEF Desired, connectorSpec, proxyConfig
<1>5. Want' = d
  BY <1>0, <1>2, <1>3, <1>4 DEF Want
<1>6. box' \in BoxType /\ box'[w] = b /\ \A v \in Box \ {w} : box'[v] = box[v]
  BY <1>0, <1>1 DEF DoorInv, DoorTypes, BoxType
<1>7. DoorTypes'
  BY <1>6 DEF DoorInv, DoorTypes
<1>8. RecOK'
  <2>1. \/ rec.plan = Plan(t)
        \/ rec.plan = Tail(Plan(t)) /\ Finished(Other(w), t)
    BY <1>0, <1>1 DEF DoorInv, RecOK, NoRec
  <2>2. Finished(Other(w), t) => Finished(Other(w), t)'
    <3>1. Other(w) \in Box \ {w}
      BY <1>1 DEF Other, Box
    <3> QED
      BY <3>1, <1>4, <1>6 DEF Finished
  <2>3. token = t \/ ask # {}
    BY <1>0, <1>1 DEF DoorInv, RecOK, NoRec
  <2> QED
    BY <2>1, <2>2, <2>3, <1>0, <1>1, <1>2, <1>3, <1>5, <1>6 DEF RecOK
<1>9. FollowsToken'
  BY <1>2 DEF FollowsToken, Places
<1>10. PortlessHasTunnel'
  <2> SUFFICES ASSUME box'["proxy"].up, box'["proxy"].spec = "tunnel", ~gap
               PROVE  \/ box'["connector"].up
                      \/ at \in {"stop", "remove", "create", "start"} /\ w = "connector" /\ d # "none"
    BY <1>2, <1>3, <1>5 DEF PortlessHasTunnel
  <2>1. box["proxy"].up /\ box["proxy"].spec = "tunnel"
    BY <1>0, <1>6 DEF Box
  <2>2. \/ box["connector"].up
        \/ rec.at \in {"stop", "remove", "create", "start"} /\ w = "connector" /\ d # "none"
    BY <1>0, <2>1 DEF DoorInv, PortlessHasTunnel
  <2>3. CASE w = "proxy"
    BY <2>2, <2>3, <1>6 DEF Box
  <2>4. CASE w = "connector" /\ d # "none"
    BY <2>2, <2>4, <1>0, <1>6 DEF Places
  <2>5. CASE w = "connector" /\ d = "none"
    <3>1. t = Off
      BY <2>5, <1>0, <1>1, DesiredIs DEF Want
    <3>2. Finished("proxy", Off)
      <4>1. rec.plan # Plan(t)
        BY <3>1, <2>5, <1>0, PlanIsTwo DEF W
      <4>2. Finished(Other(w), t)
        BY <4>1, <1>0, <1>1 DEF DoorInv, RecOK, NoRec
      <4> QED
        BY <4>2, <3>1, <2>5 DEF Other
    <3> QED
      BY <3>2, <2>1, DesiredIs DEF Finished
  <2> QED
    BY <2>3, <2>4, <2>5, <1>1 DEF Box
<1> QED
  BY <1>7, <1>8, <1>9, <1>10 DEF DoorInv

\* A container is finished: the next one follows, or the reconcile ends and both are.
LEMMA Advances ==
  ASSUME DoorInv, rec.at # "idle", Advance,
         UNCHANGED <<localCA, token, ask>>, gap' \in BOOLEAN,
         NEW b \in [spec : Spec, up : BOOLEAN], box' = [box EXCEPT ![W] = b],
         b = [spec |-> Want, up |-> Want # "none"],
         gap /\ ~gap' => W = "connector" /\ Want # "none"
  PROVE  DoorInv'
<1>0. PICK w, t, d : w = W /\ t = rec.tok /\ d = Want
  OBVIOUS
<1>1. /\ rec = [at |-> rec.at, tok |-> t, plan |-> rec.plan]
      /\ rec.at \in Places /\ t \in Token \cup {Off} /\ w \in Box
      /\ rec.plan = Plan(t) \/ rec.plan = Tail(Plan(t))
  BY <1>0, AtWork
<1>2. \A v, s : Desired(v, s)' = Desired(v, s)
  BY DEF Desired, connectorSpec, proxyConfig
<1>3. box' \in BoxType /\ box'[w] = b /\ \A v \in Box \ {w} : box'[v] = box[v]
  BY <1>0, <1>1 DEF DoorInv, DoorTypes, BoxType
<1>4. Finished(w, t)'
  BY <1>0, <1>2, <1>3 DEF Finished, Want
<1>5. rec.plan = Tail(Plan(t)) => Finished(Other(w), t)'
  <2> SUFFICES ASSUME rec.plan = Tail(Plan(t)) PROVE Finished(Other(w), t)'
    OBVIOUS
  <2>1. rec.plan # Plan(t)
    BY PlanIsTwo
  <2>2. Finished(Other(w), t)
    BY <2>1, <1>0, <1>1 DEF DoorInv, RecOK, NoRec
  <2>3. Other(w) \in Box \ {w}
    BY <1>1 DEF Other, Box
  <2> QED
    BY <2>2, <2>3, <1>2, <1>3 DEF Finished
<1>6. /\ failed' \in BOOLEAN
      /\ boot' \in {"certs", "infra", "done"}
  BY DEF Advance, DoorInv, DoorTypes
<1>7. DoorTypes'
  <2>1. b.spec = "none" => ~b.up
    OBVIOUS
  <2>2. \A v \in Box : box'[v].spec = "none" => ~box'[v].up
    BY <2>1, <1>1, <1>3 DEF DoorInv, DoorTypes
  <2> QED
    BY <2>2, <1>3, <1>6 DEF DoorInv, DoorTypes
<1>8. token = t \/ ask # {}
  BY <1>0, <1>1 DEF DoorInv, RecOK, NoRec
<1>9. PortlessHasTunnel'
  <2> SUFFICES ASSUME box'["proxy"].up, box'["proxy"].spec = "tunnel", ~gap'
               PROVE  box'["connector"].up
    BY DEF PortlessHasTunnel
  <2>1. CASE w = "connector" /\ d # "none"
    BY <2>1, <1>0, <1>3
  <2>2. CASE w = "connector" /\ d = "none"
    <3>1. t = Off
      BY <2>2, <1>0, <1>1, DesiredIs DEF Want
    <3>2. rec.plan # Plan(t)
      BY <3>1, <2>2, <1>0, PlanIsTwo DEF W
    <3>3. Finished("proxy", Off)'
      BY <3>1, <3>2, <2>2, <1>1, <1>5 DEF Other
    <3> QED
      BY <3>3, <1>2, DesiredIs DEF Finished
  <2>3. CASE w = "proxy"
    <3>1. t # Off
      BY <2>3, <1>0, <1>1, <1>3, DesiredIs DEF Want
    <3>2. rec.plan # Plan(t)
      BY <3>1, <2>3, <1>0, PlanIsTwo DEF W
    <3>3. Finished("connector", t)'
      BY <3>2, <2>3, <1>1, <1>5 DEF Other
    <3> QED
      <4>1. Desired("connector", t)' # "none"
        BY <3>1, <1>1, <1>2, DesiredIs
      <4>2. (Desired("connector", t) # "none")' = TRUE
        BY <4>1
      <4>3. box'["connector"].up = (Desired("connector", t) # "none")'
        BY <3>3 DEF Finished
      <4> QED
        BY <4>2, <4>3
  <2> QED
    BY <2>1, <2>2, <2>3, <1>1 DEF Box
<1>10. CASE rec.plan = Plan(t)
  <2>1. Len(rec.plan) > 1
    BY <1>10, PlanIsTwo
  <2>2. rec' = [rec EXCEPT !.at = "find", !.plan = Tail(@)]
    BY <2>1 DEF Advance
  <2>3. rec'.at = "find" /\ rec'.tok = t /\ rec'.plan = Tail(Plan(t))
        /\ rec' = [at |-> rec'.at, tok |-> rec'.tok, plan |-> rec'.plan]
    <3>1. rec'.at = "find" /\ rec'.tok = t /\ rec'.plan = Tail(rec.plan)
      BY <2>2, <1>1
    <3>2. rec' = [at |-> rec'.at, tok |-> rec'.tok, plan |-> rec'.plan]
      BY <2>2, <1>1
    <3> QED
      BY <3>1, <3>2, <1>10
  <2>4. Other(W') = w
    BY <2>3, <1>0, <1>1, <1>10, PlanIsTwo DEF W, Other
  <2>5. Finished(Other(W), rec.tok)'
    BY <2>3, <2>4, <1>4 DEF Finished
  <2>6. RecOK'
    BY <2>3, <2>5, <1>1, <1>8 DEF RecOK, Places
  <2>7. FollowsToken'
    BY <2>3 DEF FollowsToken
  <2> QED
    BY <2>6, <2>7, <1>7, <1>9 DEF DoorInv
<1>11. CASE rec.plan = Tail(Plan(t))
  <2>1. ~(Len(rec.plan) > 1)
    <3>1. Len(rec.plan) = 1
      BY <1>11, PlanIsTwo
    <3> QED
      BY <3>1
  <2>2. rec' = NoRec
    BY <2>1 DEF Advance
  <2>3. RecOK'
    BY <2>2 DEF RecOK
  <2>4. FollowsToken'
    <3>1. Finished("proxy", t)' /\ Finished("connector", t)'
      BY <1>1, <1>4, <1>5, <1>11 DEF Box, Other
    <3> QED
      BY <3>1, <1>2, <1>8 DEF FollowsToken, Finished
  <2> QED
    BY <2>3, <2>4, <1>7, <1>9 DEF DoorInv
<1> QED
  BY <1>1, <1>10, <1>11

\* An error ends the reconcile and leaves the containers as they are.
LEMMA Errs ==
  ASSUME DoorInv, rec.at # "idle", Err, UNCHANGED <<localCA, token, ask>>
  PROVE  DoorInv'
<1>1. rec' = NoRec /\ failed' = TRUE /\ box' = box
  BY DEF Err
<1>2. DoorTypes'
  <2>1. boot' \in {"certs", "infra", "done"} /\ gap' \in BOOLEAN
    BY DEF Err, DoorInv, DoorTypes
  <2> QED
    BY <1>1, <2>1 DEF DoorInv, DoorTypes
<1>3. RecOK' /\ FollowsToken'
  BY <1>1 DEF RecOK, FollowsToken
<1>4. PortlessHasTunnel'
  BY <1>1 DEF DoorInv, PortlessHasTunnel, Err
<1> QED
  BY <1>2, <1>3, <1>4 DEF DoorInv

\* A step that leaves the reconcile and the containers alone: a token written with a
\* page that waits, or the process coming up.
LEMMA DoorStays ==
  ASSUME DoorInv, UNCHANGED <<box, rec, failed, gap, localCA>>,
         token' \in Token \cup {Off}, ask' \subseteq Token \cup {Off},
         UNCHANGED <<token, ask>> \/ ask' # {},
         boot' \in {"certs", "infra", "done"}, boot' = "done" => boot = "done"
  PROVE  DoorInv'
<1>1. DoorTypes'
  BY DEF DoorInv, DoorTypes
<1>2. \A v, s : Desired(v, s)' = Desired(v, s)
  BY DEF Desired, connectorSpec, proxyConfig
<1>3. W' = W /\ Want' = Want
  BY <1>2 DEF W, Want
<1>4. \A v, s : Finished(v, s)' <=> Finished(v, s)
  BY <1>2 DEF Finished
<1>5. RecOK'
  BY <1>3, <1>4 DEF DoorInv, RecOK
<1>6. FollowsToken'
  BY <1>2 DEF DoorInv, FollowsToken
<1>7. PortlessHasTunnel'
  BY <1>3 DEF DoorInv, PortlessHasTunnel
<1> QED
  BY <1>1, <1>5, <1>6, <1>7 DEF DoorInv

\* A reconcile begins with the first container of the stored token's plan.
LEMMA Begins ==
  ASSUME DoorInv, rec.at = "idle", Begin(token), UNCHANGED <<box, failed, gap, localCA, token>>,
         ask' \subseteq ask, boot' \in {"certs", "infra", "done"}
  PROVE  DoorInv'
<1>1. rec'.at = "find" /\ rec'.tok = token /\ rec'.plan = Plan(token)
      /\ rec' = [at |-> rec'.at, tok |-> rec'.tok, plan |-> rec'.plan]
  BY DEF Begin
<1>2. DoorTypes'
  BY DEF DoorInv, DoorTypes
<1>3. RecOK'
  BY <1>1 DEF RecOK, Places, DoorInv, DoorTypes
<1>4. FollowsToken'
  BY <1>1 DEF FollowsToken
<1>5. PortlessHasTunnel'
  BY DEF DoorInv, PortlessHasTunnel
<1> QED
  BY <1>2, <1>3, <1>4, <1>5 DEF DoorInv

\* A container that is not touched is the one it was.
LEMMA Untouched ==
  ASSUME DoorInv, rec.at # "idle"
  PROVE  /\ box[W] \in [spec : Spec, up : BOOLEAN]
         /\ box = [box EXCEPT ![W] = box[W]]
         /\ box[W].spec = "none" => ~box[W].up
<1>1. W \in Box
  BY AtWork
<1> QED
  BY <1>1 DEF DoorInv, DoorTypes, BoxType

\* A container made for the wanted configuration is adopted, another is replaced.
LEMMA FindKeeps ==
  ASSUME DoorInv, FindContainer, UNCHANGED <<localCA, token, ask>>
  PROVE  DoorInv'
<1>0. PICK b, d, w : b = box[W] /\ d = Want /\ w = W
  OBVIOUS
<1>1. rec.at = "find" /\ rec.at # "idle"
  BY DEF FindContainer
<1>2. b \in [spec : Spec, up : BOOLEAN] /\ box = [box EXCEPT ![W] = b]
      /\ (b.spec = "none" => ~b.up) /\ w \in Box
  BY <1>0, <1>1, AtWork, Untouched
<1>3. CASE Err
  BY <1>1, <1>3, Errs
<1>4. ASSUME NEW at \in {"pull", "stop", "start"}, Goto(at), UNCHANGED <<boot, failed, box, gap>>,
             at \in {"pull", "start"} => d # "none",
             at = "start" => b.spec = d,
             at = "stop" => d = "none"
      PROVE  DoorInv'
  <2>1. at \in Places \ {"find"} /\ rec' = [rec EXCEPT !.at = at]
    BY <1>4 DEF Places, Goto
  <2>2. W = "proxy" /\ b.up => b = box["proxy"]
    BY <1>0
  <2>3. W = "connector" /\ Want = "none" => at \in {"stop", "remove"}
    BY <1>0, <1>4
  <2>4. box' = [box EXCEPT ![W] = b]
    BY <1>2, <1>4
  <2> QED
    BY <2>1, <2>2, <2>3, <2>4, <1>0, <1>1, <1>2, <1>4, Stays
<1>5. CASE ~HashMatches /\ Goto(IF Want = "none" THEN "stop" ELSE "pull")
           /\ UNCHANGED <<boot, failed, box, gap>>
  <2>1. CASE d = "none"
    BY <2>1, <1>0, <1>4, <1>5
  <2>2. CASE d # "none"
    BY <2>2, <1>0, <1>4, <1>5
  <2> QED
    BY <2>1, <2>2
<1>6. CASE HashMatches /\ Want # "none" /\ ~box[W].up /\ Goto("start")
           /\ UNCHANGED <<boot, failed, box, gap>>
  BY <1>0, <1>4, <1>6 DEF HashMatches
<1>7. CASE HashMatches /\ ~(Want # "none" /\ ~box[W].up) /\ Advance /\ UNCHANGED <<box, gap>>
  <2>1. b.spec = d /\ (b.up <=> d # "none")
    BY <1>0, <1>2, <1>7 DEF HashMatches
  <2>2. b = [spec |-> Want, up |-> Want # "none"]
    <3>1. CASE d = "none"
      BY <1>0, <1>2, <2>1, <3>1
    <3>2. CASE d # "none"
      BY <1>0, <1>2, <2>1, <3>2
    <3> QED
      BY <3>1, <3>2
  <2>3. gap' \in BOOLEAN /\ ~(gap /\ ~gap') /\ box' = [box EXCEPT ![W] = b]
    BY <1>2, <1>7 DEF DoorInv, DoorTypes
  <2> QED
    BY <2>2, <2>3, <1>1, <1>2, <1>7, Advances
<1> QED
  BY <1>3, <1>5, <1>6, <1>7 DEF FindContainer

\* A pull changes nothing on the server.
LEMMA PullKeeps ==
  ASSUME DoorInv, PullImage, UNCHANGED <<localCA, token, ask>>
  PROVE  DoorInv'
<1>0. PICK b, d : b = box[W] /\ d = Want
  OBVIOUS
<1>1. rec.at = "pull" /\ rec.at # "idle" /\ d # "none"
  BY <1>0 DEF PullImage, DoorInv, RecOK, NoRec
<1>2. b \in [spec : Spec, up : BOOLEAN] /\ box = [box EXCEPT ![W] = b]
      /\ (b.spec = "none" => ~b.up)
  BY <1>0, <1>1, Untouched
<1>3. CASE Err
  BY <1>1, <1>3, Errs
<1>4. ASSUME NEW at \in {"create", "stop"}, Goto(at), UNCHANGED <<boot, failed, gap, box>>
      PROVE  DoorInv'
  <2>1. at \in Places \ {"find"} /\ rec' = [rec EXCEPT !.at = at]
    BY <1>4 DEF Places, Goto
  <2>2. W = "proxy" /\ b.up => b = box["proxy"]
    BY <1>0
  <2>3. box' = [box EXCEPT ![W] = b] /\ at # "start" /\ at # "pull"
    BY <1>2, <1>4
  <2> QED
    BY <2>1, <2>2, <2>3, <1>0, <1>1, <1>2, <1>4, Stays
<1>5. CASE Goto(IF box[W].spec = "none" THEN "create" ELSE "stop")
           /\ UNCHANGED <<boot, failed, gap, box>>
  <2>1. CASE box[W].spec = "none"
    BY <2>1, <1>4, <1>5
  <2>2. CASE box[W].spec # "none"
    BY <2>2, <1>4, <1>5
  <2> QED
    BY <2>1, <2>2
<1> QED
  BY <1>3, <1>5 DEF PullImage

\* The old container is stopped, or does not stop.
LEMMA StopKeeps ==
  ASSUME DoorInv, StopContainer, UNCHANGED <<localCA, token, ask>>
  PROVE  DoorInv'
<1>1. rec.at = "stop" /\ rec.at # "idle"
  BY DEF StopContainer
<1>2. box[W] \in [spec : Spec, up : BOOLEAN] /\ box = [box EXCEPT ![W] = box[W]]
      /\ (box[W].spec = "none" => ~box[W].up)
  BY <1>1, Untouched
<1>3. ASSUME NEW b \in [spec : Spec, up : BOOLEAN], box' = [box EXCEPT ![W] = b],
             b.spec = "none" => ~b.up, b.up => b = box[W]
      PROVE  DoorInv'
  <2>1. "remove" \in Places \ {"find"} /\ rec' = [rec EXCEPT !.at = "remove"]
        /\ UNCHANGED <<boot, failed, gap>>
    BY DEF Places, Goto, StopContainer
  <2>2. W = "proxy" /\ b.up => b = box["proxy"]
    BY <1>3
  <2> QED
    BY <2>1, <2>2, <1>1, <1>3, Stays
<1>4. CASE box' = box
  BY <1>2, <1>3, <1>4
<1>5. CASE box' = [box EXCEPT ![W].up = FALSE]
  <2>1. PICK b : b = [box[W] EXCEPT !.up = FALSE]
    OBVIOUS
  <2>2. b \in [spec : Spec, up : BOOLEAN] /\ ~b.up /\ box' = [box EXCEPT ![W] = b]
    BY <2>1, <1>2, <1>5
  <2> QED
    BY <2>2, <1>3
<1> QED
  BY <1>4, <1>5 DEF StopContainer

\* It is removed; with nothing wanted in its place it is finished.
LEMMA RemoveKeeps ==
  ASSUME DoorInv, RemoveContainer, UNCHANGED <<localCA, token, ask>>
  PROVE  DoorInv'
<1>0. PICK d : d = Want
  OBVIOUS
<1>1. rec.at = "remove" /\ rec.at # "idle"
  BY DEF RemoveContainer
<1>2. Gone \in [spec : Spec, up : BOOLEAN] /\ ~Gone.up /\ Gone = [spec |-> "none", up |-> FALSE]
  BY DEF Gone, Spec
<1>3. CASE Err
  BY <1>1, <1>3, Errs
<1>4. CASE box' = [box EXCEPT ![W] = Gone] /\ gap' = gap /\ Want = "none" /\ Advance
  <2>1. Gone = [spec |-> Want, up |-> Want # "none"]
    BY <1>2, <1>4
  <2>2. gap' \in BOOLEAN /\ ~(gap /\ ~gap')
    BY <1>4 DEF DoorInv, DoorTypes
  <2> QED
    BY <2>1, <2>2, <1>1, <1>2, <1>4, Advances
<1>5. CASE box' = [box EXCEPT ![W] = Gone] /\ gap' = gap /\ Want # "none" /\ Goto("create")
           /\ UNCHANGED <<boot, failed>>
  <2>1. "create" \in Places \ {"find"} /\ rec' = [rec EXCEPT !.at = "create"]
    BY <1>5 DEF Places, Goto
  <2> QED
    BY <2>1, <1>1, <1>2, <1>5, Stays
<1> QED
  BY <1>3, <1>4, <1>5 DEF RemoveContainer

\* The new one is made for the wanted configuration.
LEMMA CreateKeeps ==
  ASSUME DoorInv, CreateContainer, UNCHANGED <<localCA, token, ask>>
  PROVE  DoorInv'
<1>0. PICK b, d : d = Want /\ b = [spec |-> d, up |-> FALSE]
  OBVIOUS
<1>1. rec.at = "create" /\ rec.at # "idle" /\ d # "none" /\ d \in Spec
  <2>1. rec.at = "create" /\ rec.at # "idle"
    BY DEF CreateContainer
  <2>2. d \in Spec
    BY <2>1, <1>0, AtWork
  <2> QED
    BY <2>1, <2>2, <1>0 DEF DoorInv, RecOK, NoRec
<1>2. b \in [spec : Spec, up : BOOLEAN] /\ ~b.up /\ b.spec = d
  BY <1>0, <1>1
<1>3. CASE Err
  BY <1>1, <1>3, Errs
<1>4. CASE box' = [box EXCEPT ![W] = [spec |-> Want, up |-> FALSE]] /\ Goto("start")
           /\ UNCHANGED <<boot, failed, gap>>
  <2>1. "start" \in Places \ {"find"} /\ rec' = [rec EXCEPT !.at = "start"]
    BY <1>4 DEF Places, Goto
  <2>2. box' = [box EXCEPT ![W] = b] /\ UNCHANGED <<boot, failed, gap>>
    BY <1>0, <1>4
  <2>3. b.spec = Want /\ Want # "none" /\ b.spec # "none" /\ "start" # "pull"
    BY <1>0, <1>1, <1>2
  <2>4. W = "proxy" /\ b.up => b = box["proxy"]
    BY <1>2
  <2> QED
    BY <2>1, <2>2, <2>3, <2>4, <1>1, <1>2, Stays
<1> QED
  BY <1>3, <1>4 DEF CreateContainer

\* Started, it is finished; a connector that starts closes the gap it left.
LEMMA StartKeeps ==
  ASSUME DoorInv, StartContainer, UNCHANGED <<localCA, token, ask>>
  PROVE  DoorInv'
<1>0. PICK b, d : d = Want /\ b = [box[W] EXCEPT !.up = TRUE]
  OBVIOUS
<1>1. rec.at = "start" /\ rec.at # "idle" /\ d # "none" /\ box[W].spec = d
  BY <1>0 DEF StartContainer, DoorInv, RecOK, NoRec
<1>2. box[W] \in [spec : Spec, up : BOOLEAN]
  BY <1>1, Untouched
<1>3. b \in [spec : Spec, up : BOOLEAN] /\ b.up /\ b.spec = d
  BY <1>0, <1>1, <1>2
<1>4. CASE Err
  BY <1>1, <1>4, Errs
<1>5. CASE box' = [box EXCEPT ![W].up = TRUE] /\ Advance /\ gap' = (gap /\ W # "connector")
  <2>1. box' = [box EXCEPT ![W] = b]
    BY <1>0, <1>5
  <2>2. b = [spec |-> Want, up |-> Want # "none"]
    BY <1>0, <1>1, <1>3
  <2>3. gap' \in BOOLEAN /\ (gap /\ ~gap' => W = "connector" /\ Want # "none")
    BY <1>0, <1>1, <1>5
  <2> QED
    BY <2>1, <2>2, <2>3, <1>1, <1>3, <1>5, Advances
<1> QED
  BY <1>4, <1>5 DEF StartContainer

\* The process comes up.
LEMMA BootKeeps == DoorInv /\ BootReconcile => DoorInv'
<1> SUFFICES ASSUME DoorInv, BootReconcile PROVE DoorInv'
  OBVIOUS
<1>1. rec.at = "idle" /\ UNCHANGED <<localCA, token, box, ask, gap>>
  BY DEF BootReconcile
<1>2. CASE Begin(token) /\ boot' = "infra" /\ UNCHANGED <<faults, failed>>
  BY <1>1, <1>2, Begins
<1>3. CASE failed' = TRUE /\ boot' = "done" /\ UNCHANGED rec
  <2>1. \A v, s : Desired(v, s)' = Desired(v, s)
    BY <1>1 DEF Desired, connectorSpec, proxyConfig
  <2>2. rec = NoRec
    BY <1>1 DEF DoorInv, RecOK, Places
  <2>3. DoorTypes'
    BY <1>1, <1>3 DEF DoorInv, DoorTypes
  <2>4. RecOK' /\ FollowsToken'
    BY <1>3, <2>2 DEF RecOK, FollowsToken
  <2>5. PortlessHasTunnel'
    BY <1>1, <1>3 DEF DoorInv, PortlessHasTunnel
  <2> QED
    BY <2>3, <2>4, <2>5 DEF DoorInv
<1> QED
  BY <1>2, <1>3 DEF BootReconcile

\* A crash in the middle of the connector's replacement leaves the gap it was in.
LEMMA CrashKeeps == DoorInv /\ Crash => DoorInv'
<1> SUFFICES ASSUME DoorInv, Crash PROVE DoorInv'
  OBVIOUS
<1>1. rec' = NoRec /\ ask' = {} /\ failed' = TRUE /\ boot' = "certs" /\ UNCHANGED <<localCA, token, box>>
      /\ gap' = (gap \/ (rec.at \notin {"idle", "find", "pull"} /\ W = "connector" /\ Want # "none"))
  BY DEF Crash
<1>2. DoorTypes'
  BY <1>1 DEF DoorInv, DoorTypes
<1>3. RecOK' /\ FollowsToken'
  BY <1>1 DEF RecOK, FollowsToken
<1>4. PortlessHasTunnel'
  BY <1>1 DEF DoorInv, PortlessHasTunnel
<1> QED
  BY <1>2, <1>3, <1>4 DEF DoorInv

\* A Sync moves the boot along no further than to the containers.
LEMMA CertsBoot == CertsNext => UNCHANGED door /\ UNCHANGED localCA /\ boot' \in {boot, "infra"}
<1> SUFFICES ASSUME CertsNext PROVE boot' \in {boot, "infra"}
  BY DEF CertsNext
<1>1. CASE SyncStep
  BY <1>1 DEF SyncStep, CheckHost, SetKeyAside, PutKey, PutPem, Prune, WriteList
<1> QED
  BY <1>1 DEF CertsNext, SyncStart, ListFails, Age

\* Every step keeps the door's invariant.
LEMMA DoorStep == DoorInv /\ [Next]_vars => DoorInv'
<1> SUFFICES ASSUME DoorInv, [Next]_vars PROVE DoorInv'
  OBVIOUS
<1>0. token \in Token \cup {Off} /\ ask \subseteq Token \cup {Off} /\ boot \in {"certs", "infra", "done"}
  BY DEF DoorInv, DoorTypes
<1>1. CASE TableNext \/ UNCHANGED vars
  <2>1. UNCHANGED <<box, rec, failed, gap, localCA, token, ask, boot>>
    BY <1>1 DEF TableNext, vars, door
  <2> QED
    BY <2>1, <1>0, DoorStays
<1>2. CASE CertsNext
  <2>1. UNCHANGED <<box, rec, failed, gap, localCA, token, ask>> /\ boot' \in {boot, "infra"}
    BY <1>2, CertsBoot DEF door
  <2> QED
    BY <2>1, <1>0, DoorStays
<1>3. CASE Reconcile
  BY <1>3, FindKeeps, PullKeeps, StopKeeps, RemoveKeeps, CreateKeeps, StartKeeps DEF Reconcile
<1>4. CASE BootReconcile
  BY <1>4, BootKeeps
<1>5. CASE Crash
  BY <1>5, CrashKeeps
<1>6. ASSUME NEW t \in Token \cup {Off}, SetToken(t) PROVE DoorInv'
  <2>1. token' = t /\ ask' = ask \cup {t} /\ UNCHANGED <<box, rec, failed, gap, localCA, boot>>
    BY <1>6 DEF SetToken
  <2> QED
    BY <2>1, <1>0, DoorStays
<1>7. ASSUME NEW t \in Token \cup {Off}, ReconcilePage(t) PROVE DoorInv'
  <2>1. rec.at = "idle" /\ Begin(token) /\ ask' \subseteq ask
        /\ UNCHANGED <<box, failed, gap, localCA, token, boot>>
    BY <1>7 DEF ReconcilePage, TokenStored
  <2> QED
    BY <2>1, <1>0, Begins
<1> QED
  BY <1>1, <1>2, <1>3, <1>4, <1>5, <1>6, <1>7 DEF Next

\* The server starts with neither container.
LEMMA DoorStart == Init => DoorInv
<1> SUFFICES ASSUME Init PROVE DoorInv
  OBVIOUS
<1>1. rec = NoRec /\ NoRec.at = "idle" /\ boot = "certs" /\ box \in BoxType
      /\ \A w \in Box : ~box[w].up
  BY DEF Init, CertsInit, NoRec, Gone, Box, BoxType, Spec
<1>2. DoorTypes
  BY <1>1 DEF Init, DoorTypes
<1>3. RecOK /\ FollowsToken /\ PortlessHasTunnel
  BY <1>1 DEF RecOK, FollowsToken, PortlessHasTunnel, Box
<1> QED
  BY <1>2, <1>3 DEF DoorInv

-----------------------------------------------------------------------------
(* Together.                                                               *)

IngressIInv == DomainsInv /\ CertsInv /\ DoorInv

\* Every step keeps the invariant of the table, of the leaves and of the door.
LEMMA IngressStep == IngressIInv /\ [Next]_vars => IngressIInv'
<1> SUFFICES ASSUME IngressIInv, [Next]_vars PROVE IngressIInv'
  OBVIOUS
<1>1. DomainsInv'
  <2>1. [DomainsNext]_table
    BY DEF Next, TableNext, CertsNext, Reconcile, BootReconcile, Crash, SetToken, ReconcilePage,
           vars, table
  <2> QED
    BY <2>1, DomainsStep DEF IngressIInv
<1>2. CertsInv'
  <2>1. CertsNext \/ CertsCrash \/ UNCHANGED <<certs, sync>>
    BY DEF Next, TableNext, Reconcile, BootReconcile, Crash, SetToken, ReconcilePage, vars
  <2> QED
    BY <2>1, CertsStep DEF IngressIInv
<1>3. DoorInv'
  BY DoorStep DEF IngressIInv
<1> QED
  BY <1>1, <1>2, <1>3 DEF IngressIInv

\* A fresh server satisfies it.
LEMMA IngressStart == Init => IngressIInv
  BY DomainsStart, CertsStart, DoorStart DEF Init, IngressIInv

\* Whatever the pages write, however their reconciles queue for the mutex, whichever
\* Docker call fails and wherever the process dies: between reconciles both
\* containers are what the stored token asks for, and a Traefik without ports has
\* the connector in front of it except in the gap a failed replacement left
\* (main.go reconcile, traefik/proxy.go, tunnel/connector.go).
THEOREM DoorFollowsToken == IngressSpec => []IngressInv
<1>1. IngressIInv => IngressInv
  BY DEF IngressIInv, IngressInv, IngressTypeOK, DomainsInv, CertsInv, CertTypes, Files, DoorInv,
         DoorTypes
<1> QED
  BY <1>1, IngressStart, IngressStep, PTL DEF IngressSpec

\* Traefik is never told of a leaf whose key is not its certificate's, whichever
\* rename fails, except in the middle of the swap or where a crash or a prune whose
\* list was not written cut it (installPair and Sync, localca/manager.go).
THEOREM ListedPairsMatch == IngressSpec => []PairsMatch
<1>1. IngressIInv => PairsMatch
  BY CertsMatch DEF IngressIInv
<1> QED
  BY <1>1, IngressStart, IngressStep, PTL DEF IngressSpec
=============================================================================

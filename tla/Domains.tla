------------------------------ MODULE Domains ------------------------------
(***************************************************************************)
(* The domain table (internal/store/domains.go): which app serves which    *)
(* route, and the copy of each app's first host that the lists read.       *)
(* Every operation is one transaction over the store's only connection.    *)
(***************************************************************************)
EXTENDS Naturals, FiniteSets

CONSTANTS
  App,
  Route,   \* (host, path) pairs, numbered in their order
  HostOf   \* the host of each route; hosts are numbered in their order too

ASSUME DomainsAssumption == Route \subseteq Nat \ {0} /\ HostOf \in [Route -> Nat \ {0}]

VARIABLES
  apps,    \* the apps that exist
  rows,    \* each app's routes: "none", "plain" or "tls"
  primary  \* apps.domain, 0 when empty

table == <<apps, rows, primary>>

NoHost == 0
Rows(a) == {r \in Route : rows[a][r] # "none"}

\* checkRouteFreeTx: the same host on another path is another route.
RouteFree(a, r) == \A b \in App \ {a} : rows[b][r] = "none"

\* syncPrimaryDomainTx
FirstHost(a, f) ==
  LET mine == {r \in Route : f[r] # "none"} IN
  IF mine = {} THEN NoHost ELSE HostOf[CHOOSE r \in mine : \A q \in mine : r <= q]

Write(a, f) ==
  /\ rows' = [rows EXCEPT ![a] = f]
  /\ primary' = [primary EXCEPT ![a] = FirstHost(a, f)]

DomainsInit ==
  /\ apps = {}
  /\ rows = [a \in App |-> [r \in Route |-> "none"]]
  /\ primary = [a \in App |-> NoHost]

\* A refused route refuses the app.
CreateAppWithDomains(a, R) ==
  /\ a \notin apps /\ \A r \in R : RouteFree(a, r)
  /\ apps' = apps \cup {a}
  /\ Write(a, [r \in Route |-> IF r \in R THEN "tls" ELSE "none"])

AddDomain(a, r, tls) ==
  /\ a \in apps /\ rows[a][r] = "none" /\ RouteFree(a, r)
  /\ Write(a, [rows[a] EXCEPT ![r] = tls])
  /\ UNCHANGED apps

\* A row that stays where it is is not checked.
UpdateDomain(a, r, q, tls) ==
  /\ rows[a][r] # "none"
  /\ q # r => RouteFree(a, q) /\ rows[a][q] = "none"
  /\ Write(a, [rows[a] EXCEPT ![r] = "none", ![q] = tls])
  /\ UNCHANGED apps

DeleteDomain(a, r) ==
  /\ rows[a][r] # "none"
  /\ Write(a, [rows[a] EXCEPT ![r] = "none"])
  /\ UNCHANGED apps

DeleteApp(a) ==
  /\ a \in apps
  /\ apps' = apps \ {a}
  /\ Write(a, [r \in Route |-> "none"])

DomainsNext ==
  \E a \in App :
    \/ \E R \in SUBSET Route : Cardinality(R) <= 1 /\ CreateAppWithDomains(a, R)
    \/ \E r \in Route, tls \in {"plain", "tls"} :
         AddDomain(a, r, tls) \/ \E q \in Route : UpdateDomain(a, r, q, tls)
    \/ \E r \in Route : DeleteDomain(a, r)
    \/ DeleteApp(a)

DomainsSpec == DomainsInit /\ [][DomainsNext]_table

\* No two apps serve one route: Traefik would pick one of them arbitrarily.
OneOwner == \A a, b \in App, r \in Route : rows[a][r] # "none" /\ rows[b][r] # "none" => a = b

\* The list's copy names the host the app's first route has, whatever was added,
\* moved or removed in between.
MirrorIsFirst == \A a \in App :
  IF Rows(a) = {} THEN primary[a] = NoHost
  ELSE \E r \in Rows(a) : primary[a] = HostOf[r] /\ \A q \in Rows(a) : r <= q

DomainsTypeOK ==
  /\ apps \subseteq App
  /\ rows \in [App -> [Route -> {"none", "plain", "tls"}]]
  /\ primary \in [App -> Nat]
  /\ \A a \in App : Rows(a) # {} => a \in apps
=============================================================================

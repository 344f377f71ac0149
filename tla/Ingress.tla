------------------------------ MODULE Ingress ------------------------------
(***************************************************************************)
(* The front door: the managed Traefik (internal/traefik), the cloudflared *)
(* connector (internal/tunnel) and the reconcile in main.go that makes     *)
(* both follow the stored tunnel token, at boot and whenever the Settings  *)
(* page turns the tunnel on or off; with the local CA beside them.  Docker *)
(* calls fail and the process may die between any two.                     *)
(***************************************************************************)
EXTENDS LocalCerts, Sequences

CONSTANTS
  Token,      \* connector tokens
  MaxWaiting  \* bound: Settings requests that wait for the mutex together

\* No token is one of the words for having none.
ASSUME IngressAssumption == Token \cap {"off", "none"} = {} /\ MaxWaiting \in Nat

VARIABLES
  token,   \* the stored token, "off" without one
  box,     \* the two containers: what each was created for, and whether it runs
  rec,     \* the reconcile that holds the mutex
  ask,     \* the tokens pages wrote and wait to reconcile
  failed,  \* history: the last reconcile did not finish
  gap      \* history: one failed while it was replacing the connector

door == <<token, box, rec, ask, failed, gap>>
vars == <<table, certs, sync, asked, boot, localCA, faults, crashes, door>>

Off == "off"
Gone == [spec |-> "none", up |-> FALSE]
NoRec == [at |-> "idle", tok |-> Off, plan |-> <<>>]

Init ==
  /\ DomainsInit /\ CertsInit
  /\ token = Off /\ rec = NoRec /\ ask = {}
  /\ box = [w \in {"proxy", "connector"} |-> Gone]
  /\ failed = FALSE /\ gap = FALSE

\* EnsureConnector before EnsureProxy with the tunnel on, after it with the tunnel off.
Plan(t) == IF t # Off THEN <<"connector", "proxy">> ELSE <<"proxy", "connector">>

\* The tunnel forces plain HTTP without ports.
proxyConfig(t) == IF t # Off THEN "tunnel" ELSE IF localCA THEN "local_ca" ELSE "ports"
connectorSpec(t) == IF t # Off THEN t ELSE "none"
Desired(w, t) == IF w = "connector" THEN connectorSpec(t) ELSE proxyConfig(t)

-----------------------------------------------------------------------------
(* The Settings page.                                                      *)

\* The token is written outside the mutex; Enable refuses under the local CA.
SetToken(t) ==
  /\ boot = "done" /\ Cardinality(ask) < MaxWaiting
  /\ t # Off => ~localCA
  /\ token' = t
  /\ ask' = ask \cup {t}
  /\ UNCHANGED <<table, certs, sync, asked, boot, localCA, faults, crashes, box, rec, failed, gap>>

-----------------------------------------------------------------------------
(* reconcile, one caller at a time.                                        *)

\* Mutant of TokenStored: the request's own token, which another may have replaced.
TokenAsked(t) == t
TokenStored(t) == token

Begin(t) == rec' = [at |-> "find", tok |-> t, plan |-> Plan(t)]

ReconcilePage(t) ==
  /\ rec.at = "idle" /\ boot = "done" /\ t \in ask
  /\ Begin(TokenStored(t))
  /\ ask' = ask \ {t}
  /\ UNCHANGED <<table, certs, sync, asked, boot, localCA, faults, crashes, token, box, failed, gap>>

W == Head(rec.plan)
Want == Desired(W, rec.tok)
Goto(at) == rec' = [rec EXCEPT !.at = at]

\* The next container, or the end of the reconcile.
Advance ==
  IF Len(rec.plan) > 1
  THEN rec' = [rec EXCEPT !.at = "find", !.plan = Tail(@)] /\ UNCHANGED <<boot, failed>>
  ELSE /\ rec' = NoRec /\ failed' = FALSE
       /\ boot' = IF boot = "infra" THEN "done" ELSE boot

\* Any error ends the reconcile; at boot it is only logged.
Err ==
  /\ Fault /\ rec' = NoRec /\ failed' = TRUE
  /\ boot' = IF boot = "infra" THEN "done" ELSE boot
  /\ gap' = (gap \/ (W = "connector" /\ ~box["connector"].up /\ Want # "none"))
  /\ UNCHANGED box

\* The config hash in the container's label.
HashMatches == box[W].spec = Want

\* A container made for the wanted configuration is adopted.
FindContainer ==
  /\ rec.at = "find"
  /\ \/ /\ IF ~HashMatches
           THEN Goto(IF Want = "none" THEN "stop" ELSE "pull") /\ UNCHANGED <<boot, failed>>
           ELSE IF Want # "none" /\ ~box[W].up THEN Goto("start") /\ UNCHANGED <<boot, failed>>
           ELSE Advance
        /\ UNCHANGED <<box, faults, gap>>
     \/ Err

PullImage ==
  /\ rec.at = "pull"
  /\ \/ Goto(IF box[W].spec = "none" THEN "create" ELSE "stop")
        /\ UNCHANGED <<boot, failed, gap, box, faults>>
     \/ Err

\* A container that does not stop is removed all the same.
StopContainer ==
  /\ rec.at = "stop"
  /\ box' \in {box, [box EXCEPT ![W].up = FALSE]} /\ Goto("remove")
  /\ UNCHANGED <<boot, failed, gap, faults>>

RemoveContainer ==
  /\ rec.at = "remove"
  /\ \/ /\ box' = [box EXCEPT ![W] = Gone]
        /\ IF Want = "none" THEN Advance ELSE Goto("create") /\ UNCHANGED <<boot, failed>>
        /\ UNCHANGED <<gap, faults>>
     \/ Err

CreateContainer ==
  /\ rec.at = "create"
  /\ \/ /\ box' = [box EXCEPT ![W] = [spec |-> Want, up |-> FALSE]] /\ Goto("start")
        /\ UNCHANGED <<boot, failed, gap, faults>>
     \/ Err

StartContainer ==
  /\ rec.at = "start"
  /\ \/ /\ box' = [box EXCEPT ![W].up = TRUE] /\ Advance
        /\ gap' = (gap /\ W # "connector")
        /\ UNCHANGED faults
     \/ Err

Reconcile ==
  /\ FindContainer \/ PullImage \/ StopContainer \/ RemoveContainer \/ CreateContainer \/ StartContainer
  /\ UNCHANGED <<table, certs, sync, asked, localCA, crashes, token, ask>>

-----------------------------------------------------------------------------
(* Boot and crash.                                                         *)

\* Docker out of reach leaves everything as it is.
BootReconcile ==
  /\ rec.at = "idle"
  /\ \/ boot = "certs" /\ ~localCA
     \/ boot = "infra"
  /\ \/ Begin(token) /\ boot' = "infra" /\ UNCHANGED <<faults, failed>>
     \/ Fault /\ failed' = TRUE /\ boot' = "done" /\ UNCHANGED rec
  /\ UNCHANGED <<table, certs, sync, asked, localCA, crashes, token, box, ask, gap>>

\* The process dies and comes back with the same environment.
Crash ==
  /\ crashes < MaxCrashes /\ crashes' = crashes + 1
  /\ boot' = "certs"
  /\ CertsCrash
  /\ gap' = (gap \/ (rec.at \notin {"idle", "find", "pull"} /\ W = "connector" /\ Want # "none"))
  /\ rec' = NoRec /\ ask' = {} /\ failed' = TRUE
  /\ UNCHANGED <<table, localCA, faults, token, box>>

CertsNext ==
  /\ SyncStart \/ ListFails \/ SyncStep \/ \E h \in Host : Age(h)
  /\ UNCHANGED <<table, localCA, crashes, door>>

\* The domain pages sync afterwards; previews and deletions do not.
TableNext ==
  /\ boot = "done" /\ DomainsNext
  /\ asked' \in {asked, TRUE}
  /\ UNCHANGED <<certs, sync, boot, localCA, faults, crashes, door>>

Next ==
  \/ TableNext \/ CertsNext \/ Reconcile \/ BootReconcile \/ Crash
  \/ \E t \in Token \cup {Off} : SetToken(t) \/ ReconcilePage(t)

IngressSpec == Init /\ [][Next]_vars

\* The mutexes are fair and the ticker comes back.
IngressFairSpec ==
  /\ IngressSpec
  /\ WF_vars(Reconcile) /\ WF_vars(BootReconcile)
  /\ WF_vars(CertsNext /\ SyncStep) /\ WF_vars(CertsNext /\ SyncStart)

-----------------------------------------------------------------------------

\* Between two reconciles the containers are what the stored token asks for,
\* however two pages' writes and reconciles interleaved.
FollowsToken ==
  (boot = "done" /\ rec.at = "idle" /\ ~failed /\ ask = {}) =>
    \A w \in {"proxy", "connector"} :
      box[w] = [spec |-> Desired(w, token), up |-> Desired(w, token) # "none"]

\* A Traefik without ports has the connector in front of it, except while the
\* connector is being replaced or where that was interrupted: turning the tunnel
\* on or off never leaves the server without a way in.
PortlessHasTunnel ==
  (box["proxy"].up /\ box["proxy"].spec = "tunnel" /\ ~gap) =>
    \/ box["connector"].up
    \/ rec.at \in {"stop", "remove", "create", "start"} /\ W = "connector" /\ Want # "none"

\* Every leaf Traefik is told of is there, and its key is the key of its
\* certificate, whichever write failed: except while it is swapped or pruned, and
\* where a crash cut that in two.
PairsMatch == \A h \in listed :
  \/ disk[h].key = disk[h].pem /\ disk[h].key # 0
  \/ h \in {sync.host} \cup torn \cup pruned

\* An HTTPS host gets a leaf that is not due, and Traefik is told of it, though
\* the page that added it never synced or a write failed.
GetsLeaf == \A h \in Host :
  (boot = "done" /\ localCA /\ h \in Wanted)
    ~> (boot # "done" \/ ~localCA \/ h \notin Wanted \/ (h \in listed /\ Pair(h) /\ h \notin due) \/ h \in torn)

IngressTypeOK ==
  /\ DomainsTypeOK
  /\ disk \in [Host -> [key : 0..4, pem : 0..4, bak : 0..4, tmp : 0..4]]
  /\ due \subseteq Host /\ listed \subseteq Host
  /\ token \in Token \cup {Off} /\ ask \subseteq Token \cup {Off}

\* What the proxy and the connector keep while both are replaced (traefik/proxy.go,
\* tunnel/connector.go).
IngressInv == IngressTypeOK /\ FollowsToken /\ PortlessHasTunnel

=============================================================================

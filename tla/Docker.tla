------------------------------- MODULE Docker -------------------------------
(***************************************************************************)
(* The Docker engine as Outhaul's client sees it: containers with an id, a *)
(* name nobody else has, and a state.  The operators take the set of       *)
(* containers and return the one the call leaves; the predicate beside     *)
(* each says when the daemon refuses it.                                   *)
(***************************************************************************)
EXTENDS Naturals, FiniteSets

\* FindContainer filters by an anchored pattern and then compares the name.
FindContainer(cs, name) == {c \in cs : c.name = name}

Exists(cs, id) == \E c \in cs : c.id = id

CanCreate(cs, name) == FindContainer(cs, name) = {}
CreateContainer(cs, id, name) == cs \cup {[id |-> id, name |-> name, up |-> FALSE]}

Set(cs, id, up) == {IF c.id = id THEN [c EXCEPT !.up = up] ELSE c : c \in cs}

StartContainer(cs, id) == Set(cs, id, TRUE)

StopContainer(cs, id) == Set(cs, id, FALSE)

\* With force, as every caller passes: a running container is killed first.
RemoveContainer(cs, id) == {c \in cs : c.id # id}

CanRename(cs, id, name) == \A c \in FindContainer(cs, name) : c.id = id
RenameContainer(cs, id, name) == {IF c.id = id THEN [c EXCEPT !.name = name] ELSE c : c \in cs}

Running(cs) == {c \in cs : c.up}

=============================================================================

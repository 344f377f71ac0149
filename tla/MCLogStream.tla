---------------------------- MODULE MCLogStream ----------------------------
(* One deployment with a log long enough to be trimmed, and one that competes *)
(* with it for the single closed topic that is kept.                          *)
EXTENDS LogStream

CONSTANT v1

MCDep == 1..2
MCMaxSaid == <<3, 1>>

=============================================================================

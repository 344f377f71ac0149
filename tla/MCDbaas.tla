------------------------------ MODULE MCDbaas ------------------------------
\* Instances of Dbaas for TLC.
EXTENDS Dbaas
CONSTANTS p1, p2
=============================================================================

------------------------------ MODULE MCUpdate ------------------------------
\* Values for Update.
EXTENDS Update
CONSTANTS c1, j1
=============================================================================

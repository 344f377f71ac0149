---------------------------- MODULE MCRetention ----------------------------
EXTENDS Retention

CONSTANT a1

=============================================================================

---------------------------- MODULE MCSupervision ----------------------------
\* Model values for the runs of Supervision.
EXTENDS Supervision

CONSTANTS hot, plain
=============================================================================

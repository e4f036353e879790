-------------------------- MODULE MCSegmentRotation --------------------------
\* Model values for the runs of SegmentRotation.
EXTENDS SegmentRotation

CONSTANTS a, b
=============================================================================

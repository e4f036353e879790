------------------------------ MODULE MCSession ------------------------------
\* Model values and symmetry for the runs of Session.
EXTENDS Session, TLC

CONSTANTS a, b

Both == {a, b}
Symmetry == Permutations(Both)
=============================================================================

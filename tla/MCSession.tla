------------------------------ MODULE MCSession ------------------------------
\* Instances of Session for TLC.
EXTENDS Session, TLC

CONSTANTS l1, l2, o1, c1, c2, c3

\* Commands of a kind do the same; a login's tokens carry its name.
Symmetry == Permutations(Uses)
=============================================================================

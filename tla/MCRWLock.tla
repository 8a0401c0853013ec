------------------------------ MODULE MCRWLock ------------------------------
EXTENDS RWLock, TLC
CONSTANTS t1, t2, h1
MCThread == {t1, t2, h1}
MCHighPriority == {h1}
MCSymmetry == Permutations({t1, t2})
============================================================================

----------------------------- MODULE MCRuntimeLock -----------------------------
EXTENDS RuntimeLock
CONSTANTS p1, p2, p3
=============================================================================

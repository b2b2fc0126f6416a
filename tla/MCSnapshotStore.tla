--------------------------- MODULE MCSnapshotStore ---------------------------
EXTENDS SnapshotStore
=============================================================================

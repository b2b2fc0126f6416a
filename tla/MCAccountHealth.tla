--------------------------- MODULE MCAccountHealth ---------------------------
EXTENDS AccountHealth
=============================================================================

-------------------------- MODULE MCSessionOccupancy --------------------------
EXTENDS SessionOccupancy
=============================================================================

------------------------------ MODULE MC_CanRing ------------------------------
EXTENDS CanRing
=============================================================================

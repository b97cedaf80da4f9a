------------------------------ MODULE MCFallback ------------------------------
EXTENDS Fallback
=============================================================================

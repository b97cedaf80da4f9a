------------------------- MODULE MCDynamicDomainSet -------------------------
EXTENDS DynamicDomainSet
=============================================================================

--------------------------- MODULE MCConfigReload ---------------------------
EXTENDS ConfigReload
=============================================================================

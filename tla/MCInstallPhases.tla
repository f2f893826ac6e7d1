--------------------------- MODULE MCInstallPhases ---------------------------
EXTENDS InstallPhases
=============================================================================

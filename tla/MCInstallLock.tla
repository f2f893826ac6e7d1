---------------------------- MODULE MCInstallLock ----------------------------
EXTENDS InstallLock, TLC

\* Servers are interchangeable (for safety runs only).
Sym == Permutations(Servers)
=============================================================================

---------------------------- MODULE MCNodeSession ----------------------------
EXTENDS NodeSession, TLC
=============================================================================

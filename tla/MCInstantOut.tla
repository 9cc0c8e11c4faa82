---------------------------- MODULE MCInstantOut ----------------------------
EXTENDS InstantOut
=============================================================================

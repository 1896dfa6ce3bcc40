---------------------------- MODULE MCTaskBoard ----------------------------
EXTENDS TaskBoard
=============================================================================

------------------------------ MODULE MCShell ------------------------------
EXTENDS Shell
=============================================================================

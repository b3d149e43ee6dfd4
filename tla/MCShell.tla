------------------------------ MODULE MCShell ------------------------------
EXTENDS Shell
============================================================================

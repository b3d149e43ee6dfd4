----------------------------- MODULE MCWindow ------------------------------
EXTENDS Window
============================================================================

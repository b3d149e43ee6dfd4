----------------------------- MODULE MCAppCore -----------------------------
(* Instances of AppCore for TLC.                                            *)
EXTENDS AppCore
=============================================================================

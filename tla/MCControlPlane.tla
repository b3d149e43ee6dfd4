--------------------------- MODULE MCControlPlane ---------------------------
(* An instance of ControlPlane for TLC.                                      *)
EXTENDS ControlPlane
=============================================================================

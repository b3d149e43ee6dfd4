--------------------------- MODULE MCPairingStore ---------------------------
(* Instances of PairingStore for TLC.                                       *)
EXTENDS PairingStore
=============================================================================

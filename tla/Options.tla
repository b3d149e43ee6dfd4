------------------------------ MODULE Options ------------------------------
(***************************************************************************)
(* Rust's Option, for the modules of the app crate that are reasoned about *)
(* together: a value, or None.                                             *)
(***************************************************************************)
CONSTANT None
=============================================================================

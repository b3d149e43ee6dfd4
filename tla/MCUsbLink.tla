----------------------------- MODULE MCUsbLink ------------------------------
(* An instance of UsbLink for TLC.                                           *)
EXTENDS UsbLink
=============================================================================

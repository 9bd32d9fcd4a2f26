------------------------------ MODULE MCBridge ------------------------------
(* Bridge for TLC.                                                         *)
EXTENDS Bridge
=============================================================================

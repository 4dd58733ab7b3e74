------------------------------ MODULE MCBridge ------------------------------
(* Small instances of WindowsBridge for TLC. *)
EXTENDS WindowsBridge
=============================================================================

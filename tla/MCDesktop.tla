------------------------------ MODULE MCDesktop ------------------------------
(* Small instances of Desktop for TLC. *)
EXTENDS Desktop
=============================================================================

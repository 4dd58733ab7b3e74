------------------------------ MODULE MCCaching ------------------------------
(* Small instances of CachingAuthorizer for TLC. *)
EXTENDS CachingAuthorizer, TLC

Symmetry == Permutations(Conns) \cup Permutations(Addresses)
            \cup Permutations(Prints) \cup Permutations(Programs)
=============================================================================

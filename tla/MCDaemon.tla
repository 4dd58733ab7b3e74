------------------------------ MODULE MCDaemon ------------------------------
(* Small instances of Daemon for TLC. *)
EXTENDS Daemon, TLC

CONSTANTS i1, i2, k1, k2

OneItem == {i1}
TwoItems == {i1, i2}
OneKey == {k1}
TwoKeys == {k1, k2}
NoneOfThem == {}
SecondKey == {k2}

\* Connections are interchangeable, and so are the keys when none is special.
Symmetry ==
    Permutations(Clients) \cup Permutations(SshClients) \cup Permutations(Keys)
ClientSymmetry == Permutations(Clients) \cup Permutations(SshClients)
=============================================================================

----------------------------- MODULE MCInstSync -----------------------------
EXTENDS InstSync, TLC
(* Devices that may do the same are interchangeable. *)
Symmetry == {p \in Permutations(Clients) :
                \A c \in Clients : /\ c \in Editors <=> p[c] \in Editors
                                   /\ c \in Flaky <=> p[c] \in Flaky}
=============================================================================

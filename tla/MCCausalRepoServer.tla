------------------------- MODULE MCCausalRepoServer -------------------------
(* Devices and CausalRepo objects are interchangeable. *)
EXTENDS CausalRepoServer, TLC

Symmetry == Permutations(Devices) \cup Permutations(Repos)
=============================================================================

------------------------------ MODULE MCEngine ------------------------------
(* Instances of Engine for TLC. *)
EXTENDS Engine, TLC

(* The spaces, the agents and the other engines are interchangeable. *)
Symmetry ==
    Permutations(Spaces) \cup Permutations(Agents) \cup Permutations(Locations)

=============================================================================

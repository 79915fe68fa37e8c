-------------------------- MODULE MCClassicSupervisor --------------------------
(* Bounds for model checking ClassicSupervisor.                             *)
EXTENDS ClassicSupervisor, TLC

Symmetry == Permutations(Identities) \cup Permutations(Ops) \cup Permutations(Probes)

=============================================================================

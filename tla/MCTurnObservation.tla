-------------------------- MODULE MCTurnObservation --------------------------
(* A small instance of TurnObservation: two writes, bodies of three records.  *)
EXTENDS TurnObservation, TLC

Symmetry == Permutations(Requests)

=============================================================================

---------------------------- MODULE MCTurnExecutor ----------------------------
(* Small instances of TurnExecutor, for every kind of turn.                    *)
EXTENDS TurnExecutor, TLC

Symmetry == Permutations(Requests) \cup Permutations(Locators)

=============================================================================

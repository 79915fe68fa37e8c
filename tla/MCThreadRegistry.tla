--------------------------- MODULE MCThreadRegistry ---------------------------
(* Model-checking instance of ThreadRegistry: as many handles as locators, *)
(* so a handle freed by a rollback may be drawn again, and a transaction   *)
(* more than handles.  Every constant set is symmetric: the run checks     *)
(* safety only.                                                            *)
EXTENDS ThreadRegistry, TLC

Symmetry ==
  Permutations(Handles) \cup Permutations(Locators)
    \cup Permutations(Transactions) \cup Permutations(Waiters)
=============================================================================

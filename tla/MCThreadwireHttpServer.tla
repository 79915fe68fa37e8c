----------------------- MODULE MCThreadwireHttpServer -----------------------
(* Instance of ThreadwireHttpServer for TLC: a Project turn, one request    *)
(* held back by its barrier and one that comes in between.                  *)
EXTENDS ThreadwireHttpServer, TLC

Symmetry ==
  Permutations(Reqs) \cup Permutations(Identities)
    \cup Permutations(Handles) \cup Permutations(Locators)
=============================================================================

------------------------- MODULE MCCdpSessionManager -------------------------
(* Model values for CdpSessionManager. *)
EXTENDS CdpSessionManager, TLC

Symmetry == Permutations(Identities) \cup Permutations(Sessions) \cup Permutations(Ops)

=============================================================================

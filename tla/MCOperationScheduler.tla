------------------------ MODULE MCOperationScheduler ------------------------
(* Model-checking instance of OperationScheduler: three operations, which  *)
(* is enough for one to run, one to wait behind it and one to arrive, and  *)
(* two identities under two generations.  No symmetry: the run checks a    *)
(* liveness property.                                                      *)
EXTENDS OperationScheduler
=============================================================================

------------------------ MODULE MCThreadwireController ------------------------
(* The liveness instance of ThreadwireController: two requests, without    *)
(* symmetry, which liveness does not allow.  The safety properties are     *)
(* checked on the instance of ThreadwireHttpServer.                        *)
EXTENDS ThreadwireController
=============================================================================

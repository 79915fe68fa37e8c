----------------------- MODULE MCReadinessController -----------------------
(* Instance of ReadinessController for TLC.                                 *)
EXTENDS ReadinessController

CONSTANTS d1, n1

MCGoals == {"FRESH_ROOT", "PROJECT_ROOT", "THREAD"}
MCDismissals == {d1}
MCNotices == {n1}

=============================================================================

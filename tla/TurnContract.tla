----------------------------- MODULE TurnContract -----------------------------
(***************************************************************************)
(* What one TURN operation promises to the scheduler that runs it and to   *)
(* the caller that waits for it (turn/TurnExecutor.ts), whatever the route *)
(* it takes through its commands and polls.                                *)
(*                                                                         *)
(* The caller hears the text first, its whole at the end, and completion   *)
(* only in the step in which the turn succeeds.  The turn succeeds only    *)
(* once the page's write has settled.  It fails otherwise, and then either *)
(* no write is under way, or the lease has been marked or replaced, so     *)
(* that the next operation will not touch the page.  The one exception is  *)
(* a turn that need not hold the page: the code lets a cancelled THREAD    *)
(* turn go while its write is still under way.                             *)
(***************************************************************************)
VARIABLES
  mustHold,   \* the turn may not be abandoned while its write is under way
  page,       \* "idle", "writing" or "settled"
  heard,      \* "nothing", "text", "whole" or "completed"
  verdict     \* "pending", "success", "failure", "uncertain" or "replaced"

vars == <<mustHold, page, heard, verdict>>

Init ==
  /\ mustHold \in BOOLEAN
  /\ page = "idle"
  /\ heard = "nothing"
  /\ verdict = "pending"

Pending == verdict = "pending"

PageStep ==
  /\ Pending
  /\ page' \in {"writing", "settled"}
  /\ page = "idle" => page' = "writing"
  /\ UNCHANGED <<mustHold, heard, verdict>>

(* Text reaches the caller while the turn goes on. *)
Hear ==
  /\ Pending
  /\ page # "idle"
  /\ heard \in {"nothing", "text"}
  /\ heard' = "text"
  /\ UNCHANGED <<mustHold, page, verdict>>

Succeed ==
  /\ Pending
  /\ page = "settled"
  /\ verdict' = "success"
  /\ heard' = "completed"
  /\ UNCHANGED <<mustHold, page>>

(* Some of the ending may have been heard before the turn gave up. *)
GiveUp(v) ==
  /\ Pending
  /\ verdict' = v
  /\ heard' \in {heard, "text", "whole"}
  /\ page = "idle" => heard' = heard
  /\ UNCHANGED <<mustHold, page>>

FailClosed == GiveUp("uncertain") \/ GiveUp("replaced")

FailSafely == page # "writing" /\ GiveUp("failure")

Abandon == ~ mustHold /\ page = "writing" /\ GiveUp("failure")

(* A successful turn whose completion nobody received is taken back. *)
TakeBack ==
  /\ verdict = "success"
  /\ mustHold
  /\ verdict' = "uncertain"
  /\ UNCHANGED <<mustHold, page, heard>>

Next == PageStep \/ Hear \/ Succeed \/ FailClosed \/ FailSafely \/ Abandon \/ TakeBack

Spec == Init /\ [][Next]_vars

=============================================================================

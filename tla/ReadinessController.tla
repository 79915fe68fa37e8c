------------------------- MODULE ReadinessController -------------------------
(***************************************************************************)
(* Readiness of the page: ROUTE operations (routing/ConversationRouter.ts) *)
(* and the waits of a route and of the turn that follows it                *)
(* (readiness/ReadinessController.ts and its two gates), with the one      *)
(* dismissal of a known notice that an intent permits                      *)
(* (readiness/FreshNoticeBudget.ts and dismissKnownFreshNotice() of the    *)
(* session), under the BOUND_EXISTING policy that dismissals need.         *)
(*                                                                         *)
(* The page loads, re-renders, asks its backend and shows dialogs whenever *)
(* it likes: a load that was commanded is one of these loads, and may come *)
(* after the answer to its command.  The page is read by commands that     *)
(* answer one after the other, its main frame first, then the tree of what *)
(* it shows.  A wait polls it until a gate has seen the same document,     *)
(* composer and backend activity often and long enough, and focuses the    *)
(* composer on the way.  A dismissal is raced against the abort of its     *)
(* wait and goes on after losing.                                          *)
(*                                                                         *)
(* The server may die at any time and start again on the same page: only   *)
(* the record of the intent survives.  Another process may use the intent. *)
(***************************************************************************)
EXTENDS Naturals

CONSTANTS
  Goals,        \* kinds of RouteExpectation: FRESH_ROOT, PROJECT_ROOT, THREAD
  Notices,      \* known notices, by the ids of their dialog and button
  UnknownNotice,
  Dismissals,   \* one that a wait awaits, and others that lost against an abort
  None,
  MaxDocs, MaxNodes   \* bounds on the page: documents and composers

ASSUME GoalsAssumption == Goals \subseteq {"FRESH_ROOT", "PROJECT_ROOT", "THREAD"}

ASSUME BoundsAssumption == MaxDocs \in Nat /\ MaxNodes \in Nat

ASSUME NoneAssumption ==
  None \notin Goals \cup Dismissals \cup Nat
           \cup [goal : Goals, doc : 0..MaxDocs, node : 1..MaxNodes]

FrameStable == 2   \* DEFAULT_EXISTING_FRAME_STABLE_OBSERVATIONS
FocusStable == 2   \* DEFAULT_EXISTING_FOCUS_STABLE_OBSERVATIONS

VARIABLES
  page,        \* what Chrome shows
  wait,        \* the operation in progress: where it is, its gate, what it has read
  proof,       \* freshReadinessProof
  dismissal,   \* each dismissKnownFreshNotice() of the session
  spent,       \* the latch of FreshNoticeBudget
  record,      \* who created <intent>.consumed.json
  marked,      \* the lease is marked uncertain in the scheduler
  proven,      \* history: the document and composer last seen quiet for a whole guard
  presses      \* history: presses of a notice's button, by anyone

history == <<proven, presses>>
budget == <<spent, record>>
vars == <<page, wait, proof, dismissal, budget, marked, history>>

NewGate == [frame |-> None, frames |-> 0, target |-> None, focuses |-> 0, active |-> FALSE,
            guard |-> "none",
            calm |-> "broken"]   \* history: how long the page has been quiet since the guard started

Idle == [call |-> "idle", goal |-> None, step |-> "none", frame |-> None, policy |-> "existing",
         gate |-> NewGate, awaited |-> None,
         ready |-> None]   \* the document and composer that were returned to the caller

Unused == [step |-> "unused", read |-> FALSE, doc |-> None, notice |-> None,
           input |-> FALSE, aborted |-> FALSE]

Waits == {"routing", "turn", "turnGuard"}   \* a waitForRoute() is in progress

Composer == IF page.shown THEN page.node ELSE None

Init ==
  /\ page \in [doc : {0}, route : Goals, node : {0}, shown : {FALSE}, focused : {FALSE},
               notice : {None}]
  /\ wait = Idle
  /\ proof = None
  /\ dismissal = [d \in Dismissals |-> Unused]
  /\ spent = FALSE /\ record = "none"
  /\ marked = FALSE
  /\ proven = None /\ presses = 0

-----------------------------------------------------------------------------
(* The page.  Nothing of a gate, of a proof or of a dismissal moves with it. *)

PageMoves(moved) ==
  /\ page' = moved
  /\ UNCHANGED <<proof, dismissal, budget, marked, history>>

Disturbs == wait' = [wait EXCEPT !.gate.calm = "broken"]

Load(r) ==
  /\ page.doc < MaxDocs
  /\ PageMoves([page EXCEPT !.doc = @ + 1, !.route = r, !.shown = FALSE, !.focused = FALSE,
                            !.notice = None])
  /\ Disturbs

\* history.pushState(): the location changes within the document.
MoveRoute(r) ==
  /\ page.route # r
  /\ PageMoves([page EXCEPT !.route = r])
  /\ UNCHANGED wait

\* The ids of DOM nodes are never used again.
Mount ==
  /\ ~page.shown /\ page.node < MaxNodes
  /\ PageMoves([page EXCEPT !.node = @ + 1, !.shown = TRUE, !.focused = FALSE])
  /\ UNCHANGED wait

Unmount ==
  /\ page.shown
  /\ PageMoves([page EXCEPT !.shown = FALSE, !.focused = FALSE])
  /\ Disturbs

Blur ==
  /\ page.focused
  /\ PageMoves([page EXCEPT !.focused = FALSE])
  /\ UNCHANGED wait

ShowNotice(n) ==
  /\ page.notice = None
  /\ PageMoves([page EXCEPT !.notice = n])
  /\ UNCHANGED wait

CloseNotice ==
  /\ page.notice # None
  /\ PageMoves([page EXCEPT !.notice = None])
  /\ UNCHANGED wait

\* A conversation request starts or ends: activityEpoch is not the one the gate keeps.
Activity ==
  /\ wait.gate.focuses > 0 /\ ~wait.gate.active
  /\ wait' = [wait EXCEPT !.gate.active = TRUE, !.gate.calm = "broken"]
  /\ UNCHANGED <<page, proof, dismissal, budget, marked, history>>

\* The guard duration passes.
Clock ==
  /\ wait.gate.guard = "young"
  /\ wait' = [wait EXCEPT !.gate.guard = "old",
                          !.gate.calm = IF @ = "young" THEN "old" ELSE @]
  /\ UNCHANGED <<page, proof, dismissal, budget, marked, history>>

\* Another process uses the intent: it matters to nobody before a dismissal is about to.
OtherConsumes ==
  /\ record = "none" /\ \E d \in Dismissals : dismissal[d].step = "consume"
  /\ record' = "other" /\ presses' = presses + 1
  /\ UNCHANGED <<page, wait, proof, dismissal, spent, marked, proven>>

-----------------------------------------------------------------------------
(* ROUTE operations and the waits they start.                              *)

unmovedByRoute == <<page, dismissal, budget, marked, history>>

StartWait(call, goal, policy) ==
  wait' = [Idle EXCEPT !.call = call, !.goal = goal, !.step = "poll", !.policy = policy]

\* The scheduler lets nothing through once the lease is marked.
BeginRoute(goal) ==
  /\ wait.call = "idle" /\ ~marked
  /\ wait' = [Idle EXCEPT !.goal = goal,
                          !.call = IF goal = "PROJECT_ROOT" THEN "current" ELSE "navigating"]
  /\ proof' = IF goal = "PROJECT_ROOT" THEN None ELSE proof
  /\ UNCHANGED unmovedByRoute

\* isProjectRouteCurrent() answers: only a page that is elsewhere is navigated.
ProjectRouteRead ==
  /\ wait.call = "current"
  /\ IF page.route = wait.goal
     THEN StartWait("routing", wait.goal, "fresh") /\ proof' = None
     ELSE wait' = [wait EXCEPT !.call = "navigating"] /\ UNCHANGED proof
  /\ UNCHANGED unmovedByRoute

\* The load event and the end of loading of the main frame, of whatever load.
LoadEvent ==
  /\ wait.call = "navigating" /\ wait.goal # "THREAD" /\ wait.step = "none"
  /\ wait' = [wait EXCEPT !.step = "loaded"]
  /\ UNCHANGED <<proof, unmovedByRoute>>

Navigated ==
  /\ wait.call = "navigating"
  /\ wait.goal # "THREAD" => wait.step = "loaded" /\ page.route = wait.goal
  /\ CASE wait.goal = "THREAD" -> StartWait("routing", wait.goal, "existing") /\ proof' = None
       [] wait.goal = "PROJECT_ROOT" -> StartWait("routing", wait.goal, "fresh") /\ proof' = None
       [] OTHER -> wait' = [wait EXCEPT !.call = "reloading"] /\ UNCHANGED proof
  /\ UNCHANGED unmovedByRoute

Reloaded ==
  /\ wait.call = "reloading"
  /\ StartWait("routing", wait.goal, "fresh")
  /\ proof' = None
  /\ UNCHANGED unmovedByRoute

BeginTurn ==
  /\ wait.call = "routed"
  /\ StartWait("turn", wait.goal, "existing")
  /\ UNCHANGED <<proof, unmovedByRoute>>

\* The turn has typed its text and ended, or the route was not followed by a turn.
Leave ==
  /\ wait.call \in {"typing", "routed"}
  /\ wait' = Idle
  /\ UNCHANGED <<proof, unmovedByRoute>>

-----------------------------------------------------------------------------
(* waitForRoute(): one snapshot after the other.                           *)

\* Page.getFrameTree of getReadinessSnapshot().
ReadFrame ==
  /\ wait.call \in Waits /\ wait.step = "poll"
  /\ wait' = [wait EXCEPT !.step = "tree",
                          !.frame = [doc |-> page.doc, right |-> page.route = wait.goal]]
  /\ UNCHANGED <<proof, unmovedByRoute>>

AtMost(n, bound) == IF n > bound THEN bound ELSE n

\* The counts of the frame: a count is only ever compared with its threshold.
FrameSeen(gate) ==
  CASE ~wait.frame.right -> NewGate
    [] wait.frame.right /\ gate.frame # wait.frame.doc ->
         [NewGate EXCEPT !.frame = wait.frame.doc, !.frames = 1]
    [] OTHER -> [gate EXCEPT !.frames = AtMost(@ + 1, FrameStable)]

\* ExistingReadinessGate.observe()
ExistingObserve(gate) ==
  LET g == FrameSeen(gate)
      seen == IF g.active THEN 1 ELSE AtMost(g.focuses + 1, FocusStable)
      sought(target) == [g EXCEPT !.target = target, !.focuses = 0, !.active = FALSE]
  IN  CASE g.frames < FrameStable -> [action |-> "WAIT", gate |-> g]
        [] g.frames = FrameStable /\ Composer = None -> [action |-> "WAIT", gate |-> sought(None)]
        [] g.frames = FrameStable /\ Composer # None
             /\ (g.target # Composer \/ ~page.focused) ->
               [action |-> "FOCUS", gate |-> sought(Composer)]
        [] OTHER -> [action |-> IF seen < FocusStable THEN "WAIT" ELSE "READY",
                     gate |-> [g EXCEPT !.focuses = seen, !.active = FALSE]]

\* FreshReadinessGate.observe(): READY only after a guard that nothing interrupted.
FreshObserve(gate) ==
  LET seen == ExistingObserve(gate)
      guard == IF gate.guard = "none" THEN "young" ELSE gate.guard
  IN  IF seen.action # "READY"
      THEN [seen EXCEPT !.gate.guard = "none", !.gate.calm = "broken"]
      ELSE [action |-> IF guard = "old" THEN "READY" ELSE "WAIT",
            gate |-> [seen.gate EXCEPT !.guard = guard,
                                       !.calm = IF gate.guard = "none" THEN "young" ELSE @]]

Observe == IF wait.policy = "fresh" THEN FreshObserve(wait.gate) ELSE ExistingObserve(wait.gate)

\* Accessibility.getFullAXTree shows a dialog: what was proven of the route is void.
Blocked ==
  /\ wait.step = "tree" /\ page.notice # None
  /\ proof' = None /\ proven' = None
  /\ \/ /\ page.notice \in Notices /\ wait.goal = "FRESH_ROOT" /\ wait.frame.right
        /\ \E d \in Dismissals :
             /\ dismissal[d] = Unused
             /\ dismissal' = [dismissal EXCEPT ![d] =
                  [Unused EXCEPT !.step = "press", !.doc = wait.frame.doc, !.notice = page.notice]]
             /\ wait' = [wait EXCEPT !.step = "dismissing", !.frame = None, !.gate = NewGate,
                                     !.awaited = d]
     \/ /\ page.notice = UnknownNotice \/ wait.goal # "FRESH_ROOT" \/ ~wait.frame.right
        /\ wait' = [wait EXCEPT !.step = "poll", !.frame = None, !.gate = NewGate]
        /\ UNCHANGED dismissal
  /\ UNCHANGED <<page, budget, marked, presses>>

Polled ==
  LET seen == Observe
  IN  /\ wait.step = "tree" /\ page.notice = None
      /\ seen.action # "READY"
      /\ wait' = IF seen.action = "FOCUS"
                 THEN [wait EXCEPT !.gate = seen.gate, !.step = "focusFrame"]
                 ELSE [wait EXCEPT !.gate = seen.gate, !.step = "poll", !.frame = None]
      /\ UNCHANGED <<page, proof, dismissal, budget, marked, history>>

-----------------------------------------------------------------------------
(* The end of a wait.                                                      *)

Seen == [goal |-> wait.goal, doc |-> wait.frame.doc, node |-> Composer]

\* What the page has shown of its calm when a fresh gate says READY.
ProvenBy(policy) ==
  IF policy = "existing" THEN proven ELSE IF Observe.gate.calm = "old" THEN Seen ELSE None

RouteReady ==
  /\ wait.call = "routing" /\ wait.step = "tree" /\ page.notice = None
  /\ Observe.action = "READY"
  /\ wait' = [Idle EXCEPT !.call = "routed", !.goal = wait.goal, !.ready = Seen]
  /\ proof' = IF wait.goal = "THREAD" THEN None ELSE Seen
  /\ proven' = ProvenBy(wait.policy)
  /\ UNCHANGED <<page, dismissal, budget, marked, presses>>

\* Mutant of ProofHolds: the composer is not compared.
ProofHoldsForDocument == proof # None /\ proof.goal = wait.goal /\ proof.doc = wait.frame.doc

ProofHolds == proof = Seen

\* waitForTurnComposer(): without the proof of its route the turn waits for a guard of its own.
TurnReady ==
  /\ wait.call = "turn" /\ wait.step = "tree" /\ page.notice = None
  /\ Observe.action = "READY"
  /\ proof' = None
  /\ proven' = ProvenBy(wait.policy)
  /\ IF wait.goal = "THREAD" \/ ProofHolds
     THEN wait' = [Idle EXCEPT !.call = "typing", !.goal = wait.goal, !.ready = Seen]
     ELSE StartWait("turnGuard", wait.goal, "fresh")
  /\ UNCHANGED <<page, dismissal, budget, marked, presses>>

TurnGuardReady ==
  /\ wait.call = "turnGuard" /\ wait.step = "tree" /\ page.notice = None
  /\ Observe.action = "READY"
  /\ wait' = [Idle EXCEPT !.call = "typing", !.goal = wait.goal, !.ready = Seen]
  /\ proven' = ProvenBy(wait.policy)
  /\ UNCHANGED <<page, proof, dismissal, budget, marked, presses>>

-----------------------------------------------------------------------------
(* focusBackendNode(): the candidate is read again before it is focused.   *)

CandidateChanged ==
  /\ proof' = None
  /\ wait' = [wait EXCEPT !.step = "poll", !.frame = None, !.gate = NewGate]

FocusFrame ==
  /\ wait.step = "focusFrame"
  /\ IF page.doc = wait.frame.doc /\ page.route = wait.goal
     THEN wait' = [wait EXCEPT !.step = "focusTree"] /\ UNCHANGED proof
     ELSE CandidateChanged
  /\ UNCHANGED unmovedByRoute

FocusTree ==
  /\ wait.step = "focusTree"
  /\ IF page.notice = None /\ Composer = wait.gate.target
     THEN wait' = [wait EXCEPT !.step = "focusing", !.frame = None] /\ UNCHANGED proof
     ELSE CandidateChanged
  /\ UNCHANGED unmovedByRoute

\* DOM.focus: a node that is gone is a protocol error, see WaitFails.
Focus ==
  /\ wait.step = "focusing" /\ Composer = wait.gate.target
  /\ page' = [page EXCEPT !.focused = TRUE]
  /\ wait' = [wait EXCEPT !.step = "poll"]
  /\ UNCHANGED <<proof, dismissal, budget, marked, history>>

-----------------------------------------------------------------------------
(* dismissKnownFreshNotice(): of the session, and of the session manager.  *)

unmovedByDismissal == <<page, proof, budget, history>>

At(d, step) == dismissal[d].step = step

Advance(d, step) == dismissal' = [dismissal EXCEPT ![d].step = step, ![d].read = FALSE]

\* Mutant of Fails: a failure without input goes on with the wait.
FailsAndPolls(d) ==
  /\ dismissal' = [dismissal EXCEPT ![d] = Unused]
  /\ IF wait.awaited = d
     THEN wait' = [wait EXCEPT !.step = "poll"] /\ marked' = (marked \/ dismissal[d].input)
     ELSE UNCHANGED <<wait, marked>>

\* A dismissal that fails ends the wait that awaits it, and leaves the lease marked after input.
Fails(d) ==
  /\ dismissal' = [dismissal EXCEPT ![d] = Unused]
  /\ IF wait.awaited = d
     THEN wait' = Idle /\ marked' = (marked \/ dismissal[d].input)
     ELSE UNCHANGED <<wait, marked>>

\* A command fails, the button is not where it was, the client is closed.
DismissalFails(d) ==
  /\ ~At(d, "unused")
  /\ Fails(d)
  /\ UNCHANGED unmovedByDismissal

Checks == {"press", "release", "settle"}

CheckFrame(d) ==
  /\ dismissal[d].step \in Checks /\ ~dismissal[d].read
  /\ IF page.doc = dismissal[d].doc /\ page.route = "FRESH_ROOT"
     THEN dismissal' = [dismissal EXCEPT ![d].read = TRUE] /\ UNCHANGED <<wait, marked>>
     ELSE Fails(d)
  /\ UNCHANGED unmovedByDismissal

AfterCheck(step) == IF step = "press" THEN "consume" ELSE "releasing"

\* readCurrent(): the notice that was selected is still the one that is shown.
CheckTree(d) ==
  /\ dismissal[d].step \in Checks \ {"settle"} /\ dismissal[d].read
  /\ IF page.notice = dismissal[d].notice
     THEN Advance(d, AfterCheck(dismissal[d].step)) /\ UNCHANGED <<wait, marked>>
     ELSE Fails(d)
  /\ UNCHANGED unmovedByDismissal

\* Mutant of Permitted: the record is opened without "x".
PermittedByLatch == ~spent

\* openSync(consumedPath, "wx") after the latch: the intent is used here and nowhere else.
Permitted == ~spent /\ record = "none"

Consume(d) ==
  /\ At(d, "consume") /\ Permitted
  /\ spent' = TRUE /\ record' = "ours"
  /\ Advance(d, "pressing")
  /\ UNCHANGED <<page, wait, proof, marked, history>>

\* consume() throws after the latch: before the record exists, or once it does.
ConsumeFails(d) ==
  /\ At(d, "consume")
  /\ spent' = TRUE
  /\ record' \in IF Permitted THEN {"none", "ours"} ELSE {record}
  /\ Fails(d)
  /\ UNCHANGED <<page, proof, history>>

\* Mutant of MayDispatch: no check after the validation.
MayDispatchAnyway(d) == d \in Dismissals

\* throwIfAborted() after the awaited validation, in the turn of the dispatch.
MayDispatch(d) == ~dismissal[d].aborted

Press(d) ==
  /\ At(d, "pressing") /\ MayDispatch(d)
  /\ dismissal' = [dismissal EXCEPT ![d].step = "release", ![d].input = TRUE]
  /\ presses' = presses + 1
  /\ UNCHANGED <<page, wait, proof, budget, marked, proven>>

Release(d) ==
  /\ At(d, "releasing") /\ MayDispatch(d)
  /\ Advance(d, "settle")
  /\ page' \in {page, [page EXCEPT !.notice = None]}
  /\ UNCHANGED <<wait, proof, budget, marked, history>>

\* The notice is still there: the session looks again in 100 ms.
StillShown(d) ==
  /\ At(d, "settle") /\ dismissal[d].read /\ page.notice = dismissal[d].notice
  /\ Advance(d, "settle")
  /\ UNCHANGED <<wait, marked, unmovedByDismissal>>

\* The notice is gone: the wait goes on with a fresh gate, whatever its policy was.
Dismissed(d) ==
  /\ At(d, "settle") /\ dismissal[d].read /\ page.notice = None /\ page.shown
  /\ MayDispatch(d)
  /\ dismissal' = [dismissal EXCEPT ![d] = Unused]
  /\ wait' = [wait EXCEPT !.step = "poll", !.policy = "fresh", !.gate = NewGate, !.awaited = None]
  /\ UNCHANGED <<marked, unmovedByDismissal>>

SettleFails(d) ==
  /\ At(d, "settle") /\ dismissal[d].read
  /\ page.notice \notin {None, dismissal[d].notice} \/ (page.notice = None /\ ~page.shown)
  /\ Fails(d)
  /\ UNCHANGED unmovedByDismissal

-----------------------------------------------------------------------------
(* Aborts, deadlines and crashes.                                          *)

\* A command of the route or of the wait fails, or the operation is aborted outside a dismissal.
WaitFails ==
  /\ wait.call \in Waits \cup {"current", "navigating", "reloading"}
  /\ wait.step \notin {"dismissing", "closing"}
  /\ wait' = Idle
  /\ UNCHANGED <<proof, unmovedByRoute>>

\* invalidateSessionAfterInFlightAbort(): the abort answers once the session is closed.
Abort ==
  /\ wait.step = "dismissing"
  /\ wait' = [wait EXCEPT !.step = "closing"]
  /\ dismissal' = [dismissal EXCEPT ![wait.awaited].aborted = TRUE]
  /\ UNCHANGED <<marked, unmovedByDismissal>>

Closed ==
  /\ wait.step = "closing"
  /\ marked' = (marked \/ dismissal[wait.awaited].input)
  /\ wait' = Idle
  /\ UNCHANGED <<dismissal, unmovedByDismissal>>

\* The process dies and another one starts, on the same page and with the same intent.
Restart ==
  /\ wait' = Idle /\ proof' = None
  /\ dismissal' = [d \in Dismissals |-> Unused]
  /\ spent' = (record # "none")
  /\ marked' = FALSE
  /\ proven' = None
  /\ UNCHANGED <<page, record, presses>>

-----------------------------------------------------------------------------
PageNext ==
  \/ \E r \in Goals : Load(r) \/ MoveRoute(r)
  \/ Mount \/ Unmount \/ Blur
  \/ \E n \in Notices \cup {UnknownNotice} : ShowNotice(n)
  \/ CloseNotice \/ Activity \/ Clock \/ OtherConsumes

RouteNext ==
  \/ \E goal \in Goals : BeginRoute(goal)
  \/ ProjectRouteRead \/ LoadEvent \/ Navigated \/ Reloaded \/ BeginTurn \/ Leave
  \/ ReadFrame \/ Blocked \/ Polled \/ RouteReady \/ TurnReady \/ TurnGuardReady
  \/ FocusFrame \/ FocusTree \/ Focus \/ WaitFails \/ Abort \/ Closed

DismissalNext(d) ==
  \/ CheckFrame(d) \/ CheckTree(d) \/ Consume(d) \/ ConsumeFails(d) \/ Press(d) \/ Release(d)
  \/ StillShown(d) \/ Dismissed(d) \/ SettleFails(d) \/ DismissalFails(d)

Next == PageNext \/ RouteNext \/ (\E d \in Dismissals : DismissalNext(d)) \/ Restart

Spec == Init /\ [][Next]_vars

-----------------------------------------------------------------------------
Gate == [frame : 0..MaxDocs \cup {None}, frames : 0..FrameStable,
         target : 1..MaxNodes \cup {None}, focuses : 0..FocusStable, active : BOOLEAN,
         guard : {"none", "young", "old"}, calm : {"broken", "young", "old"}]

\* The types of the state: among them, that a dismissal is awaited exactly while a wait is in
\* one, which is what lets its failure end that wait and no other.
TypeOK ==
  /\ page \in [doc : 0..MaxDocs, route : Goals, node : 0..MaxNodes, shown : BOOLEAN,
               focused : BOOLEAN, notice : Notices \cup {UnknownNotice, None}]
  /\ wait.gate \in Gate
  /\ wait.awaited \in Dismissals \cup {None}
  /\ (wait.awaited # None) = (wait.step \in {"dismissing", "closing"})
  /\ proof # None => proof.goal # "THREAD"
  /\ \A d \in Dismissals : dismissal[d].input => dismissal[d].step \notin {"press", "consume"}

\* ReadinessController.ts:253 and :319: a route or a turn of the root or of a Project goes on
\* only with a document and a composer that the page has kept, without activity, for a whole
\* guard duration, and no dialog was met since then, even when the turn relies on the proof
\* its route has left and the page has moved, asked or shown dialogs in between.
ReadyIsEarned ==
  (wait.call \in {"routed", "typing"} /\ wait.goal # "THREAD") => (wait.ready # None /\ proven = wait.ready)

\* FreshNoticeBudget.ts:106: an intent is worth one press, whoever presses, across crashes of the
\* server, aborted dismissals that go on, failures of the record and other processes.
OneDismissal == presses <= 1

\* CdpSessionManager.ts:391: input into a notice is never forgotten: the wait it belongs to still
\* has it to answer for, or the lease is marked uncertain; also when the wait was aborted in
\* the middle of it and the dismissal goes on alone.
InputIsAccountedFor ==
  \A d \in Dismissals : dismissal[d].input => marked \/ wait.awaited = d

=============================================================================

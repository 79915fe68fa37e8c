---------------------- MODULE ReadinessControllerProofs ----------------------
(***************************************************************************)
(* Proofs about readiness and the dismissal of a notice, for every number  *)
(* of documents, composers, notices and dismissals.                        *)
(*                                                                         *)
(* A gate cannot look at the page all the time.  GateInv says why it need  *)
(* not: whatever disturbed the page since its guard started is still to be *)
(* seen when it looks again, as activity or as a composer that is not its  *)
(* own any more.  The permission to press is spent by the record alone     *)
(* (BudgetInv), and a dismissal that nobody awaits presses nothing         *)
(* (DismissalInv).                                                         *)
(***************************************************************************)
EXTENDS ReadinessController, TLAPS

Docs == 0..MaxDocs
Nodes == 1..MaxNodes
Frame == [doc : Docs, right : BOOLEAN]
Sight == [goal : Goals, doc : Docs, node : Nodes]

Page == [doc : Docs, route : Goals, node : 0..MaxNodes, shown : BOOLEAN, focused : BOOLEAN,
         notice : Notices \cup {UnknownNotice, None}]

WaitSteps == {"poll", "tree", "focusFrame", "focusTree", "focusing", "dismissing", "closing"}

Wait == [call : Waits \cup {"idle", "current", "navigating", "reloading", "routed", "typing"},
         goal : Goals \cup {None}, step : WaitSteps \cup {"none", "loaded"},
         frame : Frame \cup {None}, policy : {"existing", "fresh"}, gate : Gate,
         awaited : Dismissals \cup {None}, ready : Sight \cup {None}]

DismissalSteps == {"unused", "press", "consume", "pressing", "release", "releasing", "settle"}

Dismissal == [step : DismissalSteps, read : BOOLEAN, doc : Docs \cup {None},
              notice : Notices \cup {UnknownNotice, None}, input : BOOLEAN, aborted : BOOLEAN]

PageInv ==
  /\ page \in Page
  /\ page.shown => page.node \in Nodes

WaitInv ==
  /\ wait \in Wait
  /\ wait.step \in WaitSteps <=> wait.call \in Waits
  /\ wait.call # "idle" => wait.goal \in Goals
  /\ wait.step \in {"tree", "focusFrame"} => wait.frame \in Frame
  /\ wait.awaited # None <=> wait.step \in {"dismissing", "closing"}
  /\ wait.call = "routing" /\ wait.goal # "THREAD" => wait.policy = "fresh"
  /\ wait.call = "turnGuard" => wait.policy = "fresh"

(* What disturbed the guard of a gate is there to be seen. *)
GateInv ==
  LET gate == wait.gate
  IN  gate.guard # "none" =>
        /\ wait.policy = "fresh"
        /\ gate.target \in Nodes /\ gate.target <= page.node
        /\ gate.calm = gate.guard \/ gate.active \/ Composer # gate.target

ProofInv ==
  /\ proof \in Sight \cup {None}
  /\ proof # None => proof.goal # "THREAD" /\ proven = proof
  /\ wait.call = "turnGuard" => proof = None
  /\ ReadyIsEarned

BudgetInv ==
  /\ presses \in {0, 1}
  /\ record = "none" => presses = 0
  /\ \A d \in Dismissals : At(d, "pressing") =>
       /\ record # "none" /\ presses = 0
       /\ \A e \in Dismissals : At(e, "pressing") => e = d

DismissalInv ==
  /\ dismissal \in [Dismissals -> Dismissal]
  /\ marked \in BOOLEAN
  /\ \A d \in Dismissals :
       /\ dismissal[d].input => dismissal[d].step \in {"release", "releasing", "settle"}
       /\ ~ At(d, "unused") /\ ~ dismissal[d].aborted => wait.awaited = d
       /\ wait.step = "closing" /\ wait.awaited = d => dismissal[d].aborted
  /\ InputIsAccountedFor

IInv == PageInv /\ WaitInv /\ GateInv /\ ProofInv /\ BudgetInv /\ DismissalInv

-----------------------------------------------------------------------------
LEMMA RecordsAreTyped ==
  /\ NewGate \in Gate /\ NewGate.guard = "none" /\ NewGate.frames = 0
  /\ Idle \in Wait /\ Idle.call = "idle" /\ Idle.awaited = None /\ Idle.gate = NewGate
  /\ Idle.step = "none"
  /\ Unused \in Dismissal /\ Unused.step = "unused" /\ ~ Unused.input
BY DEF NewGate, Gate, FrameStable, FocusStable, Idle, Wait, Unused, Dismissal, DismissalSteps

LEMMA InitEstablishes == Init => IInv
<1> SUFFICES ASSUME Init PROVE IInv
  OBVIOUS
<1> USE DEF Init
<1>1. PageInv
  <2>1. /\ page = [doc |-> 0, route |-> page.route, node |-> 0, shown |-> FALSE,
                   focused |-> FALSE, notice |-> None]
        /\ page.route \in Goals
    OBVIOUS
  <2>2. 0 \in Docs /\ 0 \in 0..MaxNodes
    BY BoundsAssumption DEF Docs
  <2> QED BY <2>1, <2>2 DEF PageInv, Page
<1>2. WaitInv
  BY RecordsAreTyped DEF WaitInv, Waits, WaitSteps
<1>3. GateInv
  BY RecordsAreTyped DEF GateInv
<1>4. ProofInv
  BY RecordsAreTyped DEF ProofInv, ReadyIsEarned
<1>5. BudgetInv
  BY RecordsAreTyped DEF BudgetInv, At
<1>6. DismissalInv
  BY RecordsAreTyped DEF DismissalInv, At, InputIsAccountedFor
<1> QED BY <1>1, <1>2, <1>3, <1>4, <1>5, <1>6 DEF IInv

-----------------------------------------------------------------------------
(* The page moves. *)

(* Whatever the page does, the proof, the record and the dismissals stay.  *)
LEMMA PageMoveKeeps ==
  ASSUME IInv, NEW p \in Page, PageMoves(p), p.shown => p.node \in Nodes,
         UNCHANGED wait \/ Disturbs
  PROVE  PageInv' /\ WaitInv' /\ ProofInv' /\ BudgetInv' /\ DismissalInv'
<1> USE DEF PageMoves, budget, history
<1>1. /\ wait' \in Wait /\ wait'.call = wait.call /\ wait'.goal = wait.goal
      /\ wait'.step = wait.step /\ wait'.frame = wait.frame /\ wait'.policy = wait.policy
      /\ wait'.awaited = wait.awaited /\ wait'.ready = wait.ready
  BY DEF IInv, WaitInv, Disturbs, Wait, Gate
<1>2. PageInv'
  BY DEF PageInv
<1>3. WaitInv'
  BY <1>1 DEF IInv, WaitInv
<1>4. ProofInv'
  BY <1>1 DEF IInv, ProofInv, ReadyIsEarned
<1>5. BudgetInv'
  BY DEF IInv, BudgetInv, At
<1>6. DismissalInv'
  BY <1>1 DEF IInv, DismissalInv, At, InputIsAccountedFor
<1> QED BY <1>2, <1>3, <1>4, <1>5, <1>6

(* The composer that was sought goes for good, or the gate sees the same. *)
LEMMA PageKeepsGate ==
  ASSUME IInv, NEW p \in Page, PageMoves(p),
         \/ UNCHANGED wait /\ p.node = page.node /\ p.shown = page.shown
         \/ UNCHANGED wait /\ ~ page.shown /\ p.node = page.node + 1
         \/ Disturbs /\ p.node = page.node /\ ~ p.shown
  PROVE  GateInv'
<1> USE BoundsAssumption DEF PageMoves, GateInv, Composer
<1>1. /\ page.node \in Nat /\ page.shown \in BOOLEAN /\ wait.gate \in Gate /\ wait \in Wait
      /\ None \notin Nodes /\ Nodes \subseteq Nat
  BY NoneAssumption DEF IInv, PageInv, Page, WaitInv, Wait, Nodes
<1>2. CASE UNCHANGED wait /\ p.node = page.node /\ p.shown = page.shown
  BY <1>2 DEF IInv
<1>3. CASE UNCHANGED wait /\ ~ page.shown /\ p.node = page.node + 1
  <2>1. /\ wait' = wait /\ page'.node = page.node + 1
        /\ page'.shown \in BOOLEAN
    BY <1>3 DEF Page
  <2>2. ASSUME wait.gate.guard # "none"
        PROVE  /\ wait.gate.target \in Nodes /\ wait.gate.target <= page'.node
               /\ Composer' # wait.gate.target
               /\ wait.policy = "fresh"
    <3>6. wait.policy = "fresh"
      BY <2>2 DEF IInv
    <3>1. wait.gate.target \in Nodes /\ wait.gate.target <= page.node
      BY <2>2 DEF IInv
    <3>2. \A t, n \in Nat : t <= n => t <= n + 1 /\ t # n + 1
      OBVIOUS
    <3>3. wait.gate.target \in Nat
      BY <1>1, <3>1
    <3>4. wait.gate.target <= page'.node /\ wait.gate.target # page'.node
      BY <1>1, <2>1, <3>1, <3>2, <3>3
    <3>5. Composer' \in {page'.node, None}
      OBVIOUS
    <3> QED BY <1>1, <3>1, <3>4, <3>5, <3>6
  <2> QED BY <2>1, <2>2
<1>4. CASE Disturbs /\ p.node = page.node /\ ~ p.shown
  <2>1. wait'.gate = [wait.gate EXCEPT !.calm = "broken"]
    BY <1>1, <1>4 DEF Disturbs, Wait
  <2>2. wait'.gate.guard = wait.gate.guard /\ wait'.gate.target = wait.gate.target
    BY <1>1, <2>1 DEF Gate
  <2>3. wait'.policy = wait.policy
    BY <1>1, <1>4 DEF Disturbs, Wait
  <2> QED BY <1>1, <1>4, <2>2, <2>3 DEF IInv
<1> QED BY <1>2, <1>3, <1>4

LEMMA PageKeeps ==
  ASSUME IInv,
         \/ \E r \in Goals : Load(r) \/ MoveRoute(r)
         \/ Mount \/ Unmount \/ Blur \/ CloseNotice
         \/ \E n \in Notices \cup {UnknownNotice} : ShowNotice(n)
  PROVE  IInv'
<1>1. page \in Page /\ page.node \in Nat /\ page.doc \in Nat /\ page.shown \in BOOLEAN
  BY BoundsAssumption DEF IInv, PageInv, Page, Docs
<1>2. ASSUME NEW r \in Goals, Load(r) PROVE IInv'
  <2> DEFINE p == [page EXCEPT !.doc = @ + 1, !.route = r, !.shown = FALSE, !.focused = FALSE,
                               !.notice = None]
  <2>4. page.doc < MaxDocs
    BY <1>2 DEF Load
  <2>1. page.doc + 1 \in Docs
    BY <1>1, <2>4, BoundsAssumption DEF Docs
  <2>3. p \in Page /\ ~ p.shown /\ p.node = page.node
    BY <1>1, <2>1 DEF Page
  <2>2. PageMoves(p) /\ Disturbs
    BY <1>2 DEF Load
  <2> HIDE DEF p
  <2> QED BY <2>2, <2>3, PageMoveKeeps, PageKeepsGate DEF IInv
<1>3. ASSUME NEW r \in Goals, MoveRoute(r) PROVE IInv'
  <2> DEFINE p == [page EXCEPT !.route = r]
  <2>1. p \in Page /\ p.shown = page.shown /\ p.node = page.node
    BY <1>1 DEF Page
  <2>2. PageMoves(p) /\ UNCHANGED wait
    BY <1>3 DEF MoveRoute
  <2> HIDE DEF p
  <2> QED BY <2>1, <2>2, PageMoveKeeps, PageKeepsGate DEF IInv, PageInv
<1>4. CASE Mount
  <2> DEFINE p == [page EXCEPT !.node = @ + 1, !.shown = TRUE, !.focused = FALSE]
  <2>1. ~ page.shown /\ page.node + 1 \in Nodes /\ page.node + 1 \in 0..MaxNodes
    BY <1>1, <1>4, BoundsAssumption DEF Mount, Nodes
  <2>3. p \in Page /\ p.node = page.node + 1
    BY <1>1, <2>1 DEF Page
  <2>2. PageMoves(p) /\ UNCHANGED wait
    BY <1>4 DEF Mount
  <2> HIDE DEF p
  <2> QED BY <2>1, <2>2, <2>3, PageMoveKeeps, PageKeepsGate DEF IInv
<1>5. CASE Unmount
  <2> DEFINE p == [page EXCEPT !.shown = FALSE, !.focused = FALSE]
  <2>1. p \in Page /\ ~ p.shown /\ p.node = page.node
    BY <1>1 DEF Page
  <2>2. PageMoves(p) /\ Disturbs
    BY <1>5 DEF Unmount
  <2> HIDE DEF p
  <2> QED BY <2>1, <2>2, PageMoveKeeps, PageKeepsGate DEF IInv
<1>6. CASE Blur
  <2> DEFINE p == [page EXCEPT !.focused = FALSE]
  <2>1. p \in Page /\ p.shown = page.shown /\ p.node = page.node
    BY <1>1 DEF Page
  <2>2. PageMoves(p) /\ UNCHANGED wait
    BY <1>6 DEF Blur
  <2> HIDE DEF p
  <2> QED BY <2>1, <2>2, PageMoveKeeps, PageKeepsGate DEF IInv, PageInv
<1>7. ASSUME NEW n \in Notices \cup {UnknownNotice, None}, PageMoves([page EXCEPT !.notice = n]),
             UNCHANGED wait
      PROVE  IInv'
  <2> DEFINE p == [page EXCEPT !.notice = n]
  <2>1. p \in Page /\ p.shown = page.shown /\ p.node = page.node
    BY <1>1 DEF Page
  <2>2. PageMoves(p)
    BY <1>7
  <2> HIDE DEF p
  <2> QED BY <1>7, <2>1, <2>2, PageMoveKeeps, PageKeepsGate DEF IInv, PageInv
<1>8. CASE \E n \in Notices \cup {UnknownNotice} : ShowNotice(n)
  BY <1>7, <1>8 DEF ShowNotice
<1>9. CASE CloseNotice
  BY <1>7, <1>9 DEF CloseNotice
<1> QED BY <1>2, <1>3, <1>4, <1>5, <1>6, <1>8, <1>9

-----------------------------------------------------------------------------
(* The gate. *)

Sees(seen) ==
  /\ seen \in [action : {"WAIT", "FOCUS", "READY"}, gate : Gate]
  /\ seen.action \in {"FOCUS", "READY"} => Composer \in Nodes

LEMMA FrameSeenFacts ==
  ASSUME NEW gate \in Gate, wait.frame \in Frame
  PROVE  /\ FrameSeen(gate) \in Gate
         /\ FrameSeen(gate).guard \in {gate.guard, "none"}
         /\ FrameSeen(gate).frames = FrameStable =>
              /\ FrameSeen(gate).target = gate.target /\ FrameSeen(gate).active = gate.active
              /\ FrameSeen(gate).guard = gate.guard /\ FrameSeen(gate).calm = gate.calm
<1>1. CASE ~ wait.frame.right
  BY <1>1, RecordsAreTyped DEF FrameSeen, FrameStable
<1>2. CASE wait.frame.right /\ gate.frame # wait.frame.doc
  <2>1. FrameSeen(gate) = [NewGate EXCEPT !.frame = wait.frame.doc, !.frames = 1]
    BY <1>2 DEF FrameSeen
  <2>2. wait.frame.doc \in 0..MaxDocs /\ 1 \in 0..FrameStable /\ 1 # FrameStable
    BY DEF Frame, Docs, FrameStable
  <2> QED BY <2>1, <2>2, RecordsAreTyped DEF Gate
<1>3. CASE wait.frame.right /\ gate.frame = wait.frame.doc
  <2>1. gate.frames \in 0..FrameStable
    BY DEF Gate
  <2>2. PICK n \in 0..FrameStable : n = AtMost(gate.frames + 1, FrameStable)
    BY <2>1 DEF AtMost, FrameStable
  <2>3. FrameSeen(gate) = [gate EXCEPT !.frames = n]
    BY <1>3, <2>2 DEF FrameSeen
  <2> QED BY <2>3 DEF Gate
<1> QED BY <1>1, <1>2, <1>3

LEMMA ExistingSees ==
  ASSUME PageInv, NEW gate \in Gate, wait.frame \in Frame
  PROVE  /\ Sees(ExistingObserve(gate))
         /\ ExistingObserve(gate).gate.guard \in {gate.guard, "none"}
         /\ ExistingObserve(gate).action = "READY" =>
              /\ ExistingObserve(gate).gate.target = Composer /\ gate.target = Composer
              /\ ExistingObserve(gate).gate.guard = gate.guard
              /\ ExistingObserve(gate).gate.calm = gate.calm
              /\ ~ gate.active
<1>1. PICK g \in Gate :
        /\ g = FrameSeen(gate) /\ g.guard \in {gate.guard, "none"}
        /\ g.frames = FrameStable =>
             /\ g.target = gate.target /\ g.active = gate.active /\ g.guard = gate.guard
             /\ g.calm = gate.calm
  BY FrameSeenFacts
<1>2. Composer \in Nodes \cup {None} /\ None \notin Nodes
  BY NoneAssumption DEF PageInv, Composer, Nodes
<1>3. PICK seen \in 0..FocusStable :
        /\ seen = IF g.active THEN 1 ELSE AtMost(g.focuses + 1, FocusStable)
        /\ g.active => seen < FocusStable
  <2>1. g.focuses \in 0..FocusStable
    BY DEF Gate
  <2> QED BY <2>1 DEF AtMost, FocusStable
<1>4. g.frames \in 0..FrameStable /\ (~ g.frames < FrameStable => g.frames = FrameStable)
  <2>1. g.frames \in 0..FrameStable
    BY DEF Gate
  <2> QED BY <2>1 DEF FrameStable
<1>5. ASSUME NEW target \in Nodes \cup {None}
      PROVE  [g EXCEPT !.target = target, !.focuses = 0, !.active = FALSE] \in Gate
  <2>1. 0 \in 0..FocusStable
    BY DEF FocusStable
  <2> QED BY <2>1 DEF Gate, Nodes
<1>6. CASE g.frames < FrameStable
  <2>1. ExistingObserve(gate) = [action |-> "WAIT", gate |-> g]
    BY <1>1, <1>4, <1>6 DEF ExistingObserve, FrameStable
  <2> QED BY <1>1, <2>1 DEF Sees
<1>7. CASE g.frames = FrameStable /\ Composer = None
  <2>1. PICK r \in Gate : r = [g EXCEPT !.target = None, !.focuses = 0, !.active = FALSE]
    BY <1>5
  <2>2. ExistingObserve(gate) = [action |-> "WAIT", gate |-> r]
    BY <1>1, <1>7, <2>1 DEF ExistingObserve, FrameStable
  <2>3. r.guard = g.guard
    BY <2>1 DEF Gate
  <2> QED BY <1>1, <2>2, <2>3 DEF Sees
<1>8. CASE g.frames = FrameStable /\ Composer # None /\ (g.target # Composer \/ ~ page.focused)
  <2>1. PICK r \in Gate : r = [g EXCEPT !.target = Composer, !.focuses = 0, !.active = FALSE]
    BY <1>2, <1>5
  <2>2. ExistingObserve(gate) = [action |-> "FOCUS", gate |-> r]
    BY <1>1, <1>8, <2>1 DEF ExistingObserve, FrameStable
  <2>3. r.guard = g.guard
    BY <2>1 DEF Gate
  <2> QED BY <1>1, <1>2, <1>8, <2>2, <2>3 DEF Sees
<1>9. CASE g.frames = FrameStable /\ Composer # None /\ g.target = Composer /\ page.focused
  <2>1. PICK r \in Gate : r = [g EXCEPT !.focuses = seen, !.active = FALSE]
    BY <1>1 DEF Gate
  <2>2. ExistingObserve(gate) = [action |-> IF seen < FocusStable THEN "WAIT" ELSE "READY",
                                 gate |-> r]
    BY <1>1, <1>3, <1>9, <2>1 DEF ExistingObserve, FrameStable
  <2>3. r.guard = g.guard /\ r.target = g.target /\ r.calm = g.calm
    BY <2>1 DEF Gate
  <2> QED BY <1>1, <1>2, <1>3, <1>9, <2>2, <2>3 DEF Sees
<1> QED BY <1>2, <1>4, <1>6, <1>7, <1>8, <1>9 DEF PageInv, Page

(* What a gate says of the page, and what it still has to see of it.       *)
LEMMA ObserveSees ==
  ASSUME IInv, wait.step = "tree"
  PROVE  /\ Sees(Observe)
         /\ Observe.gate.guard # "none" =>
              /\ wait.policy = "fresh" /\ Observe.gate.target = Composer /\ Composer \in Nodes
              /\ Observe.gate.calm = Observe.gate.guard
         /\ Observe.action = "READY" /\ wait.policy = "fresh" => Observe.gate.calm = "old"
<1> DEFINE gate == wait.gate
           seen == ExistingObserve(gate)
<1>1. gate \in Gate /\ wait.frame \in Frame /\ wait.policy \in {"existing", "fresh"}
  BY DEF IInv, WaitInv, Wait
<1>2. /\ Sees(seen) /\ seen.gate.guard \in {gate.guard, "none"}
      /\ seen.action = "READY" =>
           /\ seen.gate.target = Composer /\ gate.target = Composer
           /\ seen.gate.guard = gate.guard /\ seen.gate.calm = gate.calm /\ ~ gate.active
  BY <1>1, ExistingSees DEF IInv
<1>3. gate.guard # "none" =>
        wait.policy = "fresh" /\ (gate.calm = gate.guard \/ gate.active \/ Composer # gate.target)
  BY DEF IInv, GateInv
<1> HIDE DEF seen
<1>4. CASE wait.policy = "existing"
  <2>1. Observe = seen
    BY <1>4 DEF Observe, seen
  <2> QED BY <1>2, <1>3, <1>4, <2>1
<1>5. CASE wait.policy = "fresh" /\ seen.action # "READY"
  <2>1. Observe = [seen EXCEPT !.gate.guard = "none", !.gate.calm = "broken"]
    BY <1>5 DEF Observe, FreshObserve, seen
  <2>3. seen \in [action : {"WAIT", "FOCUS", "READY"}, gate : Gate]
    BY <1>2 DEF Sees
  <2>2. Observe.action = seen.action /\ Observe.gate \in Gate /\ Observe.gate.guard = "none"
    BY <2>1, <2>3 DEF Gate
  <2> QED BY <1>2, <1>5, <2>1, <2>2, <2>3 DEF Sees
<1>6. CASE wait.policy = "fresh" /\ seen.action = "READY"
  <2> DEFINE guard == IF gate.guard = "none" THEN "young" ELSE gate.guard
             calm == IF gate.guard = "none" THEN "young" ELSE seen.gate.calm
  <2>1. Observe = [action |-> IF guard = "old" THEN "READY" ELSE "WAIT",
                   gate |-> [seen.gate EXCEPT !.guard = guard, !.calm = calm]]
    BY <1>6 DEF Observe, FreshObserve, seen
  <2>2. guard = calm /\ guard \in {"young", "old"}
    BY <1>1, <1>2, <1>3, <1>6 DEF Gate
  <2>3. seen.gate \in Gate /\ Composer \in Nodes
    BY <1>2, <1>6 DEF Sees
  <2>4. [seen.gate EXCEPT !.guard = guard, !.calm = calm] \in Gate
    BY <2>2, <2>3 DEF Gate
  <2> HIDE DEF guard, calm
  <2> QED BY <1>2, <1>6, <2>1, <2>2, <2>3, <2>4 DEF Sees, Gate
<1> QED BY <1>1, <1>4, <1>5, <1>6

-----------------------------------------------------------------------------
(* The route and its wait. *)

(* Neither the page nor a dismissal takes part in the step. *)
LEMMA WaitMoves ==
  ASSUME IInv, UNCHANGED <<page, dismissal, budget, marked, presses>>,
         wait'.awaited = wait.awaited, wait'.step = wait.step \/ wait'.step # "closing",
         WaitInv', GateInv', ProofInv'
  PROVE  IInv'
<1>1. PageInv'
  BY DEF IInv, PageInv
<1>2. BudgetInv'
  BY DEF IInv, BudgetInv, At, budget
<1>3. DismissalInv'
  BY DEF IInv, DismissalInv, At, InputIsAccountedFor
<1> QED BY <1>1, <1>2, <1>3 DEF IInv

LEMMA RestartedGate ==
  ASSUME wait'.gate = NewGate
  PROVE  GateInv'
BY RecordsAreTyped DEF GateInv

LEMMA StartFacts ==
  ASSUME NEW call \in Waits, NEW goal \in Goals, NEW policy \in {"existing", "fresh"},
         StartWait(call, goal, policy)
  PROVE  /\ wait' \in Wait /\ wait'.call = call /\ wait'.goal = goal /\ wait'.policy = policy
         /\ wait'.step = "poll" /\ wait'.gate = NewGate /\ wait'.awaited = None
BY RecordsAreTyped DEF StartWait, Wait, WaitSteps, Idle

LEMMA NobodyAwaits ==
  ASSUME WaitInv, wait.step \notin {"dismissing", "closing"} \/ wait.call \notin Waits
  PROVE  wait.awaited = None
BY DEF WaitInv, WaitSteps

LEMMA StartKeeps ==
  ASSUME IInv, NEW call \in Waits, NEW goal \in Goals, NEW policy \in {"existing", "fresh"},
         StartWait(call, goal, policy), UNCHANGED <<page, dismissal, budget, marked, presses>>,
         wait.awaited = None,
         (call = "routing" /\ goal # "THREAD") \/ call = "turnGuard" => policy = "fresh",
         (UNCHANGED <<proof, proven>> /\ call # "turnGuard") \/ proof' = None
  PROVE  IInv'
<1> USE StartFacts
<1>1. WaitInv'
  BY DEF WaitInv, WaitSteps, Waits
<1>2. ProofInv'
  BY DEF IInv, ProofInv, ReadyIsEarned, Waits
<1> QED BY <1>1, <1>2, RestartedGate, WaitMoves

(* The wait ends, or it is not one yet. *)
LEMMA OutsideKeeps ==
  ASSUME IInv, UNCHANGED <<page, dismissal, budget, marked, presses>>, wait' \in Wait,
         wait'.call \notin Waits, wait'.step \in {"none", "loaded"}, wait'.gate = NewGate,
         wait'.awaited = None, wait.awaited = None,
         wait'.call # "idle" => wait'.goal \in Goals,
         proof' \in Sight \cup {None}, proof' # None => proof'.goal # "THREAD" /\ proven' = proof',
         wait'.call \in {"routed", "typing"} /\ wait'.goal # "THREAD" =>
           wait'.ready # None /\ proven' = wait'.ready
  PROVE  IInv'
<1>1. WaitInv'
  BY DEF WaitInv, WaitSteps, Waits
<1>2. ProofInv'
  BY DEF ProofInv, ReadyIsEarned, Waits
<1> QED BY <1>1, <1>2, RestartedGate, WaitMoves

LEMMA ProofIsKept ==
  ASSUME IInv, UNCHANGED <<proof, proven>> \/ proof' = None
  PROVE  /\ proof' \in Sight \cup {None}
         /\ proof' # None => proof'.goal # "THREAD" /\ proven' = proof'
BY DEF IInv, ProofInv

LEMMA RouteKeeps ==
  ASSUME IInv,
         \/ \E goal \in Goals : BeginRoute(goal)
         \/ ProjectRouteRead \/ LoadEvent \/ Navigated \/ Reloaded \/ BeginTurn \/ Leave
  PROVE  IInv'
<1> USE DEF unmovedByRoute, history
<1>1. /\ wait \in Wait /\ WaitInv
      /\ wait.call # "idle" => wait.goal \in Goals
  BY DEF IInv, WaitInv
<1>2. ASSUME wait.call \notin Waits PROVE wait.awaited = None
  BY <1>1, <1>2, NobodyAwaits
<1>3. ASSUME NEW goal \in Goals, BeginRoute(goal) PROVE IInv'
  <2>1. PICK call \in {"current", "navigating"} :
          wait' = [Idle EXCEPT !.goal = goal, !.call = call]
    BY <1>3 DEF BeginRoute
  <2>2. /\ wait' \in Wait /\ wait'.call = call /\ wait'.goal = goal /\ wait'.step = "none"
        /\ wait'.gate = NewGate /\ wait'.awaited = None
    BY <2>1, RecordsAreTyped DEF Wait
  <2>3. UNCHANGED <<proof, proven>> \/ proof' = None
    BY <1>3 DEF BeginRoute
  <2> QED BY <1>2, <1>3, <2>2, <2>3, ProofIsKept, OutsideKeeps DEF BeginRoute, Waits
<1>4. CASE ProjectRouteRead
  <2>1. CASE page.route = wait.goal
    BY <1>1, <1>2, <1>4, <2>1, StartKeeps DEF ProjectRouteRead, Waits
  <2>2. CASE page.route # wait.goal
    <3>1. wait' = [wait EXCEPT !.call = "navigating"] /\ UNCHANGED proof /\ wait.call = "current"
      BY <1>4, <2>2 DEF ProjectRouteRead
    <3>2. wait' \in Wait /\ wait'.call = "navigating" /\ wait'.step = wait.step
          /\ wait'.gate = wait.gate /\ wait'.awaited = wait.awaited /\ wait'.goal = wait.goal
          /\ wait'.policy = wait.policy /\ wait'.frame = wait.frame
      BY <1>1, <3>1 DEF Wait
    <3>3. WaitInv'
      BY <1>1, <3>1, <3>2 DEF WaitInv, WaitSteps, Waits
    <3>4. GateInv'
      BY <1>4, <3>2 DEF IInv, GateInv, Composer, ProjectRouteRead
    <3>5. ProofInv'
      BY <1>4, <3>1, <3>2 DEF IInv, ProofInv, ReadyIsEarned, ProjectRouteRead
    <3> QED BY <1>4, <3>2, <3>3, <3>4, <3>5, WaitMoves DEF ProjectRouteRead
  <2> QED BY <2>1, <2>2
<1>5. CASE LoadEvent
  <2>1. wait' = [wait EXCEPT !.step = "loaded"] /\ wait.call = "navigating"
    BY <1>5 DEF LoadEvent
  <2>2. wait' \in Wait /\ wait'.call = "navigating" /\ wait'.step = "loaded"
        /\ wait'.gate = wait.gate /\ wait'.awaited = wait.awaited /\ wait'.goal = wait.goal
        /\ wait'.policy = wait.policy
    BY <1>1, <2>1 DEF Wait
  <2>3. WaitInv'
    BY <1>1, <1>2, <2>1, <2>2 DEF WaitInv, WaitSteps, Waits
  <2>4. GateInv'
    BY <1>5, <2>2 DEF IInv, GateInv, Composer, LoadEvent
  <2>5. ProofInv'
    BY <1>5, <2>1, <2>2 DEF IInv, ProofInv, ReadyIsEarned, LoadEvent
  <2> QED BY <1>5, <2>2, <2>3, <2>4, <2>5, WaitMoves DEF LoadEvent
<1>6. CASE Navigated
  <2>1. /\ wait.call = "navigating" /\ wait.goal \in Goals /\ wait.awaited = None
        /\ UNCHANGED <<page, dismissal, budget, marked, presses, proven>>
    BY <1>1, <1>2, <1>6 DEF Navigated, Waits
  <2>2. CASE wait.goal = "THREAD"
    <3>1. StartWait("routing", wait.goal, "existing") /\ proof' = None
      BY <1>6, <2>2 DEF Navigated
    <3> QED BY <2>1, <2>2, <3>1, StartKeeps DEF Waits
  <2>3. CASE wait.goal = "PROJECT_ROOT"
    <3>1. StartWait("routing", wait.goal, "fresh") /\ proof' = None
      BY <1>6, <2>3 DEF Navigated
    <3> QED BY <2>1, <3>1, StartKeeps DEF Waits
  <2>4. CASE wait.goal \notin {"THREAD", "PROJECT_ROOT"}
    <3>1. wait' = [wait EXCEPT !.call = "reloading"] /\ UNCHANGED proof
      BY <1>6, <2>4 DEF Navigated
    <3>2. wait' \in Wait /\ wait'.call = "reloading" /\ wait'.step = wait.step
          /\ wait'.gate = wait.gate /\ wait'.awaited = wait.awaited /\ wait'.goal = wait.goal
          /\ wait'.policy = wait.policy /\ wait'.frame = wait.frame
      BY <1>1, <3>1 DEF Wait
    <3>3. WaitInv'
      BY <1>1, <2>1, <3>1, <3>2 DEF WaitInv, WaitSteps, Waits
    <3>4. GateInv'
      BY <2>1, <3>2 DEF IInv, GateInv, Composer
    <3>5. ProofInv'
      BY <2>1, <3>1, <3>2 DEF IInv, ProofInv, ReadyIsEarned
    <3> QED BY <2>1, <3>2, <3>3, <3>4, <3>5, WaitMoves
  <2> QED BY <2>2, <2>3, <2>4
<1>7. CASE Reloaded
  BY <1>1, <1>2, <1>7, StartKeeps DEF Reloaded, Waits
<1>8. CASE BeginTurn
  BY <1>1, <1>2, <1>8, StartKeeps DEF BeginTurn, Waits
<1>9. CASE Leave
  BY <1>2, <1>9, RecordsAreTyped, ProofIsKept, OutsideKeeps DEF Leave, Waits
<1> QED BY <1>3, <1>4, <1>5, <1>6, <1>7, <1>8, <1>9

(* A wait goes on: what it has read and what its gate has seen change. *)
LEMMA WaitGoesOn ==
  ASSUME IInv, UNCHANGED <<page, dismissal, budget, marked, presses>>, wait.call \in Waits,
         wait.step \notin {"dismissing", "closing"},
         NEW step \in {"poll", "tree", "focusFrame", "focusTree", "focusing"},
         NEW frame \in Frame \cup {None}, NEW gate \in Gate,
         wait' = [wait EXCEPT !.step = step, !.frame = frame, !.gate = gate],
         step \in {"tree", "focusFrame"} => frame \in Frame,
         gate = wait.gate \/ GateInv',
         UNCHANGED <<proof, proven>> \/ proof' = None
  PROVE  IInv'
<1>1. wait \in Wait /\ WaitInv /\ wait.awaited = None
  BY NobodyAwaits DEF IInv, WaitInv
<1>2. /\ wait' \in Wait /\ wait'.call = wait.call /\ wait'.goal = wait.goal
      /\ wait'.policy = wait.policy /\ wait'.awaited = wait.awaited
      /\ wait'.step = step /\ wait'.frame = frame /\ wait'.gate = gate
      /\ wait'.ready = wait.ready
  <2>1. step \in WaitSteps \cup {"none", "loaded"}
    BY DEF WaitSteps
  <2> HIDE DEF Waits
  <2>2. wait' \in Wait
    BY <1>1, <2>1 DEF Wait
  <2> QED BY <1>1, <2>2 DEF Wait
<1>3. WaitInv'
  BY <1>1, <1>2 DEF WaitInv, WaitSteps
<1>4. GateInv'
  BY <1>2 DEF IInv, GateInv, Composer
<1>5. ProofInv'
  BY <1>2, ProofIsKept DEF IInv, ProofInv, ReadyIsEarned, Waits
<1> QED BY <1>2, <1>3, <1>4, <1>5, WaitMoves

LEMMA PollKeeps ==
  ASSUME IInv, ReadFrame \/ Polled \/ FocusFrame \/ FocusTree
  PROVE  IInv'
<1> USE DEF unmovedByRoute, history
<1>1. /\ wait \in Wait /\ wait.gate \in Gate /\ wait.frame \in Frame \cup {None}
      /\ wait.step \in WaitSteps => wait.call \in Waits
      /\ wait.step \in {"tree", "focusFrame"} => wait.frame \in Frame
  BY DEF IInv, WaitInv, Wait
<1>2. CASE ReadFrame
  <2>1. PICK frame \in Frame : frame = [doc |-> page.doc, right |-> page.route = wait.goal]
    <3>1. page.doc \in Docs
      BY DEF IInv, PageInv, Page
    <3>2. PICK right \in BOOLEAN : right = (page.route = wait.goal)
      OBVIOUS
    <3>3. [doc |-> page.doc, right |-> right] \in Frame
      BY <3>1 DEF Frame
    <3> QED BY <3>2, <3>3
  <2>2. wait' = [wait EXCEPT !.step = "tree", !.frame = frame, !.gate = wait.gate]
    BY <1>1, <1>2, <2>1 DEF ReadFrame, Wait
  <2>3. wait.call \in Waits /\ wait.step = "poll" /\ UNCHANGED <<proof, unmovedByRoute>>
    BY <1>2 DEF ReadFrame
  <2> QED BY <1>1, <2>2, <2>3, WaitGoesOn
<1>3. CASE Polled
  <2>1. Observe.gate \in Gate /\ wait.step = "tree"
    BY <1>3, ObserveSees DEF Polled, Sees
  <2>2. PICK step \in {"focusFrame", "poll"}, frame \in Frame \cup {None} :
          /\ wait' = [wait EXCEPT !.step = step, !.frame = frame, !.gate = Observe.gate]
          /\ step = "focusFrame" => frame \in Frame
    <3>1. CASE Observe.action = "FOCUS"
      <4>1. wait' = [wait EXCEPT !.step = "focusFrame", !.frame = wait.frame, !.gate = Observe.gate]
        BY <1>1, <1>3, <3>1 DEF Polled, Wait
      <4> QED BY <1>1, <2>1, <4>1
    <3>2. CASE Observe.action # "FOCUS"
      <4>1. wait' = [wait EXCEPT !.step = "poll", !.frame = None, !.gate = Observe.gate]
        BY <1>1, <1>3, <3>2 DEF Polled, Wait
      <4> QED BY <4>1
    <3> QED BY <3>1, <3>2
  <2>3. UNCHANGED page /\ wait'.gate = Observe.gate /\ wait'.policy = wait.policy
    BY <1>1, <1>3, <2>2 DEF Polled, Wait
  <2>4. GateInv'
    <3>1. Composer' = Composer /\ (page.shown => page.node \in Nodes) /\ page \in Page
      BY <2>3 DEF Composer, IInv, PageInv
    <3>2. Observe.gate.guard # "none" =>
            /\ wait.policy = "fresh" /\ Observe.gate.target = Composer /\ Composer \in Nodes
            /\ Observe.gate.calm = Observe.gate.guard
      BY <2>1, ObserveSees
    <3>3. Composer \in Nodes => Composer <= page.node
      BY <3>1, NoneAssumption DEF Composer, Nodes, Page
    <3> QED BY <2>3, <3>1, <3>2, <3>3 DEF GateInv
  <2> QED BY <1>1, <1>3, <2>1, <2>2, <2>4, WaitGoesOn DEF Polled, WaitSteps
<1>4. ASSUME wait.step \in {"focusFrame", "focusTree"}, CandidateChanged, UNCHANGED unmovedByRoute
      PROVE  IInv'
  <2>1. wait' = [wait EXCEPT !.step = "poll", !.frame = None, !.gate = NewGate] /\ proof' = None
    BY <1>4 DEF CandidateChanged
  <2>2. wait'.gate = NewGate
    BY <1>1, <2>1 DEF Wait
  <2> QED BY <1>1, <1>4, <2>1, <2>2, RecordsAreTyped, RestartedGate, WaitGoesOn DEF WaitSteps
<1>5. CASE FocusFrame
  <2>1. CASE page.doc = wait.frame.doc /\ page.route = wait.goal
    <3>1. wait' = [wait EXCEPT !.step = "focusTree", !.frame = wait.frame, !.gate = wait.gate]
      BY <1>1, <1>5, <2>1 DEF FocusFrame, Wait
    <3> QED BY <1>1, <1>5, <2>1, <3>1, WaitGoesOn DEF FocusFrame, WaitSteps
  <2> QED BY <1>4, <1>5, <2>1 DEF FocusFrame
<1>6. CASE FocusTree
  <2>1. CASE page.notice = None /\ Composer = wait.gate.target
    <3>1. wait' = [wait EXCEPT !.step = "focusing", !.frame = None, !.gate = wait.gate]
      BY <1>1, <1>6, <2>1 DEF FocusTree, Wait
    <3> QED BY <1>1, <1>6, <2>1, <3>1, WaitGoesOn DEF FocusTree, WaitSteps
  <2> QED BY <1>4, <1>6, <2>1 DEF FocusTree
<1> QED BY <1>2, <1>3, <1>5, <1>6

LEMMA FocusKeeps ==
  ASSUME IInv, Focus
  PROVE  IInv'
<1> USE DEF Focus, budget, history
<1>1. wait' = [wait EXCEPT !.step = "poll"] /\ wait \in Wait /\ WaitInv
  BY DEF IInv, WaitInv
<1>2. /\ wait' \in Wait /\ wait'.call = wait.call /\ wait'.goal = wait.goal
      /\ wait'.policy = wait.policy /\ wait'.awaited = wait.awaited
      /\ wait'.step = "poll" /\ wait'.frame = wait.frame /\ wait'.gate = wait.gate
      /\ wait'.ready = wait.ready
  BY <1>1 DEF Wait, WaitSteps
<1>3. /\ page' \in Page /\ page'.shown = page.shown /\ page'.node = page.node
  BY DEF IInv, PageInv, Page
<1>4. WaitInv'
  BY <1>1, <1>2 DEF WaitInv, WaitSteps
<1>5. PageInv'
  BY <1>3 DEF IInv, PageInv
<1>6. GateInv'
  BY <1>2, <1>3 DEF IInv, GateInv, Composer
<1>7. ProofInv'
  BY <1>2 DEF IInv, ProofInv, ReadyIsEarned
<1>8. BudgetInv'
  BY DEF IInv, BudgetInv, At
<1>9. DismissalInv'
  BY <1>2 DEF IInv, DismissalInv, At, InputIsAccountedFor
<1> QED BY <1>4, <1>5, <1>6, <1>7, <1>8, <1>9 DEF IInv

(* A dialog is met: the wait starts again, or awaits a dismissal of its own. *)
LEMMA BlockedKeeps ==
  ASSUME IInv, Blocked
  PROVE  IInv'
<1>1. /\ wait \in Wait /\ WaitInv /\ wait.step = "tree" /\ wait.call \in Waits
      /\ wait.awaited = None /\ wait.frame \in Frame /\ proof' = None
      /\ UNCHANGED <<page, budget, marked, presses>>
      /\ page.notice \in Notices \cup {UnknownNotice, None}
  BY NobodyAwaits DEF Blocked, IInv, WaitInv, WaitSteps, PageInv, Page
<1>2. ASSUME NEW d \in Dismissals, dismissal[d] = Unused,
             dismissal' = [dismissal EXCEPT ![d] =
               [Unused EXCEPT !.step = "press", !.doc = wait.frame.doc, !.notice = page.notice]],
             wait' = [wait EXCEPT !.step = "dismissing", !.frame = None, !.gate = NewGate,
                                  !.awaited = d]
      PROVE  IInv'
  <2>1. /\ wait' \in Wait /\ wait'.call = wait.call /\ wait'.goal = wait.goal
        /\ wait'.step = "dismissing" /\ wait'.policy = wait.policy /\ wait'.gate = NewGate
        /\ wait'.awaited = d
    BY <1>1, <1>2, RecordsAreTyped DEF Wait, WaitSteps
  <2>2. PICK e \in Dismissal : /\ dismissal' = [dismissal EXCEPT ![d] = e]
                               /\ e.step = "press" /\ ~ e.input /\ ~ e.aborted
    <3> DEFINE e == [Unused EXCEPT !.step = "press", !.doc = wait.frame.doc,
                                   !.notice = page.notice]
    <3>1. wait.frame.doc \in Docs
      BY <1>1 DEF Frame
    <3>2. e \in Dismissal /\ e.step = "press" /\ ~ e.input /\ ~ e.aborted
      BY <1>1, <3>1 DEF Dismissal, DismissalSteps, Unused
    <3> HIDE DEF e
    <3>3. dismissal' = [dismissal EXCEPT ![d] = e]
      BY <1>2 DEF e
    <3> QED BY <3>2, <3>3
  <2>3. WaitInv'
    BY <1>1, <2>1, NoneAssumption DEF WaitInv, WaitSteps
  <2>4. ProofInv'
    BY <1>1, <2>1 DEF ProofInv, ReadyIsEarned, Waits
  <2>5. PageInv'
    BY <1>1 DEF IInv, PageInv
  <2>6. dismissal \in [Dismissals -> Dismissal] /\ DismissalInv
    BY DEF IInv, DismissalInv
  <2>7. BudgetInv'
    BY <1>1, <2>2, <2>6 DEF IInv, BudgetInv, At, budget
  <2>8. DismissalInv'
    <3>1. /\ dismissal' \in [Dismissals -> Dismissal] /\ dismissal'[d] = e
          /\ \A c \in Dismissals \ {d} : dismissal'[c] = dismissal[c]
      BY <2>2, <2>6
    <3>2. marked' = marked /\ marked \in BOOLEAN
      BY <1>1, <2>6 DEF DismissalInv
    <3>3. ASSUME NEW c \in Dismissals \ {d}
          PROVE  /\ At(c, "unused") \/ dismissal[c].aborted
                 /\ dismissal[c].input =>
                      marked /\ dismissal[c].step \in {"release", "releasing", "settle"}
      BY <1>1, <2>6, NoneAssumption DEF DismissalInv, At, InputIsAccountedFor
    <3> QED BY <2>1, <2>2, <3>1, <3>2, <3>3 DEF DismissalInv, At, InputIsAccountedFor
  <2> QED BY <2>1, <2>3, <2>4, <2>5, <2>7, <2>8, RestartedGate DEF IInv
<1>3. ASSUME wait' = [wait EXCEPT !.step = "poll", !.frame = None, !.gate = NewGate],
             UNCHANGED dismissal
      PROVE  IInv'
  <2>1. wait'.gate = NewGate
    BY <1>1, <1>3 DEF Wait
  <2> QED BY <1>1, <1>3, <2>1, RecordsAreTyped, RestartedGate, WaitGoesOn
<1> QED BY <1>2, <1>3 DEF Blocked

(* What READY means: the composer is there, and a fresh gate has seen its calm. *)
LEMMA ReadyIsSeen ==
  ASSUME IInv, wait.step = "tree", Observe.action = "READY"
  PROVE  /\ Seen \in Sight /\ Seen # None /\ wait.goal \in Goals /\ wait.awaited = None
         /\ ProvenBy(wait.policy) = IF wait.policy = "fresh" THEN Seen ELSE proven
         /\ Seen.goal = wait.goal
<1>1. /\ wait.goal \in Goals /\ wait.frame \in Frame /\ wait.policy \in {"existing", "fresh"}
      /\ wait.awaited = None
  BY DEF IInv, WaitInv, Wait, Waits, WaitSteps
<1>2. Composer \in Nodes
  BY ObserveSees DEF Sees
<1>3. Seen \in Sight /\ Seen.goal = wait.goal
  BY <1>1, <1>2 DEF Seen, Sight, Frame
<1>4. Seen # None
  BY <1>3, NoneAssumption DEF Sight, Docs, Nodes
<1>5. ProvenBy(wait.policy) = IF wait.policy = "fresh" THEN Seen ELSE proven
  BY <1>1, ObserveSees DEF ProvenBy
<1> QED BY <1>1, <1>3, <1>4, <1>5

LEMMA ReadyKeeps ==
  ASSUME IInv, RouteReady \/ TurnReady \/ TurnGuardReady
  PROVE  IInv'
<1>1. /\ wait.step = "tree" /\ Observe.action = "READY" /\ WaitInv /\ ProofInv
      /\ UNCHANGED <<page, dismissal, budget, marked, presses>>
  BY DEF RouteReady, TurnReady, TurnGuardReady, IInv
<1>2. /\ Seen \in Sight /\ Seen # None /\ wait.goal \in Goals /\ wait.awaited = None
      /\ ProvenBy(wait.policy) = IF wait.policy = "fresh" THEN Seen ELSE proven
      /\ Seen.goal = wait.goal
  BY <1>1, ReadyIsSeen
<1> HIDE DEF Seen
<1>3. ASSUME NEW call \in {"routed", "typing"}
      PROVE  LET w == [Idle EXCEPT !.call = call, !.goal = wait.goal, !.ready = Seen]
             IN  /\ w \in Wait /\ w.call = call /\ w.goal = wait.goal /\ w.step = "none"
                 /\ w.gate = NewGate /\ w.awaited = None /\ w.ready = Seen
  BY <1>2, RecordsAreTyped DEF Wait
<1>4. CASE RouteReady
  <2>1. /\ wait.call = "routing" /\ proven' = ProvenBy(wait.policy)
        /\ wait' = [Idle EXCEPT !.call = "routed", !.goal = wait.goal, !.ready = Seen]
        /\ proof' = IF wait.goal = "THREAD" THEN None ELSE Seen
    BY <1>4 DEF RouteReady
  <2>2. wait.goal # "THREAD" => proven' = Seen
    BY <1>1, <1>2, <2>1 DEF WaitInv
  <2> QED BY <1>1, <1>2, <1>3, <2>1, <2>2, OutsideKeeps DEF Waits
<1>5. CASE TurnReady
  <2>1. proven' = ProvenBy(wait.policy) /\ proof' = None
    BY <1>5 DEF TurnReady
  <2>2. CASE wait.goal = "THREAD" \/ ProofHolds
    <3>1. wait' = [Idle EXCEPT !.call = "typing", !.goal = wait.goal, !.ready = Seen]
      BY <1>5, <2>2 DEF TurnReady
    <3>2. wait.goal # "THREAD" => proven' = Seen
      BY <1>1, <1>2, <2>1, <2>2 DEF ProofInv, ProofHolds
    <3> QED BY <1>1, <1>2, <1>3, <2>1, <3>1, <3>2, OutsideKeeps DEF Waits
  <2>3. CASE ~ (wait.goal = "THREAD" \/ ProofHolds)
    <3>1. StartWait("turnGuard", wait.goal, "fresh")
      BY <1>5, <2>3 DEF TurnReady
    <3> QED BY <1>1, <1>2, <2>1, <3>1, StartKeeps DEF Waits
  <2> QED BY <2>2, <2>3
<1>6. CASE TurnGuardReady
  <2>1. /\ wait.call = "turnGuard" /\ proven' = ProvenBy(wait.policy) /\ UNCHANGED proof
        /\ wait' = [Idle EXCEPT !.call = "typing", !.goal = wait.goal, !.ready = Seen]
    BY <1>6 DEF TurnGuardReady
  <2>2. proof = None /\ proven' = Seen
    BY <1>1, <1>2, <2>1 DEF WaitInv, ProofInv
  <2> QED BY <1>1, <1>2, <1>3, <2>1, <2>2, OutsideKeeps DEF Waits
<1> QED BY <1>4, <1>5, <1>6

LEMMA WaitFailsKeeps ==
  ASSUME IInv, WaitFails
  PROVE  IInv'
<1>1. wait' = Idle /\ wait.awaited = None /\ UNCHANGED <<proof, unmovedByRoute>>
  BY NobodyAwaits DEF WaitFails, IInv
<1> QED BY <1>1, RecordsAreTyped, ProofIsKept, OutsideKeeps DEF unmovedByRoute, history, Waits

(* Activity stays to be seen; only an undisturbed guard grows old. *)
LEMMA GuardKeeps ==
  ASSUME IInv, Activity \/ Clock
  PROVE  IInv'
<1> USE DEF history
<1>1. /\ wait \in Wait /\ WaitInv /\ wait.gate \in Gate
      /\ UNCHANGED <<page, proof, dismissal, budget, marked, history>>
  BY DEF IInv, WaitInv, Wait, Activity, Clock
<1>2. PICK gate \in Gate :
        /\ wait' = [wait EXCEPT !.gate = gate] /\ gate.target = wait.gate.target
        /\ gate.guard # "none" => wait.gate.guard # "none"
        /\ gate.guard # "none" =>
             gate.calm = gate.guard \/ gate.active \/ Composer # gate.target
  <2>1. CASE Activity
    <3>1. PICK gate \in Gate : gate = [wait.gate EXCEPT !.active = TRUE, !.calm = "broken"]
      BY <1>1 DEF Gate
    <3>2. wait' = [wait EXCEPT !.gate = gate]
      BY <1>1, <2>1, <3>1 DEF Activity, Wait
    <3> QED BY <1>1, <3>1, <3>2 DEF Gate
  <2>2. CASE Clock
    <3>1. PICK calm \in {"broken", "young", "old"} :
            calm = IF wait.gate.calm = "young" THEN "old" ELSE wait.gate.calm
      BY <1>1 DEF Gate
    <3>2. PICK gate \in Gate : gate = [wait.gate EXCEPT !.guard = "old", !.calm = calm]
      BY <1>1 DEF Gate
    <3>3. wait' = [wait EXCEPT !.gate = gate] /\ wait.gate.guard = "young"
      BY <1>1, <2>2, <3>1, <3>2 DEF Clock, Wait
    <3> QED BY <1>1, <3>1, <3>2, <3>3 DEF Gate, IInv, GateInv
  <2> QED BY <2>1, <2>2
<1>3. /\ wait' \in Wait /\ wait'.call = wait.call /\ wait'.goal = wait.goal
      /\ wait'.step = wait.step /\ wait'.frame = wait.frame /\ wait'.policy = wait.policy
      /\ wait'.awaited = wait.awaited /\ wait'.ready = wait.ready /\ wait'.gate = gate
  BY <1>1, <1>2 DEF Wait
<1>4. WaitInv'
  BY <1>1, <1>3 DEF WaitInv
<1>5. GateInv'
  BY <1>1, <1>2, <1>3 DEF IInv, GateInv, Composer
<1>6. ProofInv'
  BY <1>1, <1>3 DEF IInv, ProofInv, ReadyIsEarned
<1>7. PageInv' /\ BudgetInv' /\ DismissalInv'
  BY <1>1, <1>3 DEF IInv, PageInv, BudgetInv, DismissalInv, At, InputIsAccountedFor, budget
<1> QED BY <1>4, <1>5, <1>6, <1>7 DEF IInv

-----------------------------------------------------------------------------
(* The dismissals. *)

(* The page, the route and the gate are as they were. *)
LEMMA DismissalMoves ==
  ASSUME IInv, UNCHANGED <<wait, proof, proven>>, page' \in Page, page'.node = page.node,
         page'.shown = page.shown, BudgetInv', DismissalInv'
  PROVE  IInv'
<1>1. PageInv' /\ WaitInv' /\ GateInv' /\ ProofInv'
  BY DEF IInv, PageInv, WaitInv, GateInv, Composer, ProofInv, ReadyIsEarned
<1> QED BY <1>1 DEF IInv

(* A dismissal goes on, and owes the input it owed. *)
LEMMA AdvanceKeeps ==
  ASSUME IInv, NEW d \in Dismissals, NEW e \in Dismissal, ~ At(d, "unused"),
         dismissal' = [dismissal EXCEPT ![d] = e],
         e.input = dismissal[d].input, e.aborted = dismissal[d].aborted,
         e.input => e.step \in {"release", "releasing", "settle"},
         UNCHANGED <<wait, proof, marked, proven, presses>>, page' \in Page,
         page'.node = page.node, page'.shown = page.shown,
         \/ UNCHANGED record /\ (At(d, "pressing") \/ e.step # "pressing")
         \/ record = "none" /\ record' # "none"
  PROVE  IInv'
<1>1. dismissal \in [Dismissals -> Dismissal] /\ DismissalInv /\ BudgetInv
  BY DEF IInv, DismissalInv
<1>2. /\ dismissal' \in [Dismissals -> Dismissal] /\ dismissal'[d] = e
      /\ \A c \in Dismissals \ {d} : dismissal'[c] = dismissal[c]
  BY <1>1
<1>3. BudgetInv'
  BY <1>1, <1>2 DEF BudgetInv, At, history
<1>4. DismissalInv'
  BY <1>1, <1>2 DEF DismissalInv, At, InputIsAccountedFor
<1> QED BY <1>3, <1>4, DismissalMoves DEF history

(* A dismissal is over, and with it the wait that awaits it. *)
LEMMA FailsKeeps ==
  ASSUME IInv, NEW d \in Dismissals, Fails(d), UNCHANGED <<page, proof, history>>,
         UNCHANGED record \/ record = "none"
  PROVE  IInv'
<1>1. /\ dismissal \in [Dismissals -> Dismissal] /\ DismissalInv /\ BudgetInv
      /\ wait.awaited \in Dismissals \cup {None} /\ None \notin Dismissals
  BY NoneAssumption DEF IInv, DismissalInv, WaitInv, Wait
<1>2. /\ dismissal' \in [Dismissals -> Dismissal] /\ dismissal'[d] = Unused
      /\ \A c \in Dismissals \ {d} : dismissal'[c] = dismissal[c]
  BY <1>1, RecordsAreTyped DEF Fails
<1>3. BudgetInv'
  <2>1. \A c \in Dismissals : dismissal'[c].step = "pressing" => At(c, "pressing")
    BY <1>2, RecordsAreTyped DEF At
  <2> QED BY <1>1, <2>1 DEF BudgetInv, At, history
<1>4. CASE wait.awaited = d
  <2>1. wait' = Idle /\ marked' = (marked \/ dismissal[d].input)
    BY <1>4 DEF Fails
  <2>2. DismissalInv'
    <3>1. marked' \in BOOLEAN /\ (marked => marked') /\ wait'.awaited = None /\ wait'.step = "none"
      BY <1>1, <2>1, RecordsAreTyped DEF DismissalInv, Dismissal
    <3> QED BY <1>1, <1>2, <1>4, <3>1, RecordsAreTyped DEF DismissalInv, At, InputIsAccountedFor
  <2>3. WaitInv' /\ GateInv' /\ ProofInv' /\ PageInv'
    BY <2>1, RecordsAreTyped
       DEF IInv, WaitInv, WaitSteps, Waits, GateInv, ProofInv, ReadyIsEarned, PageInv, history
  <2> QED BY <1>3, <2>2, <2>3 DEF IInv
<1>5. CASE wait.awaited # d
  <2>1. UNCHANGED <<wait, marked>>
    BY <1>5 DEF Fails
  <2>2. DismissalInv'
    BY <1>1, <1>2, <1>5, <2>1, RecordsAreTyped DEF DismissalInv, At, InputIsAccountedFor
  <2> QED BY <1>3, <2>1, <2>2, DismissalMoves DEF IInv, PageInv, history
<1> QED BY <1>4, <1>5

LEMMA DismissalKeeps ==
  ASSUME IInv, NEW d \in Dismissals, DismissalNext(d)
  PROVE  IInv'
<1> USE DEF unmovedByDismissal, budget, history
<1>1. /\ dismissal \in [Dismissals -> Dismissal] /\ DismissalInv /\ BudgetInv /\ page \in Page
      /\ dismissal[d] \in Dismissal
      /\ dismissal[d].input => dismissal[d].step \in {"release", "releasing", "settle"}
      /\ ~ At(d, "unused") /\ ~ dismissal[d].aborted => wait.awaited = d
  BY DEF IInv, DismissalInv, PageInv
<1>2. ASSUME NEW step \in DismissalSteps, Advance(d, step)
      PROVE  \E e \in Dismissal :
               /\ dismissal' = [dismissal EXCEPT ![d] = e] /\ e.step = step
               /\ e.input = dismissal[d].input /\ e.aborted = dismissal[d].aborted
  <2> DEFINE e == [dismissal[d] EXCEPT !.step = step, !.read = FALSE]
  <2>1. dismissal' = [dismissal EXCEPT ![d] = e]
    BY <1>1, <1>2 DEF Advance
  <2>2. e \in Dismissal /\ e.step = step /\ e.input = dismissal[d].input
        /\ e.aborted = dismissal[d].aborted
    BY <1>1 DEF Dismissal
  <2> QED BY <2>1, <2>2
<1>3. CASE CheckFrame(d)
  <2>1. CASE page.doc = dismissal[d].doc /\ page.route = "FRESH_ROOT"
    <3> DEFINE e == [dismissal[d] EXCEPT !.read = TRUE]
    <3>1. dismissal' = [dismissal EXCEPT ![d] = e] /\ dismissal[d].step \in Checks
      BY <1>1, <1>3, <2>1 DEF CheckFrame
    <3>2. e \in Dismissal /\ e.step = dismissal[d].step /\ e.input = dismissal[d].input
          /\ e.aborted = dismissal[d].aborted
      BY <1>1 DEF Dismissal
    <3> HIDE DEF e
    <3>3. ~ At(d, "unused") /\ e.step # "pressing"
      BY <3>1, <3>2 DEF Checks, At
    <3>4. UNCHANGED <<page, wait, proof, marked, record, proven, presses>>
      BY <1>3, <2>1 DEF CheckFrame
    <3>5. e.input => e.step \in {"release", "releasing", "settle"}
      BY <1>1, <3>2
    <3> QED BY <1>1, <3>1, <3>2, <3>3, <3>4, <3>5, AdvanceKeeps
  <2> QED BY <1>3, <2>1, FailsKeeps DEF CheckFrame
<1>4. CASE CheckTree(d)
  <2>1. CASE page.notice = dismissal[d].notice
    <3>1. /\ Advance(d, AfterCheck(dismissal[d].step)) /\ dismissal[d].step \in {"press", "release"}
          /\ UNCHANGED <<page, wait, proof, budget, marked, history>>
      BY <1>4, <2>1 DEF CheckTree, Checks
    <3>2. /\ AfterCheck(dismissal[d].step) \in {"consume", "releasing"}
          /\ dismissal[d].input => AfterCheck(dismissal[d].step) = "releasing"
      BY <1>1, <3>1 DEF AfterCheck
    <3>3. PICK e \in Dismissal :
            /\ dismissal' = [dismissal EXCEPT ![d] = e] /\ e.step = AfterCheck(dismissal[d].step)
            /\ e.input = dismissal[d].input /\ e.aborted = dismissal[d].aborted
      BY <1>2, <3>1, <3>2 DEF DismissalSteps
    <3>4. ~ At(d, "unused") /\ UNCHANGED record /\ e.step # "pressing"
      BY <3>1, <3>2, <3>3 DEF At
    <3>5. e.input => e.step \in {"release", "releasing", "settle"}
      BY <3>2, <3>3
    <3> QED BY <1>1, <3>1, <3>3, <3>4, <3>5, AdvanceKeeps
  <2> QED BY <1>4, <2>1, FailsKeeps DEF CheckTree
<1>5. CASE Consume(d)
  <2>2. Advance(d, "pressing") /\ UNCHANGED <<wait, proof, marked, history>>
    BY <1>5 DEF Consume
  <2>3. PICK e \in Dismissal :
          /\ dismissal' = [dismissal EXCEPT ![d] = e] /\ e.step = "pressing"
          /\ e.input = dismissal[d].input /\ e.aborted = dismissal[d].aborted
    BY <1>2, <2>2 DEF DismissalSteps
  <2>4. /\ At(d, "consume") /\ ~ At(d, "unused") /\ ~ e.input
        /\ record = "none" /\ record' # "none" /\ UNCHANGED page
    BY <1>1, <1>5, <2>3 DEF Consume, Permitted, At
  <2> QED BY <1>1, <2>2, <2>3, <2>4, AdvanceKeeps
<1>6. CASE ConsumeFails(d)
  <2>1. UNCHANGED record \/ record = "none"
    BY <1>6 DEF ConsumeFails, Permitted
  <2> QED BY <1>6, <2>1, FailsKeeps DEF ConsumeFails
<1>7. CASE Press(d)
  <2> DEFINE e == [dismissal[d] EXCEPT !.step = "release", !.input = TRUE]
  <2>1. /\ dismissal' = [dismissal EXCEPT ![d] = e] /\ At(d, "pressing") /\ ~ dismissal[d].aborted
        /\ presses' = presses + 1 /\ UNCHANGED <<page, wait, proof, record, marked, proven>>
    BY <1>1, <1>7 DEF Press, MayDispatch
  <2>2. /\ e \in Dismissal /\ e.step = "release" /\ e.input /\ e.aborted = dismissal[d].aborted
    BY <1>1 DEF Dismissal, DismissalSteps
  <2> HIDE DEF e
  <2>3. /\ dismissal' \in [Dismissals -> Dismissal] /\ dismissal'[d] = e
        /\ \A c \in Dismissals \ {d} : dismissal'[c] = dismissal[c]
    BY <1>1, <2>1, <2>2
  <2>4. record # "none" /\ presses' = 1 /\ wait.awaited = d
    BY <1>1, <2>1 DEF BudgetInv, At
  <2>5. \A c \in Dismissals : ~ (dismissal'[c].step = "pressing")
    BY <1>1, <2>1, <2>2, <2>3 DEF BudgetInv, At
  <2>6. BudgetInv'
    BY <2>1, <2>4, <2>5 DEF BudgetInv, At
  <2>7. DismissalInv'
    BY <1>1, <2>1, <2>2, <2>3, <2>4 DEF DismissalInv, At, InputIsAccountedFor
  <2> QED BY <1>1, <2>1, <2>6, <2>7, DismissalMoves
<1>8. CASE Release(d)
  <2>1. page' \in Page /\ page'.node = page.node /\ page'.shown = page.shown
    BY <1>1, <1>8 DEF Release, Page
  <2>2. Advance(d, "settle") /\ UNCHANGED <<wait, proof, marked, history>>
    BY <1>8 DEF Release
  <2>3. PICK e \in Dismissal :
          /\ dismissal' = [dismissal EXCEPT ![d] = e] /\ e.step = "settle"
          /\ e.input = dismissal[d].input /\ e.aborted = dismissal[d].aborted
    BY <1>2, <2>2 DEF DismissalSteps
  <2>4. ~ At(d, "unused") /\ UNCHANGED record
    BY <1>8 DEF Release, At
  <2> QED BY <1>1, <2>1, <2>2, <2>3, <2>4, AdvanceKeeps
<1>9. CASE StillShown(d)
  <2>2. Advance(d, "settle") /\ UNCHANGED <<wait, proof, marked, history>>
    BY <1>9 DEF StillShown
  <2>3. PICK e \in Dismissal :
          /\ dismissal' = [dismissal EXCEPT ![d] = e] /\ e.step = "settle"
          /\ e.input = dismissal[d].input /\ e.aborted = dismissal[d].aborted
    BY <1>2, <2>2 DEF DismissalSteps
  <2>4. ~ At(d, "unused") /\ UNCHANGED <<page, record>>
    BY <1>9 DEF StillShown, At
  <2> QED BY <1>1, <2>2, <2>3, <2>4, AdvanceKeeps
<1>10. CASE Dismissed(d)
  <2>1. /\ wait.awaited = d /\ wait \in Wait /\ WaitInv /\ d # None
        /\ wait' = [wait EXCEPT !.step = "poll", !.policy = "fresh", !.gate = NewGate,
                               !.awaited = None]
        /\ dismissal' = [dismissal EXCEPT ![d] = Unused]
        /\ UNCHANGED <<page, proof, budget, marked, history>>
    BY <1>1, <1>10, NoneAssumption DEF Dismissed, MayDispatch, At, IInv, WaitInv
  <2>2. /\ wait' \in Wait /\ wait'.call = wait.call /\ wait'.goal = wait.goal
        /\ wait'.step = "poll" /\ wait'.policy = "fresh" /\ wait'.gate = NewGate
        /\ wait'.awaited = None
    <3>1. PICK gate \in Gate : gate = NewGate
      BY RecordsAreTyped
    <3>2. "poll" \in WaitSteps \cup {"none", "loaded"}
      BY DEF WaitSteps
    <3>3. wait' = [wait EXCEPT !.step = "poll", !.policy = "fresh", !.gate = gate,
                               !.awaited = None]
      BY <2>1, <3>1
    <3>4. wait' \in Wait
      BY <2>1, <3>2, <3>3 DEF Wait
    <3> QED BY <2>1, <3>1, <3>3, <3>4 DEF Wait
  <2>3. WaitInv'
    BY <2>1, <2>2 DEF WaitInv, WaitSteps
  <2>4. ProofInv' /\ PageInv'
    <3>1. wait.call \in Waits
      BY <2>1 DEF WaitInv, WaitSteps
    <3> QED BY <2>1, <2>2, <3>1 DEF IInv, ProofInv, ReadyIsEarned, PageInv, Waits
  <2>5. /\ dismissal' \in [Dismissals -> Dismissal] /\ dismissal'[d] = Unused
        /\ \A c \in Dismissals \ {d} : dismissal'[c] = dismissal[c]
    BY <1>1, <2>1, RecordsAreTyped
  <2>6. BudgetInv'
    BY <1>1, <2>1, <2>5, RecordsAreTyped DEF BudgetInv, At
  <2>7. DismissalInv'
    BY <1>1, <2>1, <2>2, <2>5, RecordsAreTyped DEF DismissalInv, At, InputIsAccountedFor
  <2> QED BY <2>2, <2>3, <2>4, <2>6, <2>7, RestartedGate DEF IInv
<1>11. CASE SettleFails(d)
  BY <1>11, FailsKeeps DEF SettleFails
<1>12. CASE DismissalFails(d)
  BY <1>12, FailsKeeps DEF DismissalFails
<1> QED BY <1>3, <1>4, <1>5, <1>6, <1>7, <1>8, <1>9, <1>10, <1>11, <1>12 DEF DismissalNext

LEMMA AbortKeeps ==
  ASSUME IInv, Abort \/ Closed
  PROVE  IInv'
<1> USE DEF unmovedByDismissal, budget, history
<1>1. /\ dismissal \in [Dismissals -> Dismissal] /\ DismissalInv /\ BudgetInv
      /\ wait \in Wait /\ WaitInv /\ wait.awaited \in Dismissals
      /\ wait.step \in {"dismissing", "closing"}
      /\ UNCHANGED <<page, proof, budget, history>>
  BY DEF IInv, DismissalInv, WaitInv, Wait, Abort, Closed
<1>2. CASE Abort
  <2> DEFINE d == wait.awaited
             e == [dismissal[d] EXCEPT !.aborted = TRUE]
  <2>1. d \in Dismissals /\ dismissal[d] \in Dismissal
    BY <1>1
  <2>2. wait' = [wait EXCEPT !.step = "closing"] /\ dismissal' = [dismissal EXCEPT ![d] = e]
        /\ UNCHANGED marked
    BY <1>1, <1>2 DEF Abort
  <2>3. e \in Dismissal /\ e.step = dismissal[d].step /\ e.input = dismissal[d].input /\ e.aborted
    BY <2>1 DEF Dismissal
  <2>4. /\ wait' \in Wait /\ wait'.call = wait.call /\ wait'.goal = wait.goal
        /\ wait'.policy = wait.policy /\ wait'.awaited = d /\ wait'.step = "closing"
        /\ wait'.gate = wait.gate
    BY <1>1, <2>2 DEF Wait, WaitSteps
  <2>5. wait.call \in Waits
    BY <1>1 DEF WaitInv, WaitSteps
  <2>6. WaitInv'
    BY <1>1, <2>4, <2>5 DEF WaitInv, WaitSteps
  <2>7. GateInv' /\ ProofInv' /\ PageInv'
    BY <1>1, <2>4, <2>5 DEF IInv, GateInv, Composer, ProofInv, ReadyIsEarned, PageInv, Waits
  <2> HIDE DEF e
  <2>8. /\ dismissal' \in [Dismissals -> Dismissal] /\ dismissal'[d] = e
        /\ \A c \in Dismissals \ {d} : dismissal'[c] = dismissal[c]
    BY <1>1, <2>1, <2>2, <2>3
  <2> HIDE DEF d
  <2>9. BudgetInv'
    BY <1>1, <2>3, <2>8 DEF BudgetInv, At
  <2>10. d = wait.awaited
    BY DEF d
  <2>11. DismissalInv'
    BY <1>1, <2>1, <2>2, <2>3, <2>4, <2>8, <2>10 DEF DismissalInv, At, InputIsAccountedFor
  <2> QED BY <2>6, <2>7, <2>9, <2>11 DEF IInv
<1>3. CASE Closed
  <2>1. /\ wait' = Idle /\ UNCHANGED dismissal /\ wait.step = "closing"
        /\ marked' = (marked \/ dismissal[wait.awaited].input)
    BY <1>3 DEF Closed
  <2>2. WaitInv' /\ GateInv' /\ ProofInv' /\ PageInv'
    BY <1>1, <2>1, RecordsAreTyped
       DEF IInv, WaitInv, WaitSteps, Waits, GateInv, ProofInv, ReadyIsEarned, PageInv
  <2>3. BudgetInv'
    BY <1>1, <2>1 DEF BudgetInv, At
  <2>4. DismissalInv'
    <3>1. wait'.awaited = None /\ wait'.step = "none"
      BY <2>1, RecordsAreTyped
    <3>2. marked' \in BOOLEAN /\ (marked => marked')
      BY <1>1, <2>1 DEF DismissalInv, Dismissal
    <3>3. dismissal[wait.awaited].aborted /\ (dismissal[wait.awaited].input => marked')
      BY <1>1, <2>1 DEF DismissalInv
    <3> QED BY <1>1, <2>1, <3>1, <3>2, <3>3 DEF DismissalInv, At, InputIsAccountedFor
  <2> QED BY <2>2, <2>3, <2>4 DEF IInv
<1> QED BY <1>2, <1>3

LEMMA OutsiderKeeps ==
  ASSUME IInv, OtherConsumes \/ Restart
  PROVE  IInv'
<1> USE DEF budget, history
<1>1. DismissalInv /\ BudgetInv /\ PageInv /\ ProofInv
  BY DEF IInv
<1>2. CASE OtherConsumes
  <2>1. /\ record = "none" /\ record' = "other" /\ presses' = presses + 1
        /\ UNCHANGED <<page, wait, proof, dismissal, marked, proven>>
    BY <1>2 DEF OtherConsumes
  <2>2. BudgetInv'
    BY <1>1, <2>1 DEF BudgetInv, At
  <2>3. DismissalInv'
    BY <1>1, <2>1 DEF DismissalInv, At, InputIsAccountedFor
  <2> QED BY <1>1, <2>1, <2>2, <2>3, DismissalMoves DEF PageInv
<1>3. CASE Restart
  <2>1. /\ wait' = Idle /\ proof' = None /\ dismissal' = [d \in Dismissals |-> Unused]
        /\ marked' = FALSE /\ UNCHANGED <<page, record, presses>>
    BY <1>3 DEF Restart
  <2>2. WaitInv' /\ GateInv' /\ ProofInv' /\ PageInv'
    BY <1>1, <2>1, RecordsAreTyped
       DEF WaitInv, WaitSteps, Waits, GateInv, ProofInv, ReadyIsEarned, PageInv
  <2>3. BudgetInv' /\ DismissalInv'
    BY <1>1, <2>1, RecordsAreTyped DEF BudgetInv, DismissalInv, At, InputIsAccountedFor
  <2> QED BY <2>2, <2>3 DEF IInv
<1> QED BY <1>2, <1>3

-----------------------------------------------------------------------------
LEMMA StutterKeeps ==
  ASSUME IInv, UNCHANGED vars
  PROVE  IInv'
BY DEF IInv, PageInv, WaitInv, GateInv, Composer, ProofInv, ReadyIsEarned, BudgetInv, DismissalInv,
       At, InputIsAccountedFor, vars, budget, history

LEMMA NextPreserves == IInv /\ [Next]_vars => IInv'
<1> SUFFICES ASSUME IInv, [Next]_vars PROVE IInv'
  OBVIOUS
<1>1. CASE PageNext
  BY <1>1, PageKeeps, GuardKeeps, OutsiderKeeps DEF PageNext
<1>2. CASE RouteNext
  BY <1>2, RouteKeeps, PollKeeps, BlockedKeeps, ReadyKeeps, FocusKeeps, WaitFailsKeeps, AbortKeeps
     DEF RouteNext
<1>3. CASE \E d \in Dismissals : DismissalNext(d)
  BY <1>3, DismissalKeeps
<1>4. CASE Restart
  BY <1>4, OutsiderKeeps
<1> QED BY <1>1, <1>2, <1>3, <1>4, StutterKeeps DEF Next

LEMMA Inductive == Spec => []IInv
BY InitEstablishes, NextPreserves, PTL DEF Spec

(* The types of the page, of a wait and of its gate, and that a dismissal  *)
(* is awaited exactly while a wait is in one.                              *)
THEOREM TypeCorrect == Spec => []TypeOK
<1>1. IInv => TypeOK
  <2> SUFFICES ASSUME IInv PROVE TypeOK
    OBVIOUS
  <2>1. page \in [doc : 0..MaxDocs, route : Goals, node : 0..MaxNodes, shown : BOOLEAN,
                   focused : BOOLEAN, notice : Notices \cup {UnknownNotice, None}]
    BY DEF IInv, PageInv, Page, Docs
  <2>2. /\ wait.gate \in Gate /\ wait.awaited \in Dismissals \cup {None}
        /\ (wait.awaited # None) = (wait.step \in {"dismissing", "closing"})
    BY DEF IInv, WaitInv, Wait
  <2>3. \A d \in Dismissals : dismissal[d].input => dismissal[d].step \notin {"press", "consume"}
    BY DEF IInv, DismissalInv
  <2>4. proof # None => proof.goal # "THREAD"
    BY DEF IInv, ProofInv
  <2> QED BY <2>1, <2>2, <2>3, <2>4 DEF TypeOK
<1> QED BY <1>1, Inductive, PTL

(* ReadinessController.ts:253 and :319: a route or a turn of the root or   *)
(* of a Project goes on only with a document and a composer that the page  *)
(* has kept, without activity, for a whole guard duration.                 *)
THEOREM ReadinessIsEarned == Spec => []ReadyIsEarned
<1>1. IInv => ReadyIsEarned
  BY DEF IInv, ProofInv
<1> QED BY <1>1, Inductive, PTL

(* FreshNoticeBudget.ts:106: an intent is worth one press, across crashes, *)
(* dismissals that go on after their abort, and other processes.           *)
THEOREM OneDismissalOnly == Spec => []OneDismissal
<1>1. IInv => OneDismissal
  BY DEF IInv, BudgetInv, OneDismissal
<1> QED BY <1>1, Inductive, PTL

(* CdpSessionManager.ts:391: input into a notice is answered for by the    *)
(* wait that asked for it, or the lease is marked uncertain.               *)
THEOREM InputIsNeverForgotten == Spec => []InputIsAccountedFor
<1>1. IInv => InputIsAccountedFor
  BY DEF IInv, DismissalInv
<1> QED BY <1>1, Inductive, PTL

=============================================================================

---------------------- MODULE ThreadwireHttpServerProofs ----------------------
(***************************************************************************)
(* Proofs about the controller, and about the HTTP server around it, for   *)
(* every set of requests, conversations and processes, for every capacity  *)
(* of the queue and every limit of the server.                             *)
(*                                                                         *)
(* Two facts carry the safety of the completion barrier.  Only the active  *)
(* request is past its wait for the barrier, and only while there is none: *)
(* a barrier can be installed by nobody but the active request itself.     *)
(* And a lease is held by one request at a time, the one that is active or *)
(* the one whose completion is undecided: what was marked before it took   *)
(* its lease is older than that lease, so that remembering one uncertain   *)
(* lease is enough, although the mark may come from a turn that returned   *)
(* long ago.                                                               *)
(*                                                                         *)
(* The server calls the controller as the controller's specification lets  *)
(* its callers do, so the theorems about the controller hold of the whole. *)
(* That a Project turn is committed exactly when its response was taken    *)
(* follows from where a handler is while the completion of its turn is     *)
(* undecided (HttpInv): between the result of the turn and the end of the  *)
(* response, on which the test of the handler relies although it looks at  *)
(* less than that.                                                         *)
(*                                                                         *)
(* The two limits, of the queue and of the requests in flight, are kept by *)
(* looking at a count: QueueInv and CountInv say that the count is that of *)
(* the requests that are there, so that whatever way a handler leaves by   *)
(* gives back exactly the slot it had.                                     *)
(***************************************************************************)
EXTENDS ThreadwireHttpServer, FiniteSetTheorems, SequenceTheorems, TLAPS

-----------------------------------------------------------------------------
(* The controller.                                                          *)

(* Phases of the request that is active, and those past the barrier. *)
PastPhases == {"preparing", "routing", "routed", "working", "confirming", "recovering",
               "restarting"}

ActivePhases == {"committing", "barrier"} \cup PastPhases

(* Who acts under a lease, or may still have to mark the one it took. *)
Holds(r) ==
  \/ pc[r] \in {"routing", "routed", "working", "confirming"}
  \/ settlement[r] = "pending"

BarrierTypes ==
  /\ pc \in [Reqs -> Phases]
  /\ active \in Reqs \cup {None}
  /\ settlement \in [Reqs -> {"unused", "pending", "committed", "rolledBack"}]
  /\ barrier \in Reqs \cup {None}
  /\ barrierPromise \in [Reqs -> {"none", "pending", "committed", "rolledBack"}]
  /\ awaits \in [Reqs -> Reqs \cup {None}]

LeaseTypes ==
  /\ runtime \in Tracker
  /\ runtime.current \in {runtime.last, NoIdentity}
  /\ uncertainLease \in AnyLease
  /\ lease \in [Reqs -> AnyLease]
  /\ tainted \subseteq Lease

BarrierInv ==
  /\ BarrierTypes
  /\ \A r \in Reqs : pc[r] \in ActivePhases => active = r
  /\ \A r \in Reqs : pc[r] \in PastPhases => barrier = None
  /\ \A r \in Reqs : pc[r] = "barrier" =>
       awaits[r] \in Reqs /\ barrier \in {awaits[r], None}
  /\ barrier # None => barrierPromise[barrier] = "pending"
  /\ unsettled = {r \in Reqs : barrier = r}
  /\ \A r \in Reqs : settlement[r] = "pending" <=> barrier = r

(* A lease the tracker has given out: of a generation it has seen. *)
Given(l) ==
  /\ l \in Lease
  /\ l.generation <= runtime.generation
  /\ l.generation = runtime.generation => l.identity = runtime.last

LeaseInv ==
  /\ LeaseTypes
  /\ \A t \in tainted : Given(t) /\ (t.generation = runtime.generation => t = uncertainLease)
  /\ \A r \in Reqs : Holds(r) =>
       /\ Given(lease[r])
       /\ \A t \in tainted : t.generation < lease[r].generation
       /\ policy = "BOUND_EXISTING" => lease[r] = bound

IInv == BarrierInv /\ LeaseInv

-----------------------------------------------------------------------------
LEMMA PhasesNest ==
  /\ PastPhases \subseteq ActivePhases /\ ActivePhases \subseteq Phases
  /\ "barrier" \in ActivePhases \ PastPhases
BY DEF PastPhases, ActivePhases, Phases

LEMMA InitEstablishes == Init => IInv
<1> SUFFICES ASSUME Init PROVE IInv
  OBVIOUS
<1> USE DEF Init
<1>1. settlement = [r \in Reqs |-> "unused"]
  BY DEF Registry!Init, Registry!RegistryInit
<1>2. BarrierInv
  BY <1>1, NoneAssumption DEF BarrierInv, BarrierTypes, Phases, ActivePhases, PastPhases
<1>3. runtime \in Tracker /\ runtime.current \in {runtime.last, NoIdentity}
  BY DEF InitialTracker, Observe, Tracker
<1>4. LeaseInv
  BY <1>1, <1>3 DEF LeaseInv, LeaseTypes, AnyLease, Holds
<1> QED BY <1>2, <1>4 DEF IInv

(* One request holds a lease. *)
LEMMA OneHolder ==
  ASSUME BarrierInv, NEW q \in Reqs, NEW r \in Reqs, Holds(q), Holds(r)
  PROVE  q = r
BY NoneAssumption DEF BarrierInv, Holds, ActivePhases, PastPhases

(* A request moves, and no barrier does. *)
LEMMA MoveKeepsBarrier ==
  ASSUME BarrierInv, NEW r \in Reqs, NEW phase \in Phases \ {"barrier"},
         Enter(r, phase),
         UNCHANGED <<settlement, barrier, barrierPromise, unsettled, awaits>>,
         phase \in PastPhases => barrier = None,
         active' = IF phase \in ActivePhases THEN r
                   ELSE IF pc[r] \in ActivePhases THEN None ELSE active,
         phase \in ActivePhases => active \in {r, None}
  PROVE  BarrierInv'
<1> USE DEF BarrierInv, Enter
<1>1. pc' \in [Reqs -> Phases] /\ pc'[r] = phase /\ \A q \in Reqs \ {r} : pc'[q] = pc[q]
  BY DEF BarrierTypes
<1>2. BarrierTypes'
  BY <1>1 DEF BarrierTypes
<1>3. \A q \in Reqs : pc'[q] \in ActivePhases => active' = q
  BY <1>1, NoneAssumption
<1>4. \A q \in Reqs : pc'[q] \in PastPhases => barrier' = None
  BY <1>1
<1>5. \A q \in Reqs : pc'[q] = "barrier" =>
        awaits'[q] \in Reqs /\ barrier' \in {awaits'[q], None}
  BY <1>1
<1> QED BY <1>2, <1>3, <1>4, <1>5

(* A request reads the barrier, and waits for it or goes on. *)
LEMMA MeetKeepsBarrier ==
  ASSUME BarrierInv, NEW r \in Reqs, MeetBarrier(r), active' = r, active \in {r, None},
         UNCHANGED <<settlement, barrier, barrierPromise, unsettled>>
  PROVE  BarrierInv'
<1>1. CASE barrier = None
  <2>1. PICK phase \in {"recovering", "preparing"} : Enter(r, phase) /\ UNCHANGED awaits
    BY <1>1 DEF MeetBarrier, PassBarrier
  <2>2. phase \in Phases \ {"barrier"} /\ phase \in PastPhases /\ phase \in ActivePhases
    BY DEF Phases, PastPhases, ActivePhases
  <2> QED BY <1>1, <2>1, <2>2, MoveKeepsBarrier
<1>2. CASE barrier # None
  <2> USE <1>2 DEF MeetBarrier, Enter, BarrierInv
  <2>1. /\ pc' \in [Reqs -> Phases] /\ pc'[r] = "barrier"
        /\ \A q \in Reqs \ {r} : pc'[q] = pc[q]
    BY PhasesNest DEF BarrierTypes
  <2>2. /\ awaits' \in [Reqs -> Reqs \cup {None}] /\ awaits'[r] = barrier
        /\ \A q \in Reqs \ {r} : awaits'[q] = awaits[q]
    BY DEF BarrierTypes
  <2>3. BarrierTypes'
    BY <2>1, <2>2 DEF BarrierTypes
  <2>4. \A q \in Reqs : pc'[q] \in ActivePhases => active' = q
    BY <2>1, NoneAssumption
  <2>5. \A q \in Reqs : pc'[q] \in PastPhases => barrier' = None
    BY <2>1, PhasesNest
  <2>6. \A q \in Reqs : pc'[q] = "barrier" =>
          awaits'[q] \in Reqs /\ barrier' \in {awaits'[q], None}
    BY <2>1, <2>2 DEF BarrierTypes
  <2> QED BY <2>3, <2>4, <2>5, <2>6
<1> QED BY <1>1, <1>2

-----------------------------------------------------------------------------
(* Nobody begins to hold a lease, and nothing becomes of those there are. *)
LEMMA MoveKeepsLeases ==
  ASSUME LeaseInv, UNCHANGED <<runtime, leaseVars, boundVars>>,
         \A q \in Reqs : Holds(q)' => Holds(q)
  PROVE  LeaseInv'
BY DEF LeaseInv, LeaseTypes, Given, leaseVars, boundVars

(* A request schedules an operation: what is marked is older. *)
LEMMA CaptureKeepsLeases ==
  ASSUME LeaseInv, NEW r \in Reqs, RunScheduled(r), UNCHANGED <<runtime, boundVars>>,
         \A q \in Reqs \ {r} : Holds(q)' => Holds(q),
         policy = "BOUND_EXISTING" => CurrentLease(runtime) = bound
  PROVE  LeaseInv'
<1> DEFINE now == CurrentLease(runtime)
<1> USE DEF LeaseInv, LeaseTypes
<1>1. now \in Lease /\ now.generation = runtime.generation /\ now.identity = runtime.last
  BY DEF RunScheduled, Schedulable, Observed, CurrentLease, Lease, Tracker
<1>2. \A t \in tainted : t.generation < runtime.generation
  <2> SUFFICES ASSUME NEW t \in tainted, ~ (t.generation < runtime.generation)
               PROVE  FALSE
    OBVIOUS
  <2>1. t.generation = runtime.generation
    BY DEF Given, Lease, Tracker
  <2>2. t = now /\ t = uncertainLease
    BY <1>1, <2>1 DEF Given, Lease
  <2> QED BY <2>2 DEF RunScheduled, Schedulable
<1>3. /\ lease' \in [Reqs -> AnyLease] /\ lease'[r] = now
      /\ \A q \in Reqs \ {r} : lease'[q] = lease[q]
  BY <1>1 DEF RunScheduled, AnyLease
<1>4. LeaseTypes'
  BY <1>3 DEF RunScheduled, AnyLease
<1>5. \A t \in tainted' : Given(t)' /\ t.generation # runtime'.generation
  BY <1>2 DEF RunScheduled, Given, Lease, Tracker
<1>6. ASSUME NEW q \in Reqs, Holds(q)'
      PROVE  /\ Given(lease[q])'
             /\ \A t \in tainted' : t.generation < lease'[q].generation
             /\ policy' = "BOUND_EXISTING" => lease'[q] = bound'
  <2>1. CASE q = r
    BY <1>1, <1>2, <1>3, <2>1 DEF Given, RunScheduled, boundVars, Tracker
  <2>2. CASE q # r
    BY <1>3, <1>6, <2>2 DEF Given, RunScheduled, boundVars
  <2> QED BY <2>1, <2>2
<1> QED BY <1>4, <1>5, <1>6

(* The one that holds a lease marks it, and lets go of it. *)
LEMMA MarkKeepsLeases ==
  ASSUME LeaseInv, NEW r \in Reqs, Holds(r), MarkUncertain(lease[r]),
         UNCHANGED <<runtime, boundVars>>, \A q \in Reqs : ~ Holds(q)'
  PROVE  LeaseInv'
<1> USE DEF LeaseInv, MarkUncertain
<1>1. LeaseTypes'
  BY DEF LeaseTypes, Given, AnyLease
<1>2. ASSUME NEW t \in tainted'
      PROVE  Given(t)' /\ (t.generation = runtime'.generation => t = uncertainLease')
  <2>1. CASE t = lease[r]
    BY <2>1 DEF Given
  <2>2. CASE t \in tainted
    BY <2>2 DEF Given, Lease, LeaseTypes, Tracker
  <2> QED BY <1>2, <2>1, <2>2
<1> QED BY <1>1, <1>2

(* The tracker sees a process, or none. *)
LEMMA ObserveKeepsLeases ==
  ASSUME LeaseInv, NEW id \in Identities \cup {NoIdentity}, runtime' = Observe(runtime, id),
         UNCHANGED <<leaseVars, boundVars>>, \A q \in Reqs : Holds(q)' => Holds(q)
  PROVE  LeaseInv'
<1> USE DEF LeaseInv, leaseVars, boundVars
<1>1. /\ runtime' \in Tracker /\ runtime'.current \in {runtime'.last, NoIdentity}
      /\ runtime.generation <= runtime'.generation
      /\ runtime'.generation = runtime.generation => runtime'.last = runtime.last
  BY DEF LeaseTypes, Observe, Tracker
<1>2. \A l \in Lease : Given(l) => Given(l)'
  BY <1>1 DEF Given, Lease, LeaseTypes, Tracker
<1>3. LeaseTypes'
  BY <1>1 DEF LeaseTypes
<1>4. \A t \in tainted : t.generation = runtime'.generation =>
                           t.generation = runtime.generation
  BY <1>1 DEF Given, Lease, LeaseTypes, Tracker
<1>5. \A t \in tainted' : Given(t)' /\ (t.generation = runtime'.generation => t = uncertainLease')
  BY <1>2, <1>4 DEF Given
<1>6. \A q \in Reqs : Holds(q)' =>
        /\ Given(lease[q])'
        /\ \A t \in tainted' : t.generation < lease'[q].generation
        /\ policy' = "BOUND_EXISTING" => lease'[q] = bound'
  BY <1>2 DEF Given
<1> QED BY <1>3, <1>5, <1>6

-----------------------------------------------------------------------------
HoldingPhases == {"routing", "routed", "working", "confirming"}

LEMMA StutterKeeps ==
  ASSUME IInv, UNCHANGED <<pc, active, settlement, barrierVars, awaits, runtime, leaseVars,
                           boundVars>>
  PROVE  IInv'
<1>1. BarrierInv'
  BY DEF IInv, BarrierInv, BarrierTypes, barrierVars
<1>2. \A q \in Reqs : Holds(q)' => Holds(q)
  BY DEF Holds
<1> QED BY <1>1, <1>2, MoveKeepsLeases DEF IInv

(* A request moves, and takes no lease. *)
LEMMA MoveKeeps ==
  ASSUME IInv, NEW r \in Reqs, NEW phase \in Phases \ {"barrier"},
         Enter(r, phase),
         UNCHANGED <<settlement, barrierVars, awaits, runtime, leaseVars, boundVars>>,
         phase \in PastPhases => barrier = None,
         phase \in HoldingPhases => pc[r] \in HoldingPhases,
         active' = IF phase \in ActivePhases THEN r
                   ELSE IF pc[r] \in ActivePhases THEN None ELSE active,
         phase \in ActivePhases => active \in {r, None}
  PROVE  IInv'
<1>1. BarrierInv'
  BY MoveKeepsBarrier DEF IInv, barrierVars
<1>2. \A q \in Reqs : Holds(q)' => Holds(q)
  BY DEF Holds, Enter, HoldingPhases, IInv, BarrierInv, BarrierTypes
<1> QED BY <1>1, <1>2, MoveKeepsLeases DEF IInv

(* The active request leaves. *)
LEMMA LeaveKeeps ==
  ASSUME IInv, NEW r \in Reqs, NEW phase \in {"answered", "finishing"}, Leave(r, phase),
         pc[r] \in ActivePhases,
         UNCHANGED <<settlement, barrierVars, awaits, runtime, leaseVars, boundVars>>
  PROVE  IInv'
<1>1. phase \in Phases \ {"barrier"} /\ phase \notin ActivePhases /\ phase \notin HoldingPhases
  BY DEF Phases, ActivePhases, PastPhases, HoldingPhases
<1> QED BY <1>1, MoveKeeps, PhasesNest DEF Leave

(* A request reads the barrier, and becomes or remains the active one. *)
LEMMA MeetKeeps ==
  ASSUME IInv, NEW r \in Reqs, MeetBarrier(r), active' = r, active \in {r, None},
         UNCHANGED <<settlement, barrierVars, runtime, leaseVars, boundVars>>
  PROVE  IInv'
<1>1. BarrierInv'
  BY MeetKeepsBarrier DEF IInv, barrierVars
<1>2. \A q \in Reqs : Holds(q)' => Holds(q)
  BY DEF Holds, MeetBarrier, PassBarrier, Enter, IInv, BarrierInv, BarrierTypes
<1> QED BY <1>1, <1>2, MoveKeepsLeases DEF IInv

(* The active request schedules an operation, and takes the lease of now. *)
LEMMA CaptureKeeps ==
  ASSUME IInv, NEW r \in Reqs, NEW phase \in HoldingPhases, RunScheduled(r), Enter(r, phase),
         pc[r] \in PastPhases,
         policy = "BOUND_EXISTING" => CurrentLease(runtime) = bound,
         UNCHANGED <<settlement, barrierVars, awaits, runtime, active, boundVars>>
  PROVE  IInv'
<1> USE DEF IInv
<1>1. phase \in Phases \ {"barrier"} /\ phase \in PastPhases /\ phase \in ActivePhases
  BY DEF Phases, ActivePhases, PastPhases, HoldingPhases
<1>2. active = r /\ barrier = None
  BY PhasesNest DEF BarrierInv
<1>3. BarrierInv'
  BY <1>1, <1>2, MoveKeepsBarrier DEF barrierVars
<1>4. \A q \in Reqs \ {r} : Holds(q)' => Holds(q)
  BY DEF Holds, Enter, BarrierInv, BarrierTypes
<1> QED BY <1>3, <1>4, CaptureKeepsLeases

-----------------------------------------------------------------------------
LEMMA SubmitsKeep ==
  ASSUME IInv, NEW r \in Reqs, SubmitRefused(r) \/ Submit(r) \/ ClientGone(r)
  PROVE  IInv'
<1>1. /\ {"pending", "answered"} \cap (ActivePhases \cup HoldingPhases) = {}
      /\ {"pending", "answered"} \subseteq Phases \ {"barrier"}
      /\ {"new", "pending"} \cap ActivePhases = {}
  BY DEF ActivePhases, PastPhases, HoldingPhases, Phases
<1>2. CASE SubmitRefused(r)
  BY <1>1, <1>2, MoveKeeps, PhasesNest DEF SubmitRefused, registryVars
<1>3. CASE Submit(r)
  BY <1>1, <1>3, MoveKeeps, PhasesNest DEF Submit, registryVars
<1>4. CASE ClientGone(r)
  <2> USE <1>4 DEF ClientGone, registryVars
  <2>1. CASE pc[r] = "pending"
    BY <1>1, <2>1, MoveKeeps, PhasesNest
  <2>2. CASE pc[r] # "pending"
    BY <2>2, StutterKeeps
  <2> QED BY <2>1, <2>2
<1> QED BY <1>2, <1>3, <1>4

LEMMA StartKeeps ==
  ASSUME IInv, NEW r \in Reqs, Start(r)
  PROVE  IInv'
<1> USE DEF Start, registryVars
<1>1. pc[r] \notin ActivePhases
  BY NoneAssumption DEF IInv, BarrierInv
<1>2. CASE active' = r /\ MeetBarrier(r)
  BY <1>2, MeetKeeps
<1>3. CASE active' = r /\ Enter(r, "committing") /\ UNCHANGED awaits
  BY <1>3, MoveKeeps DEF ActivePhases, PastPhases, HoldingPhases, Phases
<1>4. CASE Enter(r, "answered") /\ UNCHANGED <<active, awaits>>
  BY <1>1, <1>4, MoveKeeps DEF ActivePhases, PastPhases, HoldingPhases, Phases
<1> QED BY <1>2, <1>3, <1>4

LEMMA CommitAwaitedKeeps ==
  ASSUME IInv, NEW r \in Reqs, CommitAwaited(r)
  PROVE  IInv'
<1> USE DEF CommitAwaited, Registry!WaitEnds, Registry!registryVars, registryVars
<1>1. pc[r] \in ActivePhases /\ active = r
  BY DEF ActivePhases, IInv, BarrierInv
<1>2. CASE waits'[r].answer = "registered"
  BY <1>1, <1>2, MeetKeeps
<1>3. CASE waits'[r].answer # "registered"
  BY <1>1, <1>3, LeaveKeeps
<1> QED BY <1>2, <1>3

(* Whoever finds its barrier settled finds no other one. *)
LEMMA BarrierEndsKeep ==
  ASSUME IInv, NEW r \in Reqs, BarrierSettled(r) \/ BarrierTimeout(r)
  PROVE  IInv'
<1> USE DEF registryVars, BarrierSettled, BarrierTimeout
<1>1. pc[r] = "barrier" /\ pc[r] \in ActivePhases /\ active = r
  BY PhasesNest DEF IInv, BarrierInv
<1>2. CASE Leave(r, "answered")
  BY <1>1, <1>2, LeaveKeeps
<1>3. CASE PassBarrier(r) /\ BarrierSettled(r) /\ UNCHANGED active
  <2>1. barrier = None
    BY <1>1, <1>3 DEF IInv, BarrierInv
  <2>2. PICK phase \in {"recovering", "preparing"} : Enter(r, phase)
    BY <1>3 DEF PassBarrier
  <2>3. /\ phase \in Phases \ {"barrier"} /\ phase \in PastPhases
        /\ phase \in ActivePhases /\ phase \notin HoldingPhases
    BY DEF Phases, PastPhases, ActivePhases, HoldingPhases
  <2> QED BY <1>1, <1>3, <2>1, <2>2, <2>3, MoveKeeps
<1> QED BY <1>2, <1>3

LEMMA OperationsKeep ==
  ASSUME IInv, NEW r \in Reqs, Prepare(r) \/ RouteDone(r) \/ BoundTurn(r)
  PROVE  IInv'
<1> USE DEF registryVars, boundVars
<1>1. /\ {"preparing", "routing", "routed"} \subseteq PastPhases
      /\ {"routing", "routed", "working"} \subseteq HoldingPhases
      /\ HoldingPhases \subseteq PastPhases /\ HoldingPhases \subseteq Phases \ {"barrier"}
  BY DEF PastPhases, HoldingPhases, Phases
<1>2. BoundIsCurrent => (policy = "BOUND_EXISTING" => CurrentLease(runtime) = bound)
  BY DEF BoundIsCurrent, LeaseIsCurrent
<1>3. CASE Prepare(r)
  <2>1. PICK phase \in {"working", "routing"} : Enter(r, phase)
    BY <1>3 DEF Prepare
  <2> QED BY <1>1, <1>2, <1>3, <2>1, CaptureKeeps DEF Prepare
<1>4. CASE BoundTurn(r)
  BY <1>1, <1>2, <1>4, CaptureKeeps DEF BoundTurn
<1>5. CASE RouteDone(r) /\ policy = "MANAGED" /\ RunScheduled(r) /\ Enter(r, "working")
  BY <1>1, <1>5, CaptureKeeps DEF RouteDone
<1>6. CASE RouteDone(r) /\ Enter(r, "routed") /\ UNCHANGED leaseVars
  <2>1. pc[r] \in PastPhases /\ pc[r] \in HoldingPhases
    BY <1>1, <1>6 DEF RouteDone
  <2>2. active = r /\ barrier = None
    BY <2>1, PhasesNest DEF IInv, BarrierInv
  <2> QED BY <1>1, <1>6, <2>1, <2>2, MoveKeeps, PhasesNest DEF RouteDone
<1> QED BY <1>3, <1>4, <1>5, <1>6 DEF RouteDone

LEMMA EndsKeep ==
  ASSUME IInv, NEW r \in Reqs, Fail(r) \/ ProjectCreated(r) \/ TurnDone(r)
  PROVE  IInv'
<1> USE DEF registryVars
<1>1. /\ pc[r] \in ActivePhases
      /\ UNCHANGED <<settlement, barrierVars, awaits, runtime, leaseVars, boundVars>>
  BY DEF Fail, ProjectCreated, TurnDone, Registry!Register, ActivePhases, PastPhases
<1>2. Leave(r, "answered") \/ Leave(r, "finishing")
  BY DEF Fail, ProjectCreated, TurnDone
<1> QED BY <1>1, <1>2, LeaveKeeps

LEMMA ProjectConfirmingKeeps ==
  ASSUME IInv, NEW r \in Reqs, ProjectConfirming(r)
  PROVE  IInv'
<1> USE DEF ProjectConfirming, registryVars
<1>1. /\ {"working", "confirming"} \subseteq PastPhases \cap HoldingPhases
      /\ "confirming" \in Phases \ {"barrier"}
  BY DEF PastPhases, HoldingPhases, Phases
<1>2. active = r /\ barrier = None
  BY <1>1, PhasesNest DEF IInv, BarrierInv
<1> QED BY <1>1, <1>2, MoveKeeps, PhasesNest

(* The mark of an operation that fails closed: nobody else holds a lease. *)
LEMMA FailClosedKeeps ==
  ASSUME IInv, NEW r \in Reqs, FailClosed(r)
  PROVE  IInv'
<1> USE DEF FailClosed, registryVars, IInv
<1>1. Holds(r) /\ pc[r] \in ActivePhases /\ pc[r] \in PastPhases
  BY DEF Holds, ActivePhases, PastPhases
<1>2. barrier = None
  BY <1>1 DEF BarrierInv
<1>3. BarrierInv'
  BY <1>1, MoveKeepsBarrier, PhasesNest DEF Leave, barrierVars, ActivePhases, PastPhases, Phases
<1>4. \A q \in Reqs : ~ Holds(q)'
  <2> SUFFICES ASSUME NEW q \in Reqs, Holds(q)' PROVE FALSE
    OBVIOUS
  <2>1. pc'[r] = "answered" /\ \A p \in Reqs \ {r} : pc'[p] = pc[p]
    BY DEF Leave, Enter, BarrierInv, BarrierTypes
  <2>2. settlement'[q] # "pending"
    BY <1>2, NoneAssumption DEF BarrierInv
  <2>3. q # r /\ Holds(q)
    BY <2>1, <2>2 DEF Holds
  <2> QED BY <1>1, <2>3, OneHolder
<1> QED BY <1>1, <1>3, <1>4, MarkKeepsLeases

(* The barrier is installed by the request that is active. *)
LEMMA ProjectTurnDoneKeeps ==
  ASSUME IInv, NEW r \in Reqs, ProjectTurnDone(r)
  PROVE  IInv'
<1> USE DEF ProjectTurnDone, IInv
<1>1. /\ pc[r] \in PastPhases /\ pc[r] \in ActivePhases /\ Holds(r)
      /\ "finishing" \in Phases \ ActivePhases
  BY DEF PastPhases, ActivePhases, Holds, Phases
<1>2. active = r /\ barrier = None
  BY <1>1 DEF BarrierInv
<1>3. settlement' = [settlement EXCEPT ![r] = "pending"]
  BY DEF Registry!ReserveProvisional
<1>4. /\ pc' = [pc EXCEPT ![r] = "finishing"] /\ active' = None
      /\ \A q \in Reqs : pc'[q] \notin ActivePhases
  <2>1. pc' = [pc EXCEPT ![r] = "finishing"] /\ active' = None
    BY DEF Leave, Enter
  <2>2. \A q \in Reqs \ {r} : pc[q] \notin ActivePhases
    BY <1>2 DEF BarrierInv
  <2> QED BY <1>1, <2>1, <2>2 DEF BarrierInv, BarrierTypes
<1>5. BarrierTypes'
  BY <1>1, <1>3, <1>4 DEF BarrierInv, BarrierTypes
<1>6. BarrierInv'
  BY <1>2, <1>3, <1>4, <1>5, PhasesNest, NoneAssumption DEF BarrierInv, BarrierTypes
<1>7. \A q \in Reqs : Holds(q)' => Holds(q)
  BY <1>1, <1>3, <1>4 DEF Holds, BarrierInv, BarrierTypes
<1> QED BY <1>6, <1>7, MoveKeepsLeases

-----------------------------------------------------------------------------
LEMMA RuntimeKeeps ==
  ASSUME IInv, NEW id \in Identities \cup {NoIdentity}, RuntimeObserved(id)
  PROVE  IInv'
<1> USE DEF RuntimeObserved, registryVars, IInv
<1>1. BarrierInv'
  BY DEF BarrierInv, BarrierTypes, barrierVars
<1>2. \A q \in Reqs : Holds(q)' => Holds(q)
  BY DEF Holds
<1> QED BY <1>1, <1>2, ObserveKeepsLeases

LEMMA RecoveryKeeps ==
  ASSUME IInv, NEW r \in Reqs, RuntimeStops(r) \/ RuntimeRestarted(r)
  PROVE  IInv'
<1> USE DEF registryVars, IInv
<1>1. PICK phase \in {"restarting", "answered"} :
        /\ Enter(r, phase)
        /\ phase = "restarting" => active' = active
        /\ phase = "answered" => active' = None
  BY DEF RuntimeStops, RuntimeRestarted, Leave
<1>2. PICK id \in Identities \cup {NoIdentity} : runtime' = Observe(runtime, id)
  BY DEF RuntimeStops, RuntimeRestarted
<1>3. pc[r] \in PastPhases /\ UNCHANGED <<settlement, barrierVars, awaits, leaseVars, boundVars>>
  BY DEF RuntimeStops, RuntimeRestarted, PastPhases
<1>4. /\ phase \in Phases \ {"barrier"} /\ phase \notin HoldingPhases
      /\ phase = "restarting" => phase \in ActivePhases
      /\ phase = "answered" => phase \notin ActivePhases /\ phase \notin PastPhases
  BY DEF Phases, ActivePhases, PastPhases, HoldingPhases
<1>5. active = r /\ barrier = None
  BY <1>3, PhasesNest DEF BarrierInv
<1>6. BarrierInv'
  BY <1>1, <1>3, <1>4, <1>5, MoveKeepsBarrier, PhasesNest DEF barrierVars
<1>7. \A q \in Reqs : Holds(q)' => Holds(q)
  BY <1>1, <1>3, <1>4 DEF Holds, HoldingPhases, Enter, BarrierInv, BarrierTypes
<1> QED BY <1>2, <1>3, <1>6, <1>7, ObserveKeepsLeases

(* A completion that was decided, or that there never was, moves nothing;  *)
(* the one that is undecided takes the only barrier with it.               *)
LEMMA SettlingKeepsBarrier ==
  ASSUME BarrierInv, NEW r \in Reqs, pc[r] = "finishing", Enter(r, "answered"),
         NEW outcome \in {"committed", "rolledBack"}, SettleBarrier(r, outcome),
         settlement' = IF settlement[r] = "pending"
                         THEN [settlement EXCEPT ![r] = outcome] ELSE settlement,
         UNCHANGED <<active, awaits>>
  PROVE  BarrierInv'
<1> USE DEF BarrierInv
<1>1. /\ pc' \in [Reqs -> Phases]
      /\ \A q \in Reqs : pc'[q] \in ActivePhases => pc'[q] = pc[q]
  BY DEF Enter, BarrierTypes, Phases, ActivePhases, PastPhases
<1>2. CASE settlement[r] = "pending"
  <2>1. /\ barrier = r /\ unsettled' = {} /\ barrier' = None
        /\ barrierPromise' = [barrierPromise EXCEPT ![r] = outcome]
    BY <1>2, NoneAssumption DEF SettleBarrier
  <2>2. BarrierTypes'
    BY <1>1, <1>2, <2>1 DEF BarrierTypes
  <2> QED BY <1>1, <1>2, <2>1, <2>2, PhasesNest, NoneAssumption DEF BarrierTypes
<1>3. CASE settlement[r] # "pending"
  <2>1. r \notin unsettled
    BY <1>3
  <2>2. UNCHANGED <<settlement, barrier, barrierPromise, unsettled>>
    BY <1>3, <2>1 DEF SettleBarrier
  <2>3. BarrierTypes'
    BY <1>1, <2>2 DEF BarrierTypes
  <2> QED BY <1>1, <2>2, <2>3, PhasesNest
<1> QED BY <1>2, <1>3

LEMMA DeliveredKeeps ==
  ASSUME IInv, NEW r \in Reqs, Delivered(r)
  PROVE  IInv'
<1> USE DEF Delivered, IInv
<1>1. settlement' = IF settlement[r] = "pending"
                      THEN [settlement EXCEPT ![r] = "committed"] ELSE settlement
  BY DEF Registry!CommitProvisional, registryVars
<1>2. BarrierInv'
  BY <1>1, SettlingKeepsBarrier
<1>3. \A q \in Reqs : Holds(q)' => Holds(q)
  BY <1>1 DEF Holds, Enter, BarrierInv, BarrierTypes
<1> QED BY <1>2, <1>3, MoveKeepsLeases

(* The late mark: its turn has returned, and still nobody holds a lease. *)
LEMMA UndeliveredKeeps ==
  ASSUME IInv, NEW r \in Reqs, Undelivered(r)
  PROVE  IInv'
<1> USE DEF Undelivered, IInv
<1>1. settlement' = IF settlement[r] = "pending"
                      THEN [settlement EXCEPT ![r] = "rolledBack"] ELSE settlement
  BY DEF Registry!RollbackProvisional, registryVars
<1>2. BarrierInv'
  BY <1>1, SettlingKeepsBarrier
<1>3. \A q \in Reqs : Holds(q)' => Holds(q)
  BY <1>1 DEF Holds, Enter, BarrierInv, BarrierTypes
<1>4. CASE settlement[r] = "pending"
  <2>1. Holds(r)
    BY <1>4 DEF Holds
  <2>2. ~ Holds(r)'
    BY <1>1, <1>4 DEF Holds, Enter, BarrierInv, BarrierTypes
  <2>3. \A q \in Reqs : ~ Holds(q)'
    BY <1>3, <2>1, <2>2, OneHolder
  <2> QED BY <1>2, <1>4, <2>1, <2>3, MarkKeepsLeases
<1>5. CASE settlement[r] # "pending"
  BY <1>2, <1>3, <1>5, MoveKeepsLeases
<1> QED BY <1>4, <1>5

LEMMA NextPreserves == IInv /\ [Next]_vars => IInv'
<1> SUFFICES ASSUME IInv, [Next]_vars PROVE IInv'
  OBVIOUS
<1>1. ASSUME NEW r \in Reqs, Advance(r) PROVE IInv'
  BY <1>1, StartKeeps, CommitAwaitedKeeps, BarrierEndsKeep, OperationsKeep, EndsKeep,
     FailClosedKeeps, ProjectConfirmingKeeps, RecoveryKeeps DEF Advance
<1>2. ASSUME NEW r \in Reqs, Progress(r) PROVE IInv'
  BY <1>1, <1>2, EndsKeep, ProjectTurnDoneKeeps DEF Progress
<1>3. CASE \E id \in Identities \cup {NoIdentity} : RuntimeObserved(id)
  BY <1>3, RuntimeKeeps
<1>4. CASE UNCHANGED vars
  BY <1>4, StutterKeeps DEF vars, registryVars
<1> QED BY <1>2, <1>3, <1>4, SubmitsKeep, DeliveredKeeps, UndeliveredKeeps DEF Next

LEMMA Inductive == Spec => []IInv
BY InitEstablishes, NextPreserves, PTL DEF Spec

-----------------------------------------------------------------------------
LEMMA IInvImplies == IInv => NoMutationUnderTaintedLease /\ PendingCompletionExcludesMutations
<1> SUFFICES ASSUME IInv
             PROVE  NoMutationUnderTaintedLease /\ PendingCompletionExcludesMutations
  OBVIOUS
<1> USE DEF IInv, Mutating
<1>1. NoMutationUnderTaintedLease
  <2> SUFFICES ASSUME NEW r \in Reqs, pc[r] \in {"routing", "working", "confirming"}
               PROVE  /\ lease[r] \notin tainted
                      /\ policy = "BOUND_EXISTING" => lease[r] = bound
    BY DEF NoMutationUnderTaintedLease
  <2>1. Holds(r)
    BY DEF Holds
  <2> QED BY <2>1 DEF LeaseInv, Given, Lease
<1>2. PendingCompletionExcludesMutations
  <2> SUFFICES ASSUME NEW r \in Reqs, settlement[r] = "pending"
               PROVE  /\ Mutating = {}
                      /\ barrier = r /\ unsettled = {r}
                      /\ \A q \in Reqs \ {r} : settlement[q] # "pending"
    BY DEF PendingCompletionExcludesMutations
  <2>1. barrier = r /\ barrier # None
    BY NoneAssumption DEF BarrierInv
  <2>2. \A q \in Reqs : pc[q] \notin PastPhases
    BY <2>1 DEF BarrierInv
  <2> QED BY <2>1, <2>2 DEF BarrierInv, PastPhases
<1> QED BY <1>1, <1>2

(* ThreadwireController.ts:229, OperationScheduler.ts:112: no route, turn  *)
(* or Project creation is in progress under a lease that was ever marked,  *)
(* by a late rollback neither, nor under another than the admitted one.    *)
THEOREM TaintedLeaseIsDead == Spec => []NoMutationUnderTaintedLease
BY Inductive, IInvImplies, PTL

(* While a completion is undecided nobody touches the page or the runtime, *)
(* and the barrier that is pending is its own.                             *)
THEOREM BarrierExcludes == Spec => []PendingCompletionExcludesMutations
BY Inductive, IInvImplies, PTL

-----------------------------------------------------------------------------
(* Only a handle is ever waited for: what a request asks for is decided    *)
(* when it is queued.                                                      *)
RequestInv ==
  /\ target \in [Reqs -> Targets \cup {None}]
  /\ pc \in [Reqs -> Phases]
  /\ \A r \in Reqs : r \in wasProvisional => target[r] \in Handles /\ pc[r] # "new"

LEMMA InitRequests == Init => RequestInv
BY DEF Init, RequestInv, Phases

(* Nothing but Submit decides it, and no request is new again. *)
LEMMA RequestsSettle ==
  ASSUME pc \in [Reqs -> Phases], NEW r \in Reqs,
         SubmitRefused(r) \/ ClientGone(r) \/ Progress(r) \/ Delivered(r) \/ Undelivered(r)
  PROVE  /\ UNCHANGED <<target, wasProvisional>>
         /\ pc' \in [Reqs -> Phases]
         /\ \A q \in Reqs : pc'[q] = "new" => pc[q] = "new"
<1>1. UNCHANGED <<target, wasProvisional>>
  BY DEF SubmitRefused, ClientGone, Delivered, Undelivered, Progress, Advance, Start, CommitAwaited,
     BarrierSettled, BarrierTimeout, Prepare, RouteDone, BoundTurn, Fail, FailClosed, TurnDone,
     ProjectTurnDone, ProjectConfirming, ProjectCreated, RuntimeStops, RuntimeRestarted, requestVars
<1>2. UNCHANGED pc \/ \E phase \in Phases \ {"new"} : Enter(r, phase)
  <2> USE DEF Leave, MeetBarrier, PassBarrier, Phases
  <2>1. CASE SubmitRefused(r) \/ ClientGone(r) \/ Delivered(r) \/ Undelivered(r)
    BY <2>1 DEF SubmitRefused, ClientGone, Delivered, Undelivered
  <2>2. CASE Start(r) \/ CommitAwaited(r) \/ BarrierSettled(r) \/ BarrierTimeout(r)
    BY <2>2 DEF Start, CommitAwaited, BarrierSettled, BarrierTimeout
  <2>3. CASE Prepare(r) \/ RouteDone(r) \/ BoundTurn(r) \/ Fail(r) \/ FailClosed(r)
    BY <2>3 DEF Prepare, RouteDone, BoundTurn, Fail, FailClosed
  <2>4. CASE TurnDone(r) \/ ProjectTurnDone(r) \/ ProjectConfirming(r) \/ ProjectCreated(r)
    BY <2>4 DEF TurnDone, ProjectTurnDone, ProjectConfirming, ProjectCreated
  <2>5. CASE RuntimeStops(r) \/ RuntimeRestarted(r)
    BY <2>5 DEF RuntimeStops, RuntimeRestarted
  <2> QED BY <2>1, <2>2, <2>3, <2>4, <2>5 DEF Progress, Advance
<1> QED BY <1>1, <1>2 DEF Enter

LEMMA NextKeepsRequests == RequestInv /\ [Next]_vars => RequestInv'
<1> SUFFICES ASSUME RequestInv, [Next]_vars PROVE RequestInv'
  OBVIOUS
<1> USE DEF RequestInv
<1>1. ASSUME NEW r \in Reqs, Submit(r) PROVE RequestInv'
  <2>1. pc[r] = "new" /\ pc' = [pc EXCEPT ![r] = "pending"] /\ "pending" \in Phases
    BY <1>1 DEF Submit, Enter, Phases
  <2>2. PICK t \in Targets :
          /\ target' = [target EXCEPT ![r] = t]
          /\ \/ wasProvisional' = wasProvisional
             \/ t \in Handles /\ wasProvisional' = wasProvisional \cup {r}
    BY <1>1 DEF Submit
  <2>3. r \notin wasProvisional
    BY <2>1
  <2> QED BY <2>1, <2>2, <2>3
<1>2. ASSUME NEW r \in Reqs,
             SubmitRefused(r) \/ ClientGone(r) \/ Progress(r) \/ Delivered(r) \/ Undelivered(r)
      PROVE  RequestInv'
  BY <1>2, RequestsSettle
<1>3. ASSUME NEW id \in Identities \cup {NoIdentity}, RuntimeObserved(id)
      PROVE  RequestInv'
  BY <1>3 DEF RuntimeObserved, requestVars
<1>4. CASE UNCHANGED vars
  BY <1>4 DEF vars, requestVars
<1> QED BY <1>1, <1>2, <1>3, <1>4 DEF Next

(* Each step of the controller is at most one call of the registry. *)
LEMMA StepsOfRegistry == RequestInv /\ [Next]_vars => [Registry!Next]_(Registry!vars)
<1> SUFFICES ASSUME RequestInv, [Next]_vars
             PROVE  Registry!Next \/ UNCHANGED <<registryVars, waits>>
  BY DEF Registry!vars, Registry!registryVars, registryVars
<1> USE DEF Registry!Next, Registry!Registrations, registryVars
<1>1. CASE UNCHANGED vars
  BY <1>1 DEF vars
<1>2. CASE \E id \in Identities \cup {NoIdentity} : RuntimeObserved(id)
  BY <1>2 DEF RuntimeObserved
<1>3. ASSUME NEW r \in Reqs, SubmitRefused(r) \/ Submit(r) \/ ClientGone(r)
      PROVE  UNCHANGED <<registryVars, waits>>
  BY <1>3 DEF SubmitRefused, Submit, ClientGone
<1>4. ASSUME NEW r \in Reqs, Start(r)
      PROVE  Registry!Next \/ UNCHANGED <<registryVars, waits>>
  <2>1. CASE r \in wasProvisional /\ Registry!WaitForCommit(r, target[r])
    BY <2>1 DEF RequestInv
  <2>2. CASE UNCHANGED waits
    BY <1>4, <2>2 DEF Start
  <2> QED BY <1>4, <2>1, <2>2 DEF Start
<1>5. ASSUME NEW r \in Reqs, CommitAwaited(r) PROVE Registry!Next
  BY <1>5 DEF CommitAwaited
<1>6. ASSUME NEW r \in Reqs, TurnDone(r) \/ ProjectTurnDone(r)
      PROVE  Registry!Next \/ UNCHANGED <<registryVars, waits>>
  BY <1>6 DEF TurnDone, ProjectTurnDone
<1>7. ASSUME NEW r \in Reqs, Delivered(r) \/ Undelivered(r)
      PROVE  Registry!Next \/ UNCHANGED <<registryVars, waits>>
  BY <1>7 DEF Delivered, Undelivered
<1>8. ASSUME NEW r \in Reqs, Advance(r)
      PROVE  Registry!Next \/ UNCHANGED <<registryVars, waits>>
  BY <1>4, <1>5, <1>8 DEF Advance, BarrierSettled, BarrierTimeout, Prepare, RouteDone, BoundTurn, Fail,
     FailClosed, ProjectConfirming, ProjectCreated, RuntimeStops, RuntimeRestarted
<1> QED BY <1>1, <1>2, <1>3, <1>6, <1>7, <1>8 DEF Next, Progress

(* The controller uses the registry as the registry's own specification    *)
(* says, so that what is proved of the registry holds of its use here.     *)
THEOREM ImplementsRegistry == Spec => Registry!Spec
<1>1. Init => Registry!Init
  BY DEF Init
<1> QED BY <1>1, InitRequests, NextKeepsRequests, StepsOfRegistry, PTL DEF Spec, Registry!Spec

(* What is proved of the registry, said of the registry the controller uses. *)
RegistryFacts == INSTANCE ThreadRegistryProofs WITH Transactions <- Reqs, Waiters <- Reqs

LEMMA FactsAreOfTheRegistry == Registry!Spec => RegistryFacts!Spec
<1>1. Registry!Init => RegistryFacts!Init
  BY DEF Registry!Init, Registry!RegistryInit, Registry!NoWait, RegistryFacts!Init,
     RegistryFacts!RegistryInit, RegistryFacts!NoWait
<1>2. Registry!vars = RegistryFacts!vars
  BY DEF Registry!vars, Registry!registryVars, RegistryFacts!vars, RegistryFacts!registryVars
<1>3. Registry!Next => RegistryFacts!Next
  <2> USE DEF Registry!registryVars, RegistryFacts!registryVars,
     Registry!HandleExists, RegistryFacts!HandleExists, Registry!HasLocator, RegistryFacts!HasLocator
  <2>1. \A l \in Locators, h \in Handles : Registry!Register(l, h) => RegistryFacts!Register(l, h)
    BY DEF Registry!Register, RegistryFacts!Register
  <2>2. \A l \in Locators, h \in Handles, t \in Reqs :
          Registry!ReserveProvisional(l, h, t) => RegistryFacts!ReserveProvisional(l, h, t)
    BY DEF Registry!ReserveProvisional, RegistryFacts!ReserveProvisional
  <2>3. \A t \in Reqs :
          /\ Registry!CommitProvisional(t) => RegistryFacts!CommitProvisional(t)
          /\ Registry!RollbackProvisional(t) => RegistryFacts!RollbackProvisional(t)
    BY DEF Registry!CommitProvisional, RegistryFacts!CommitProvisional,
       Registry!RollbackProvisional, RegistryFacts!RollbackProvisional,
       Registry!Holds, RegistryFacts!Holds
  <2>4. \A w \in Reqs, h \in Handles :
          Registry!WaitForCommit(w, h) => RegistryFacts!WaitForCommit(w, h)
    BY DEF Registry!WaitForCommit, RegistryFacts!WaitForCommit
  <2>5. \A w \in Reqs : Registry!WaitEnds(w) => RegistryFacts!WaitEnds(w)
    BY DEF Registry!WaitEnds, RegistryFacts!WaitEnds, Registry!Decides, RegistryFacts!Decides
  <2> QED BY <2>1, <2>2, <2>3, <2>4, <2>5
          DEF Registry!Next, RegistryFacts!Next, Registry!Registrations,
              RegistryFacts!Registrations
<1>4. [Registry!Next]_(Registry!vars) => [RegistryFacts!Next]_(RegistryFacts!vars)
  BY <1>2, <1>3 DEF Registry!vars, Registry!registryVars, RegistryFacts!vars,
                    RegistryFacts!registryVars
<1> QED BY <1>1, <1>4, PTL DEF Registry!Spec, RegistryFacts!Spec

LEMMA RegistryTypes == Spec => []Registry!TypeOK
<1>1. RegistryFacts!Spec => []RegistryFacts!TypeOK
  BY NoneAssumption, RegistryFacts!TypeCorrect DEF RegistryFacts!Entry
<1>2. RegistryFacts!TypeOK => Registry!TypeOK
  BY DEF RegistryFacts!TypeOK, Registry!TypeOK, RegistryFacts!Entry, Registry!Entry,
     RegistryFacts!Settlement, Registry!Settlement
<1> QED BY <1>1, <1>2, FactsAreOfTheRegistry, ImplementsRegistry, PTL

(* ThreadRegistry.ts inside the controller: whatever turns and rollbacks   *)
(* do to it, no conversation has two handles and no handle two             *)
(* conversations, and a request that waited for a provisional handle is    *)
(* told the truth about it.                                                *)
THEOREM RegistryServesTheController ==
  Spec => [](Registry!MapsAgree /\ Registry!WaitersAreToldTheTruth)
<1>1. RegistryFacts!Spec => []RegistryFacts!MapsAgree
  BY NoneAssumption, RegistryFacts!MapsStayInverse DEF RegistryFacts!Entry
<1>2. RegistryFacts!Spec => []RegistryFacts!WaitersAreToldTheTruth
  BY NoneAssumption, RegistryFacts!WaitersAreRight DEF RegistryFacts!Entry
<1>3. RegistryFacts!MapsAgree => Registry!MapsAgree
  <2>1. \A h : RegistryFacts!LocatorOf(h) = Registry!LocatorOf(h)
    BY DEF RegistryFacts!LocatorOf, Registry!LocatorOf
  <2> QED BY <2>1 DEF RegistryFacts!MapsAgree, Registry!MapsAgree, RegistryFacts!HandleExists,
                      Registry!HandleExists, RegistryFacts!HasLocator, Registry!HasLocator
<1>4. RegistryFacts!WaitersAreToldTheTruth => Registry!WaitersAreToldTheTruth
  BY DEF RegistryFacts!WaitersAreToldTheTruth, Registry!WaitersAreToldTheTruth
<1> QED BY <1>1, <1>2, <1>3, <1>4, FactsAreOfTheRegistry, ImplementsRegistry, PTL

-----------------------------------------------------------------------------
(* The queue of the controller: every way out of it gives its slot back,   *)
(* and nothing but Submit, which looks at its capacity, takes one.         *)
QueueInv ==
  /\ pending \in Seq(Reqs)
  /\ Len(pending) + (IF active = None THEN 0 ELSE 1) <= MaxOutstanding
  /\ wasProvisional \subseteq Reqs /\ aborted \subseteq Reqs
  /\ policy \in {"MANAGED", "BOUND_EXISTING"} /\ bound \in AnyLease

LEMMA InitQueue == Init => QueueInv
<1> SUFFICES ASSUME Init PROVE QueueInv
  OBVIOUS
<1>1. bound \in AnyLease
  <2>1. CASE bound = NoLease
    BY <2>1 DEF AnyLease
  <2>2. ASSUME NEW id \in Identities, runtime = Observe(InitialTracker, id),
               bound = CurrentLease(runtime)
        PROVE  bound \in Lease
    BY <2>2, NoIdentityAssumption DEF Observe, InitialTracker, CurrentLease, Lease
  <2> QED BY <2>1, <2>2 DEF Init, AnyLease
<1>2. pending = <<>> /\ active = None /\ wasProvisional = {} /\ aborted = {}
      /\ policy \in {"MANAGED", "BOUND_EXISTING"}
  BY DEF Init
<1> QED BY <1>1, <1>2, MaxOutstandingAssumption DEF QueueInv

(* The queue stands still, and its slot stays as it is or becomes free. *)
LEMMA QueueStands ==
  ASSUME QueueInv, UNCHANGED <<pending, wasProvisional, aborted, boundVars>>,
         active' \in {active, None}
  PROVE  QueueInv'
<1>1. Len(pending) \in Nat
  BY DEF QueueInv
<1> QED BY <1>1, MaxOutstandingAssumption DEF QueueInv, boundVars

LEMMA SubmitKeepsQueue ==
  ASSUME QueueInv, NEW r \in Reqs, Submit(r)
  PROVE  QueueInv'
<1> USE DEF QueueInv
<1>1. pending' \in Seq(Reqs) /\ Len(pending') = Len(pending) + 1 /\ Len(pending) \in Nat
  BY DEF Submit
<1>2. Len(pending) + (IF active = None THEN 0 ELSE 1) < MaxOutstanding /\ UNCHANGED active
  BY <1>1, MaxOutstandingAssumption DEF Submit, QueueFull
<1>3. wasProvisional' \in {wasProvisional, wasProvisional \cup {r}} /\ UNCHANGED <<aborted, boundVars>>
  BY DEF Submit
<1> QED BY <1>1, <1>2, <1>3, MaxOutstandingAssumption DEF boundVars

LEMMA ClientGoneKeepsQueue ==
  ASSUME QueueInv, NEW r \in Reqs, ClientGone(r)
  PROVE  QueueInv'
<1>1. pending \in Seq(Reqs) /\ Len(pending) \in Nat
  BY DEF QueueInv
<1>2. pending' \in Seq(Reqs) /\ Len(pending') <= Len(pending) /\ Len(pending') \in Nat
  <2>1. CASE UNCHANGED pending
    BY <1>1, <2>1
  <2>2. ASSUME NEW i \in DOMAIN pending,
               pending' = SubSeq(pending, 1, i - 1) \o SubSeq(pending, i + 1, Len(pending))
        PROVE  pending' \in Seq(Reqs) /\ Len(pending') <= Len(pending) /\ Len(pending') \in Nat
    <3> DEFINE before == SubSeq(pending, 1, i - 1)
               after == SubSeq(pending, i + 1, Len(pending))
    <3>1. i \in 1 .. Len(pending)
      BY <1>1
    <3>2. before \in Seq(Reqs) /\ Len(before) = i - 1
      BY <1>1, <3>1, SubSeqProperties
    <3>3. after \in Seq(Reqs) /\ Len(after) = Len(pending) - i
      BY <1>1, <3>1, SubSeqProperties
    <3>4. pending' = before \o after
      BY <2>2
    <3> HIDE DEF before, after
    <3> QED BY <1>1, <3>1, <3>2, <3>3, <3>4, ConcatProperties
  <2> QED BY <2>1, <2>2 DEF ClientGone
<1>3. aborted' = aborted \cup {r} /\ UNCHANGED <<active, wasProvisional, boundVars>>
  BY DEF ClientGone, requestVars
<1> QED BY <1>1, <1>2, <1>3, MaxOutstandingAssumption DEF QueueInv, boundVars

LEMMA StartKeepsQueue ==
  ASSUME QueueInv, NEW r \in Reqs, Start(r)
  PROVE  QueueInv'
<1>1. pending \in Seq(Reqs) /\ pending # <<>> /\ active = None
  BY DEF Start, QueueInv
<1>2. pending' \in Seq(Reqs) /\ Len(pending') = Len(pending) - 1 /\ Len(pending) \in Nat
  BY <1>1, HeadTailProperties DEF Start
<1>3. UNCHANGED <<wasProvisional, aborted, boundVars>>
  BY DEF Start, requestVars
<1> QED BY <1>1, <1>2, <1>3, MaxOutstandingAssumption DEF QueueInv, boundVars

LEMMA NextKeepsQueue == QueueInv /\ [Next]_vars => QueueInv'
<1> SUFFICES ASSUME QueueInv, [Next]_vars PROVE QueueInv'
  OBVIOUS
<1> USE DEF requestVars
<1>1. ASSUME NEW r \in Reqs, SubmitRefused(r) \/ Delivered(r) \/ Undelivered(r) PROVE QueueInv'
  BY <1>1, QueueStands DEF SubmitRefused, Delivered, Undelivered
<1>2. ASSUME NEW r \in Reqs, Progress(r) PROVE QueueInv'
  <2>1. CASE Start(r)
    BY <2>1, StartKeepsQueue
  <2>2. CASE CommitAwaited(r) \/ BarrierSettled(r) \/ BarrierTimeout(r)
    BY <2>2, QueueStands DEF CommitAwaited, BarrierSettled, BarrierTimeout, Leave
  <2>3. CASE Prepare(r) \/ RouteDone(r) \/ BoundTurn(r) \/ Fail(r) \/ FailClosed(r)
    BY <2>3, QueueStands DEF Prepare, RouteDone, BoundTurn, Fail, FailClosed, Leave
  <2>4. CASE TurnDone(r) \/ ProjectTurnDone(r) \/ ProjectConfirming(r) \/ ProjectCreated(r)
    BY <2>4, QueueStands
    DEF TurnDone, ProjectTurnDone, ProjectConfirming, ProjectCreated, Leave
  <2>5. CASE RuntimeStops(r) \/ RuntimeRestarted(r)
    BY <2>5, QueueStands DEF RuntimeStops, RuntimeRestarted, Leave
  <2> QED BY <1>2, <2>1, <2>2, <2>3, <2>4, <2>5 DEF Progress, Advance
<1>3. ASSUME NEW id \in Identities \cup {NoIdentity}, RuntimeObserved(id) PROVE QueueInv'
  BY <1>3, QueueStands DEF RuntimeObserved
<1>4. CASE UNCHANGED vars
  BY <1>4, QueueStands DEF vars
<1> QED BY <1>1, <1>2, <1>3, <1>4, SubmitKeepsQueue, ClientGoneKeepsQueue DEF Next

LEMMA TypesFollow == Registry!TypeOK /\ IInv /\ RequestInv /\ QueueInv => TypeOK
<1> SUFFICES ASSUME Registry!TypeOK, IInv, RequestInv, QueueInv PROVE TypeOK
  OBVIOUS
<1>1. unsettled \subseteq Reqs
  BY DEF IInv, BarrierInv
<1> QED BY <1>1 DEF TypeOK, IInv, BarrierInv, BarrierTypes, LeaseInv, LeaseTypes, RequestInv, QueueInv

(* ControllerTurnQueue.ts:36, for every capacity: the waiting requests and *)
(* the active one never exceed it, and every variable has its type.        *)
THEOREM QueueStaysBounded == Spec => []TypeOK
<1>1. Spec => []QueueInv
  BY InitQueue, NextKeepsQueue, PTL DEF Spec
<1>2. Spec => []RequestInv
  BY InitRequests, NextKeepsRequests, PTL DEF Spec
<1> QED BY <1>1, <1>2, RegistryTypes, Inductive, TypesFollow, PTL

-----------------------------------------------------------------------------
(* The server.                                                              *)

AllVars == <<vars, httpVars>>

(* What a handler knows of its turn at each of its steps. *)
Agrees(r) ==
  LET h == http[r]
      s == settlement[r]
  IN  /\ h.step \in {"new", "body"} => pc[r] = "new" /\ s = "unused"
      /\ h.step = "called" => pc[r] \notin {"new", "finishing", "answered"} /\ s = "unused"
      /\ h.step \in {"result", "ending"} => pc[r] = "finishing" /\ s \in {"unused", "pending"}
      /\ h.step = "result" => (h.completed => h.open /\ h.here)
      /\ h.step = "ending" => h.whole
      /\ h.step = "done" =>
           s \in {"unused", IF h.whole /\ h.here THEN "committed" ELSE "rolledBack"}

HttpInv ==
  /\ http \in [Reqs -> Exchange]
  /\ pc \in [Reqs -> Phases]
  /\ settlement \in [Reqs -> {"unused", "pending", "committed", "rolledBack"}]
  /\ \A r \in Reqs : Agrees(r)

-----------------------------------------------------------------------------
LEMMA HttpStepsOfController == [HttpNext]_AllVars => [Next]_vars
<1> SUFFICES ASSUME HttpNext, ~ UNCHANGED vars PROVE Next
  BY DEF AllVars
<1>1. CASE \E id \in Identities \cup {NoIdentity} : RuntimeObserved(id)
  BY <1>1 DEF Next
<1>2. ASSUME NEW r \in Reqs, HandlerNext(r) PROVE Next
  <2>1. CASE Reject(r) \/ Admit(r) \/ BodyRefused(r) \/ WriteCompleted(r)
    BY <2>1 DEF Reject, Admit, BodyRefused, WriteCompleted
  <2>2. CASE Call(r)
    BY <2>2 DEF Call, Next
  <2>3. CASE Serve(r)
    BY <2>3 DEF Serve, Next, Progress, Advance
  <2>4. CASE ClientCloses(r) \/ BufferOverflows(r)
    BY <2>4 DEF ClientCloses, BufferOverflows, AbortSignal, Next
  <2>5. CASE TurnReturns(r)
    BY <2>5 DEF TurnReturns, Next, Progress
  <2>6. CASE CompletedOverflows(r) \/ NotWritten(r) \/ Finish(r) \/ Lost(r)
    BY <2>6 DEF CompletedOverflows, NotWritten, Finish, Lost, Next
  <2> QED BY <1>2, <2>1, <2>2, <2>3, <2>4, <2>5, <2>6 DEF HandlerNext
<1> QED BY <1>1, <1>2 DEF HttpNext

(* The server does to the controller nothing that was not proved about it. *)
THEOREM ImplementsController == HttpSpec => Spec
<1>1. HttpInit => Init
  BY DEF HttpInit
<1> QED BY <1>1, HttpStepsOfController, PTL DEF HttpSpec, Spec, AllVars

-----------------------------------------------------------------------------
LEMMA InitAgrees == HttpInit => HttpInv
BY DEF HttpInit, Init, Registry!Init, Registry!RegistryInit, HttpInv, Agrees, Exchange, NewExchange,
   Steps, Phases

(* A request that is served moves alone, and decides no completion. *)
LEMMA AdvanceMoves ==
  ASSUME NEW r \in Reqs, Advance(r)
  PROVE  /\ UNCHANGED settlement
         /\ \E phase \in Phases \ {"new", "finishing"} : Enter(r, phase)
<1> USE DEF Leave, MeetBarrier, PassBarrier, Phases, registryVars
<1>1. CASE Start(r) \/ BarrierSettled(r) \/ BarrierTimeout(r)
  BY <1>1 DEF Start, BarrierSettled, BarrierTimeout
<1>2. CASE CommitAwaited(r)
  BY <1>2 DEF CommitAwaited, Registry!WaitEnds, Registry!registryVars
<1>3. CASE Prepare(r) \/ RouteDone(r) \/ BoundTurn(r) \/ Fail(r) \/ FailClosed(r)
  BY <1>3 DEF Prepare, RouteDone, BoundTurn, Fail, FailClosed
<1>4. CASE ProjectConfirming(r) \/ ProjectCreated(r) \/ RuntimeStops(r) \/ RuntimeRestarted(r)
  BY <1>4 DEF ProjectConfirming, ProjectCreated, RuntimeStops, RuntimeRestarted
<1> QED BY <1>1, <1>2, <1>3, <1>4 DEF Advance

(* One handler moves: the others find what they knew. *)
LEMMA OthersAgree ==
  ASSUME HttpInv, NEW r \in Reqs, NEW phase \in Phases, NEW exchange \in Exchange,
         NEW s \in {"unused", "pending", "committed", "rolledBack"},
         pc' = [pc EXCEPT ![r] = phase],
         http' = [http EXCEPT ![r] = exchange],
         settlement' = [settlement EXCEPT ![r] = s],
         Agrees(r)'
  PROVE  HttpInv'
BY DEF HttpInv, Agrees

LEMMA OverIsExchange ==
  /\ Over \in Exchange /\ Over.step = "done" /\ ~ Over.whole
  /\ \A e \in Exchange : [e EXCEPT !.step = "done"] \in Exchange
BY DEF Over, NewExchange, Exchange, Steps

(* Only the exchange of a request changes. *)
LEMMA ExchangeMoves ==
  ASSUME HttpInv, NEW r \in Reqs, NEW exchange \in Exchange, UNCHANGED <<pc, settlement>>,
         http' = [http EXCEPT ![r] = exchange], Agrees(r)'
  PROVE  HttpInv'
BY DEF HttpInv, Agrees

(* The controller does nothing: only the handler moves. *)
LEMMA HandlerKeeps ==
  ASSUME HttpInv, NEW r \in Reqs, UNCHANGED vars,
         Reject(r) \/ Admit(r) \/ BodyRefused(r) \/ WriteCompleted(r)
  PROVE  HttpInv'
<1> USE DEF HttpInv
<1>1. UNCHANGED <<pc, settlement>>
  BY DEF vars, registryVars
<1>2. CASE Reject(r) \/ BodyRefused(r)
  <2>1. http' = [http EXCEPT ![r] = Over] /\ settlement[r] = "unused"
    BY <1>2 DEF Reject, BodyRefused, Return, Agrees
  <2>2. Agrees(r)'
    BY <1>1, <2>1, OverIsExchange DEF Agrees
  <2>3. \A q \in Reqs \ {r} : Agrees(q)'
    BY <1>1, <2>1 DEF Agrees
  <2> QED BY <1>1, <2>1, <2>2, <2>3, OverIsExchange
<1>3. CASE Admit(r)
  <2> DEFINE e == [http[r] EXCEPT !.step = "body"]
  <2>1. http' = [http EXCEPT ![r] = e] /\ http[r].step = "new"
    BY <1>3 DEF Admit
  <2>2. e \in Exchange /\ e.step = "body"
    BY DEF Exchange, Steps
  <2> HIDE DEF e
  <2>3. Agrees(r)'
    BY <1>1, <2>1, <2>2 DEF Agrees
  <2> QED BY <1>1, <2>1, <2>2, <2>3, ExchangeMoves
<1>4. CASE WriteCompleted(r)
  <2> DEFINE e == [http[r] EXCEPT !.step = "ending", !.whole = TRUE]
  <2>1. http' = [http EXCEPT ![r] = e] /\ http[r].step = "result"
    BY <1>4 DEF WriteCompleted
  <2>2. e \in Exchange /\ e.step = "ending" /\ e.whole
    BY DEF Exchange, Steps
  <2> HIDE DEF e
  <2>3. Agrees(r)'
    BY <1>1, <2>1, <2>2 DEF Agrees
  <2> QED BY <1>1, <2>1, <2>2, <2>3, ExchangeMoves
<1> QED BY <1>2, <1>3, <1>4

(* A request is served or aborted: its turn ends without a completion. *)
LEMMA RespondKeeps ==
  ASSUME HttpInv, NEW r \in Reqs, http[r].step = "called", NEW e \in Exchange,
         e.step = "called", UNCHANGED settlement, Respond(r, e),
         UNCHANGED pc \/ \E phase \in Phases \ {"new", "finishing"} : Enter(r, phase)
  PROVE  HttpInv'
<1> USE DEF HttpInv
<1>1. settlement[r] = "unused" /\ pc[r] \notin {"new", "finishing", "answered"}
  BY DEF Agrees
<1>2. /\ pc' \in [Reqs -> Phases] /\ pc'[r] \notin {"new", "finishing"}
      /\ \A q \in Reqs \ {r} : pc'[q] = pc[q]
  BY <1>1 DEF Enter
<1>3. CASE pc'[r] = "answered"
  <2>1. http' = [http EXCEPT ![r] = Over]
    BY <1>3 DEF Respond, Return
  <2> QED BY <1>1, <1>2, <2>1, OverIsExchange DEF Agrees
<1>4. CASE pc'[r] # "answered"
  <2>1. http' = [http EXCEPT ![r] = e]
    BY <1>4 DEF Respond
  <2> QED BY <1>1, <1>2, <1>4, <2>1 DEF Agrees
<1> QED BY <1>3, <1>4

LEMMA CallKeeps ==
  ASSUME HttpInv, NEW r \in Reqs, Call(r)
  PROVE  HttpInv'
<1> USE DEF HttpInv
<1>1. settlement[r] = "unused" /\ UNCHANGED settlement
  BY DEF Call, Agrees, Submit, SubmitRefused, registryVars
<1>2. CASE Submit(r) /\ http' = [http EXCEPT ![r].step = "called"]
  <2>1. pc' = [pc EXCEPT ![r] = "pending"] /\ "pending" \in Phases
    BY <1>2 DEF Submit, Enter, Phases
  <2> QED BY <1>1, <1>2, <2>1 DEF Agrees, Exchange, Steps
<1>3. CASE SubmitRefused(r) /\ Return(r, Over)
  <2>1. pc' = [pc EXCEPT ![r] = "answered"] /\ "answered" \in Phases
    BY <1>3 DEF SubmitRefused, Enter, Phases
  <2> QED BY <1>1, <1>3, <2>1, OverIsExchange DEF Return, Agrees
<1> QED BY <1>2, <1>3 DEF Call

(* An abort is heard by a queued request only: the active one finds it. *)
LEMMA AbortMoves ==
  ASSUME NEW r \in Reqs, AbortSignal(r)
  PROVE  /\ UNCHANGED settlement
         /\ \/ UNCHANGED pc
            \/ pc[r] = "pending" /\ Enter(r, "answered")
BY DEF AbortSignal, ClientGone, vars, registryVars

LEMMA ClientKeeps ==
  ASSUME HttpInv, NEW r \in Reqs, ClientCloses(r) \/ BufferOverflows(r)
  PROVE  HttpInv'
<1> USE DEF HttpInv
<1>1. "answered" \in Phases \ {"new", "finishing"}
  BY DEF Phases
<1>2. CASE ClientCloses(r) /\ http[r].step = "called"
  <2>1. [http[r] EXCEPT !.here = FALSE] \in Exchange /\ [http[r] EXCEPT !.here = FALSE].step = "called"
    BY <1>2 DEF Exchange
  <2>2. AbortSignal(r) /\ Respond(r, [http[r] EXCEPT !.here = FALSE])
    BY <1>2 DEF ClientCloses
  <2> QED BY <1>1, <1>2, <2>1, <2>2, AbortMoves, RespondKeeps
<1>3. CASE ClientCloses(r) /\ http[r].step # "called"
  <2> DEFINE e == [http[r] EXCEPT !.here = FALSE]
  <2>1. /\ http' = [http EXCEPT ![r] = e] /\ http[r].step = "ending"
        /\ UNCHANGED <<pc, settlement>>
    BY <1>3 DEF ClientCloses, vars, registryVars
  <2>2. e \in Exchange /\ e.step = "ending" /\ e.whole
    BY <2>1 DEF Exchange, Agrees
  <2> HIDE DEF e
  <2>3. Agrees(r)'
    BY <2>1, <2>2 DEF Agrees
  <2> QED BY <2>1, <2>2, <2>3, ExchangeMoves
<1>4. CASE BufferOverflows(r)
  <2> DEFINE e == [http[r] EXCEPT !.open = FALSE]
  <2>1. /\ http' = [http EXCEPT ![r] = e] /\ http[r].step = "called"
        /\ pc[r] = "working"
    BY <1>4 DEF BufferOverflows
  <2>2. UNCHANGED <<pc, settlement>>
    BY <1>4, <2>1, AbortMoves DEF BufferOverflows
  <2>3. e \in Exchange /\ e.step = "called"
    BY <2>1 DEF Exchange
  <2> HIDE DEF e
  <2>4. Agrees(r)'
    BY <2>1, <2>2, <2>3 DEF Agrees
  <2> QED BY <2>1, <2>2, <2>3, <2>4, ExchangeMoves
<1> QED BY <1>2, <1>3, <1>4

(* A turn returns: its completion is reserved, or it never had one. *)
LEMMA TurnReturnsKeeps ==
  ASSUME HttpInv, NEW r \in Reqs, TurnReturns(r)
  PROVE  HttpInv'
<1> USE DEF HttpInv
<1>1. /\ http[r].step = "called" /\ settlement[r] = "unused"
      /\ http' = [http EXCEPT ![r].step = "result", ![r].completed = HearsCompleted(r)]
  BY DEF TurnReturns, Agrees
<1>2. pc' = [pc EXCEPT ![r] = "finishing"] /\ "finishing" \in Phases
  BY DEF TurnReturns, TurnDone, ProjectTurnDone, Leave, Enter, Phases
<1>3. PICK s \in {"unused", "pending"} : settlement' = [settlement EXCEPT ![r] = s]
  BY <1>1 DEF TurnReturns, TurnDone, ProjectTurnDone, Registry!Register, Registry!ReserveProvisional,
              registryVars
<1>4. HearsCompleted(r) \in BOOLEAN
  BY DEF HearsCompleted, Exchange
<1> DEFINE e == [http[r] EXCEPT !.step = "result", !.completed = HearsCompleted(r)]
<1>5. /\ e \in Exchange /\ e.step = "result" /\ e.completed = HearsCompleted(r)
      /\ e.open = http[r].open /\ e.here = http[r].here
  BY <1>4 DEF Exchange, Steps
<1>6. http' = [http EXCEPT ![r] = e]
  BY <1>1
<1>7. e.completed => e.open /\ e.here
  BY <1>5 DEF HearsCompleted
<1> HIDE DEF e
<1> QED BY <1>2, <1>3, <1>5, <1>6, <1>7 DEF Agrees

(* The completion of a turn is decided as its handler returns. *)
LEMMA DecisionKeeps ==
  ASSUME HttpInv, NEW r \in Reqs, pc[r] = "finishing", settlement[r] \in {"unused", "pending"},
         NEW exchange \in Exchange, exchange.step = "done",
         http' = [http EXCEPT ![r] = exchange],
         \/ exchange.whole /\ exchange.here /\ Delivered(r)
         \/ ~ (exchange.whole /\ exchange.here) /\ Undelivered(r)
  PROVE  HttpInv'
<1>1. pc' = [pc EXCEPT ![r] = "answered"] /\ "answered" \in Phases
  BY DEF Delivered, Undelivered, Enter, Phases
<1> DEFINE outcome == IF exchange.whole /\ exchange.here THEN "committed" ELSE "rolledBack"
<1>2. \/ settlement[r] = "unused" /\ UNCHANGED settlement
      \/ settlement' = [settlement EXCEPT ![r] = outcome]
  BY DEF Delivered, Undelivered, Registry!CommitProvisional, Registry!RollbackProvisional,
         registryVars, HttpInv
<1>3. PICK s \in {"unused", "committed", "rolledBack"} :
        /\ settlement' = [settlement EXCEPT ![r] = s]
        /\ s \in {"unused", outcome}
  BY <1>2 DEF HttpInv
<1>4. Agrees(r)'
  BY <1>1, <1>3 DEF Agrees, HttpInv
<1> QED BY <1>1, <1>3, <1>4, OthersAgree

LEMMA ReturnKeeps ==
  ASSUME HttpInv, NEW r \in Reqs, CompletedOverflows(r) \/ NotWritten(r) \/ Finish(r) \/ Lost(r)
  PROVE  HttpInv'
<1>1. http[r].step \in {"result", "ending"} /\ http[r] \in Exchange
  BY DEF HttpInv, CompletedOverflows, NotWritten, Finish, Lost
<1>2. pc[r] = "finishing" /\ settlement[r] \in {"unused", "pending"}
  BY <1>1 DEF HttpInv, Agrees
<1>3. CASE CompletedOverflows(r) \/ NotWritten(r)
  <2>1. http' = [http EXCEPT ![r] = Over]
    BY <1>3 DEF CompletedOverflows, NotWritten, Return
  <2>2. Undelivered(r)
    BY <1>1, <1>3 DEF CompletedOverflows, NotWritten, Writable, HttpInv, Agrees
  <2> QED BY <1>2, <2>1, <2>2, OverIsExchange, DecisionKeeps
<1>4. CASE Finish(r) \/ Lost(r)
  <2> DEFINE e == [http[r] EXCEPT !.step = "done"]
  <2>1. http' = [http EXCEPT ![r] = e] /\ http[r].step = "ending"
    BY <1>4 DEF Finish, Lost, Return
  <2>2. /\ e \in Exchange /\ e.step = "done" /\ e.whole = http[r].whole
        /\ e.here = http[r].here
    BY <1>1 DEF Exchange, Steps
  <2>3. http[r].whole
    BY <2>1 DEF HttpInv, Agrees
  <2> HIDE DEF e
  <2>4. \/ e.whole /\ e.here /\ Delivered(r)
        \/ ~ (e.whole /\ e.here) /\ Undelivered(r)
    BY <1>4, <2>2, <2>3 DEF Finish, Lost
  <2> QED BY <1>2, <2>1, <2>2, <2>4, DecisionKeeps
<1> QED BY <1>3, <1>4

LEMMA HttpNextKeeps == HttpInv /\ [HttpNext]_AllVars => HttpInv'
<1> SUFFICES ASSUME HttpInv, [HttpNext]_AllVars PROVE HttpInv'
  OBVIOUS
<1>1. CASE UNCHANGED <<http, pc, settlement>>
  BY <1>1 DEF HttpInv, Agrees
<1>2. CASE \E id \in Identities \cup {NoIdentity} : RuntimeObserved(id) /\ UNCHANGED httpVars
  BY <1>1, <1>2 DEF RuntimeObserved, httpVars, registryVars
<1>3. ASSUME NEW r \in Reqs, HandlerNext(r) PROVE HttpInv'
  <2>1. CASE Reject(r) \/ Admit(r) \/ BodyRefused(r) \/ WriteCompleted(r)
    <3>1. UNCHANGED vars
      BY <2>1 DEF Reject, Admit, BodyRefused, WriteCompleted
    <3> QED BY <2>1, <3>1, HandlerKeeps
  <2>2. CASE Call(r)
    BY <2>2, CallKeeps
  <2>3. CASE Serve(r)
    <3>1. Advance(r) /\ http[r].step = "called" /\ Respond(r, http[r])
      BY <2>3 DEF Serve, Advance
    <3>2. http[r] \in Exchange
      BY DEF HttpInv
    <3> QED BY <3>1, <3>2, AdvanceMoves, RespondKeeps
  <2>4. CASE ClientCloses(r) \/ BufferOverflows(r)
    BY <2>4, ClientKeeps
  <2>5. CASE TurnReturns(r)
    BY <2>5, TurnReturnsKeeps
  <2>6. CASE CompletedOverflows(r) \/ NotWritten(r) \/ Finish(r) \/ Lost(r)
    BY <2>6, ReturnKeeps
  <2> QED BY <1>3, <2>1, <2>2, <2>3, <2>4, <2>5, <2>6 DEF HandlerNext
<1> QED BY <1>1, <1>2, <1>3 DEF HttpNext, AllVars, httpVars, vars, registryVars

LEMMA HttpInductive == HttpSpec => []HttpInv
BY InitAgrees, HttpNextKeeps, PTL DEF HttpSpec, AllVars

LEMMA HttpInvCommits == HttpInv => CommittedMeansDelivered
<1> SUFFICES ASSUME HttpInv, NEW r \in Reqs
             PROVE  /\ settlement[r] = "committed" =>
                         http[r].step = "done" /\ http[r].whole /\ http[r].here
                    /\ http[r].step = "done" => settlement[r] \in {"unused",
                         IF http[r].whole /\ http[r].here THEN "committed" ELSE "rolledBack"}
  BY DEF CommittedMeansDelivered
<1>1. http[r].step \in Steps
  BY DEF HttpInv, Exchange
<1> QED BY <1>1 DEF HttpInv, Agrees, Steps

(* ThreadwireHttpServer.ts:643, for every number of requests and slots: a  *)
(* Project turn is committed exactly when its client took the response,    *)
(* with COMPLETED, to its end.                                             *)
THEOREM CommittedIsDelivered == HttpSpec => []CommittedMeansDelivered
BY HttpInductive, HttpInvCommits, PTL

-----------------------------------------------------------------------------
(* The slots of the server. *)

(* The handlers that run, and hold a slot. *)
Running == {r \in Reqs : http[r].step \notin {"new", "done"}}

CountInv ==
  /\ IsFiniteSet(Running)
  /\ inflight = Cardinality(Running)
  /\ inflight <= MaxInflight

LEMMA InitCount == HttpInit => CountInv
<1> SUFFICES ASSUME HttpInit PROVE CountInv
  OBVIOUS
<1>1. Running = {}
  BY DEF HttpInit, NewExchange, Running
<1> QED BY <1>1, FS_EmptySet, MaxInflightAssumption DEF HttpInit, CountInv

(* The handlers that run remain the same. *)
LEMMA RunsOn ==
  ASSUME HttpInv, CountInv, NEW r \in Reqs, NEW e, http' = [http EXCEPT ![r] = e],
         UNCHANGED inflight,
         http[r].step \in {"new", "done"} <=> e.step \in {"new", "done"}
  PROVE  CountInv'
<1>1. \A q \in Reqs : http'[q] = IF q = r THEN e ELSE http[q]
  BY DEF HttpInv
<1>2. Running' = Running
  BY <1>1 DEF Running
<1> QED BY <1>2 DEF CountInv

LEMMA CountAdmits ==
  ASSUME HttpInv, CountInv, NEW r \in Reqs, Admit(r)
  PROVE  CountInv'
<1>1. \A q \in Reqs : http'[q] = IF q = r THEN [http[q] EXCEPT !.step = "body"] ELSE http[q]
  BY DEF HttpInv, Admit
<1>2. [http[r] EXCEPT !.step = "body"].step = "body"
  BY DEF HttpInv, Exchange
<1>3. Running' = Running \cup {r} /\ r \notin Running
  BY <1>1, <1>2 DEF Running, Admit
<1>4. IsFiniteSet(Running') /\ Cardinality(Running') = Cardinality(Running) + 1
  BY <1>3, FS_AddElement DEF CountInv
<1>5. Cardinality(Running) \in Nat
  BY FS_CardinalityType DEF CountInv
<1> QED BY <1>4, <1>5, MaxInflightAssumption DEF CountInv, Admit

LEMMA CountReturns ==
  ASSUME HttpInv, CountInv, NEW r \in Reqs, NEW e, Return(r, e), e.step = "done",
         http[r].step \notin {"new", "done"}
  PROVE  CountInv'
<1>1. \A q \in Reqs : http'[q] = IF q = r THEN e ELSE http[q]
  BY DEF HttpInv, Return
<1>2. Running' = Running \ {r} /\ r \in Running
  BY <1>1 DEF Running
<1>3. IsFiniteSet(Running') /\ Cardinality(Running') = Cardinality(Running) - 1
  BY <1>2, FS_RemoveElement DEF CountInv
<1>4. Cardinality(Running) \in Nat
  BY FS_CardinalityType DEF CountInv
<1> QED BY <1>3, <1>4, MaxInflightAssumption DEF CountInv, Return

LEMMA CountResponds ==
  ASSUME HttpInv, CountInv, NEW r \in Reqs, http[r].step = "called", NEW e, e.step = "called",
         Respond(r, e)
  PROVE  CountInv'
BY RunsOn, CountReturns, OverIsExchange DEF Respond

LEMMA HandlerKeepsCount ==
  ASSUME HttpInv, CountInv, NEW r \in Reqs, HandlerNext(r)
  PROVE  CountInv'
<1>1. http[r] \in Exchange
  BY DEF HttpInv
<1>2. /\ \A step : [http[r] EXCEPT !.step = step].step = step
      /\ [http[r] EXCEPT !.here = FALSE].step = http[r].step
      /\ [http[r] EXCEPT !.open = FALSE].step = http[r].step
      /\ [http[r] EXCEPT !.step = "ending", !.whole = TRUE].step = "ending"
      /\ [http[r] EXCEPT !.step = "result", !.completed = HearsCompleted(r)].step = "result"
  BY <1>1 DEF Exchange
<1>3. CASE Reject(r)
  BY <1>3, RunsOn, OverIsExchange DEF Reject
<1>4. CASE Admit(r)
  BY <1>4, CountAdmits
<1>5. CASE BodyRefused(r)
  BY <1>5, CountReturns, OverIsExchange DEF BodyRefused
<1>6. CASE Call(r)
  <2>1. CASE http' = [http EXCEPT ![r].step = "called"] /\ UNCHANGED inflight
    <3> DEFINE e == [http[r] EXCEPT !.step = "called"]
    <3>1. e.step = "called"
      BY <1>2
    <3>2. http' = [http EXCEPT ![r] = e] /\ http[r].step = "body" /\ UNCHANGED inflight
      BY <1>6, <2>1 DEF Call
    <3> HIDE DEF e
    <3> QED BY <3>1, <3>2, RunsOn
  <2>2. CASE Return(r, Over)
    BY <1>6, <2>2, CountReturns, OverIsExchange DEF Call
  <2> QED BY <1>6, <2>1, <2>2 DEF Call
<1>7. CASE Serve(r)
  BY <1>7, CountResponds DEF Serve, Advance
<1>8. CASE ClientCloses(r)
  <2>1. CASE http[r].step = "called"
    BY <1>2, <1>8, <2>1, CountResponds DEF ClientCloses
  <2>2. CASE http[r].step = "ending"
    BY <1>2, <1>8, <2>2, RunsOn DEF ClientCloses
  <2> QED BY <1>8, <2>1, <2>2 DEF ClientCloses
<1>9. CASE BufferOverflows(r)
  BY <1>2, <1>9, RunsOn DEF BufferOverflows
<1>10. CASE TurnReturns(r)
  <2> DEFINE e == [http[r] EXCEPT !.step = "result", !.completed = HearsCompleted(r)]
  <2>1. e.step = "result"
    BY <1>2
  <2>2. http' = [http EXCEPT ![r] = e] /\ http[r].step = "called" /\ UNCHANGED inflight
    BY <1>10 DEF TurnReturns
  <2> HIDE DEF e
  <2> QED BY <2>1, <2>2, RunsOn
<1>11. CASE WriteCompleted(r)
  <2> DEFINE e == [http[r] EXCEPT !.step = "ending", !.whole = TRUE]
  <2>1. e.step = "ending"
    BY <1>2
  <2>2. http' = [http EXCEPT ![r] = e] /\ http[r].step = "result" /\ UNCHANGED inflight
    BY <1>11 DEF WriteCompleted
  <2> HIDE DEF e
  <2> QED BY <2>1, <2>2, RunsOn
<1>12. CASE CompletedOverflows(r) \/ NotWritten(r)
  BY <1>12, CountReturns, OverIsExchange DEF CompletedOverflows, NotWritten
<1>13. CASE Finish(r) \/ Lost(r)
  BY <1>2, <1>13, CountReturns DEF Finish, Lost
<1> QED BY <1>3, <1>4, <1>5, <1>6, <1>7, <1>8, <1>9, <1>10, <1>11, <1>12, <1>13 DEF HandlerNext

LEMMA HttpNextKeepsCount == HttpInv /\ CountInv /\ [HttpNext]_AllVars => CountInv'
<1> SUFFICES ASSUME HttpInv, CountInv, [HttpNext]_AllVars PROVE CountInv'
  OBVIOUS
<1>1. CASE UNCHANGED httpVars
  BY <1>1 DEF httpVars, CountInv, Running
<1> QED BY <1>1, HandlerKeepsCount DEF HttpNext, AllVars

LEMMA CountInductive == HttpSpec => []CountInv
BY InitCount, HttpNextKeepsCount, HttpInductive, PTL DEF HttpSpec, AllVars

(* ThreadwireHttpServer.ts:369, for every limit and every number of        *)
(* requests: the count of the requests in flight is that of the handlers   *)
(* that run, whatever way each leaves by, and never exceeds the limit.     *)
THEOREM EverySlotIsGivenBack == HttpSpec => []HttpTypeOK
<1>1. TypeOK /\ HttpInv /\ CountInv => HttpTypeOK
  BY DEF HttpTypeOK, HttpInv, CountInv, Running
<1> QED BY <1>1, QueueStaysBounded, ImplementsController, HttpInductive, CountInductive, PTL

(* ThreadwireController.ts:645, behind the server: whatever the clients    *)
(* do, no page work is in progress under a lease that was marked uncertain.*)
THEOREM ServedTaintedLeaseIsDead == HttpSpec => []NoMutationUnderTaintedLease
BY ImplementsController, TaintedLeaseIsDead, PTL

(* The completion barrier behind the server: while a response is on its    *)
(* way, nothing is done to the page or to the runtime.                     *)
THEOREM ServedBarrierExcludes == HttpSpec => []PendingCompletionExcludesMutations
BY ImplementsController, BarrierExcludes, PTL

=============================================================================

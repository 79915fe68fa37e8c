------------------------- MODULE ThreadwireController -------------------------
(***************************************************************************)
(* The controller (controller/ThreadwireController.ts,                     *)
(* controller/ControllerTurnQueue.ts), composed with the registry and with *)
(* the lease bookkeeping of the scheduler, under both policies.  What its  *)
(* callers do is as free here as it can be; ThreadwireHttpServer says what *)
(* they really do.                                                         *)
(*                                                                         *)
(* Requests wait in the controller's queue; one at a time is active, and   *)
(* prepares the runtime, routes the page and runs the turn, or creates a   *)
(* Project, or restarts the runtime.  The queue slot is free as soon as    *)
(* the turn returns, while the HTTP handler still waits for its client to  *)
(* take the response.  A Project turn is only completed by that delivery:  *)
(* until then its conversation is reserved, and the completion barrier     *)
(* holds back whatever is active next; a failed delivery rolls it back and *)
(* marks the lease of a turn that returned long ago.                       *)
(*                                                                         *)
(* Under BOUND_EXISTING the process that runs when the server starts is    *)
(* admitted before the server listens, and for good: a recovery is refused *)
(* and every step makes sure that this process is still there.             *)
(*                                                                         *)
(* The active request awaits each operation it schedules, so the queue of  *)
(* the scheduler holds at most that one: what remains of it here is the    *)
(* lease an operation captures and the check that the lease is usable.     *)
(***************************************************************************)
EXTENDS RuntimeGeneration, Sequences

CONSTANTS
  Reqs,                \* requests; the one that reserves a conversation names its transaction
  Handles, Locators,   \* as in ThreadRegistry
  None,
  MaxOutstanding,      \* maxOutstandingTurns
  MaxGeneration        \* bound on the number of runtimes observed

ASSUME NoneAssumption ==
  None \notin Reqs \cup Handles \cup Locators \cup [locator : Locators, transaction : Reqs]

ASSUME MaxOutstandingAssumption == MaxOutstanding \in Nat \ {0}

VARIABLES
  committed, handleOf, provisional, settlement, waits,   \* as in ThreadRegistry
  runtime,          \* the supervisor's generation tracker
  uncertainLease,   \* of the scheduler
  lease,            \* the lease of the last operation a request scheduled
  tainted,          \* history: every lease ever marked uncertain
  pending, active,  \* of the ControllerTurnQueue
  pc,               \* where each request is
  target,           \* what each request asks for
  wasProvisional,   \* requests whose handle was provisional when they were queued
  aborted,          \* requests whose client has gone
  barrier,          \* pendingCompletionBarrier, named by the request that installed it
  barrierPromise,   \* what has become of the promise of each barrier
  awaits,           \* the barrier each request captured
  unsettled,        \* pendingCompletionResults
  policy,           \* classicPolicy
  bound             \* boundRuntimeLease

registryVars == <<committed, handleOf, provisional, settlement>>
leaseVars == <<uncertainLease, lease, tainted>>
barrierVars == <<barrier, barrierPromise, unsettled>>
boundVars == <<policy, bound>>
requestVars == <<target, wasProvisional>>

vars == <<registryVars, waits, runtime, leaseVars, pending, active, pc, requestVars, aborted,
          barrierVars, awaits, boundVars>>

Registry == INSTANCE ThreadRegistry WITH Transactions <- Reqs, Waiters <- Reqs

(* FRESH, PROJECT and a handle (THREAD) are turns. *)
Targets == {"FRESH", "PROJECT", "CREATE", "RECOVER"} \cup Handles

Phases == {"new", "pending", "committing", "barrier", "preparing", "routing", "routed",
           "working", "confirming", "recovering", "restarting", "finishing", "answered"}

(* Requests that act on the page or on the runtime process. *)
Mutating == {r \in Reqs : pc[r] \in {"routing", "working", "confirming", "recovering",
                                           "restarting"}}

NoLease == [generation |-> 0, identity |-> NoIdentity]

-----------------------------------------------------------------------------
Init ==
  /\ Registry!Init
  /\ \/ policy = "MANAGED" /\ runtime = InitialTracker /\ bound = NoLease
     \/ /\ policy = "BOUND_EXISTING"
        /\ \E id \in Identities : runtime = Observe(InitialTracker, id)
        /\ bound = CurrentLease(runtime)
  /\ uncertainLease = NoLease
  /\ lease = [r \in Reqs |-> NoLease]
  /\ tainted = {}
  /\ pending = <<>>
  /\ active = None
  /\ pc = [r \in Reqs |-> "new"]
  /\ target = [r \in Reqs |-> None]
  /\ wasProvisional = {}
  /\ aborted = {}
  /\ barrier = None
  /\ barrierPromise = [r \in Reqs |-> "none"]
  /\ awaits = [r \in Reqs |-> None]
  /\ unsettled = {}

(* Mutant of Schedulable: a lease is captured when no process is seen. *)
SchedulableUnobserved(r) ==
  /\ r \notin aborted
  /\ uncertainLease # CurrentLease(runtime)

(* The checks of schedule(), and of entry.run right after it. *)
Schedulable(r) ==
  /\ r \notin aborted
  /\ Observed(runtime)
  /\ uncertainLease # CurrentLease(runtime)

(* schedule() of an operation that then runs at once. *)
RunScheduled(r) ==
  /\ Schedulable(r)
  /\ lease' = [lease EXCEPT ![r] = CurrentLease(runtime)]
  /\ uncertainLease' = NoLease
  /\ UNCHANGED tainted

MarkUncertain(l) ==
  /\ uncertainLease' = l
  /\ tainted' = tainted \cup {l}
  /\ UNCHANGED lease

Enter(r, phase) == pc' = [pc EXCEPT ![r] = phase]

(* The promise of the active request settles and its queue slot is free. *)
Leave(r, phase) == Enter(r, phase) /\ active' = None

-----------------------------------------------------------------------------
(* executeTurn(), createProject(), recoverRuntime(): a handle nobody       *)
(* registered (every caller can make one up) is refused at once, and so is *)
(* everything beyond the capacity of the queue.                            *)
QueueFull == Len(pending) + (IF active = None THEN 0 ELSE 1) >= MaxOutstanding

SubmitRefused(r) ==
  /\ pc[r] = "new"
  /\ Enter(r, "answered")
  /\ UNCHANGED <<registryVars, waits, runtime, leaseVars, pending, active, requestVars,
                 aborted, barrierVars, awaits, boundVars>>

Submit(r) ==
  /\ pc[r] = "new"
  /\ ~ QueueFull
  /\ \E t \in Targets :
       /\ t \in Handles => Registry!HandleExists(t)
       /\ target' = [target EXCEPT ![r] = t]
       /\ wasProvisional' = IF t \in Handles /\ provisional[t] # None
                              THEN wasProvisional \cup {r} ELSE wasProvisional
  /\ pending' = Append(pending, r)
  /\ Enter(r, "pending")
  /\ UNCHANGED <<registryVars, waits, runtime, leaseVars, active, aborted, barrierVars,
                 awaits, boundVars>>

(* The client goes away before its response has ended: a queued request is *)
(* taken out of the queue; an active one finds its signal aborted later.   *)
ClientGone(r) ==
  /\ pc[r] \in Phases \ {"new", "finishing", "answered"}
  /\ r \notin aborted
  /\ aborted' = aborted \cup {r}
  /\ IF pc[r] = "pending"
       THEN /\ \E i \in DOMAIN pending :
                 /\ pending[i] = r
                 /\ pending' = SubSeq(pending, 1, i - 1)
                                \o SubSeq(pending, i + 1, Len(pending))
            /\ Enter(r, "answered")
       ELSE UNCHANGED <<pending, pc>>
  /\ UNCHANGED <<registryVars, waits, runtime, leaseVars, active, requestVars, barrierVars,
                 awaits, boundVars>>

-----------------------------------------------------------------------------
(* awaitPendingCompletion() reads the barrier once; without one the        *)
(* request goes on in the same stretch.                                    *)
PassBarrier(r) ==
  Enter(r, IF target[r] = "RECOVER" THEN "recovering" ELSE "preparing")

(* Mutant of MeetBarrier: the barrier holds only a recovery back. *)
MeetBarrierUnheeded(r) ==
  IF barrier = None \/ target[r] # "RECOVER"
    THEN PassBarrier(r) /\ UNCHANGED awaits
    ELSE Enter(r, "barrier") /\ awaits' = [awaits EXCEPT ![r] = barrier]

MeetBarrier(r) ==
  IF barrier = None
    THEN PassBarrier(r) /\ UNCHANGED awaits
    ELSE Enter(r, "barrier") /\ awaits' = [awaits EXCEPT ![r] = barrier]

(* drain() starts the head of the queue. *)
Start(r) ==
  /\ active = None
  /\ pending # <<>> /\ r = Head(pending)
  /\ pending' = Tail(pending)
  /\ \/ /\ r \in wasProvisional => Registry!Resolves(target[r])
        /\ active' = r
        /\ MeetBarrier(r)
        /\ UNCHANGED waits
     \/ /\ r \in wasProvisional
        /\ Registry!WaitForCommit(r, target[r])
        /\ active' = r
        /\ Enter(r, "committing")
        /\ UNCHANGED awaits
     \/ /\ r \in wasProvisional /\ ~ Registry!HandleExists(target[r])
        /\ Enter(r, "answered")
        /\ UNCHANGED <<active, waits, awaits, boundVars>>
  /\ UNCHANGED <<registryVars, runtime, leaseVars, requestVars, aborted, barrierVars,
                 boundVars>>

(* waitForCommit() settles, or its deadline or its caller ends it. *)
CommitAwaited(r) ==
  /\ pc[r] = "committing"
  /\ Registry!WaitEnds(r)
  /\ IF waits'[r].answer = "registered"
       THEN MeetBarrier(r) /\ UNCHANGED active
       ELSE Leave(r, "answered") /\ UNCHANGED awaits
  /\ UNCHANGED <<runtime, leaseVars, pending, requestVars, aborted, barrierVars, boundVars>>

(* The barrier a request captured is settled: a rolled-back completion     *)
(* fails the request (TurnStateUncertain), and so does an abort a recovery *)
(* only notices now.                                                       *)
BarrierSettled(r) ==
  /\ pc[r] = "barrier"
  /\ barrierPromise[awaits[r]] # "pending"
  /\ IF barrierPromise[awaits[r]] = "committed" /\ (target[r] = "RECOVER" => r \notin aborted)
       THEN PassBarrier(r) /\ UNCHANGED active
       ELSE Leave(r, "answered")
  /\ UNCHANGED <<registryVars, waits, runtime, leaseVars, pending, requestVars, aborted,
                 barrierVars, awaits, boundVars>>

(* Mutant of BarrierTimeout: the request goes on when its wait times out. *)
BarrierTimeoutPasses(r) ==
  /\ pc[r] = "barrier"
  /\ PassBarrier(r)
  /\ UNCHANGED <<registryVars, waits, runtime, leaseVars, pending, active, requestVars,
                 aborted, barrierVars, awaits, boundVars>>

(* Mutant of BarrierTimeout: only its caller can end the wait. *)
BarrierAbortOnly(r) ==
  /\ pc[r] = "barrier" /\ r \in aborted
  /\ Leave(r, "answered")
  /\ UNCHANGED <<registryVars, waits, runtime, leaseVars, pending, requestVars, aborted,
                 barrierVars, awaits, boundVars>>

(* provisionalThreadWaitTimeoutMs elapses, or the caller goes away. *)
BarrierTimeout(r) ==
  /\ pc[r] = "barrier"
  /\ Leave(r, "answered")
  /\ UNCHANGED <<registryVars, waits, runtime, leaseVars, pending, requestVars, aborted,
                 barrierVars, awaits, boundVars>>

-----------------------------------------------------------------------------
(* assertBoundRuntimeCurrent(): the process that was admitted is there. *)
BoundIsCurrent == policy = "BOUND_EXISTING" => LeaseIsCurrent(runtime, bound)

(* prepareRuntime() leaves a runtime running and connected; the operation  *)
(* is scheduled in the same stretch.  A THREAD route needs its handle      *)
(* committed; a Project is created without a route.                        *)
Prepare(r) ==
  /\ pc[r] = "preparing"
  /\ BoundIsCurrent
  /\ RunScheduled(r)
  /\ target[r] \in Handles => Registry!Resolves(target[r])
  /\ Enter(r, IF target[r] = "CREATE" THEN "working" ELSE "routing")
  /\ UNCHANGED <<registryVars, waits, runtime, pending, active, requestVars, aborted,
                 barrierVars, awaits, boundVars>>

(* The ROUTE operation ends: a managed runtime is not asserted, and the    *)
(* TURN operation is scheduled in the same stretch.                        *)
RouteDone(r) ==
  /\ pc[r] = "routing"
  /\ \/ policy = "MANAGED" /\ RunScheduled(r) /\ Enter(r, "working")
     \/ policy = "BOUND_EXISTING" /\ Enter(r, "routed") /\ UNCHANGED leaseVars
  /\ UNCHANGED <<registryVars, waits, runtime, pending, active, requestVars, aborted,
                 barrierVars, awaits, boundVars>>

BoundTurn(r) ==
  /\ pc[r] = "routed"
  /\ BoundIsCurrent
  /\ RunScheduled(r)
  /\ Enter(r, "working")
  /\ UNCHANGED <<registryVars, waits, runtime, pending, active, requestVars, aborted,
                 barrierVars, awaits, boundVars>>

(* Anything the request does can fail, and nothing is uncertain after it:  *)
(* a recovery always does when the runtime is bound.                       *)
Fail(r) ==
  /\ pc[r] \in {"preparing", "routing", "routed", "working", "recovering", "restarting"}
  /\ Leave(r, "answered")
  /\ UNCHANGED <<registryVars, waits, runtime, leaseVars, pending, requestVars, aborted,
                 barrierVars, awaits, boundVars>>

(* The operation fails closed: a turn, the notice dismissal inside a fresh *)
(* route, or a Project creation whose name was typed.                      *)
FailClosed(r) ==
  /\ pc[r] \in {"routing", "working", "confirming"}
  /\ pc[r] = "working" => target[r] # "CREATE"
  /\ MarkUncertain(lease[r])
  /\ Leave(r, "answered")
  /\ UNCHANGED <<registryVars, waits, runtime, pending, requestVars, aborted, barrierVars,
                 awaits, boundVars>>

-----------------------------------------------------------------------------
(* The turn of a THREAD or FRESH request succeeds; the page of a FRESH one *)
(* is a new conversation, or one the registry knows.                       *)
TurnDone(r) ==
  /\ pc[r] = "working" /\ target[r] \in {"FRESH"} \cup Handles
  /\ LeaseIsCurrent(runtime, lease[r])
  /\ \/ /\ target[r] = "FRESH"
        /\ \E l \in Locators, h \in Handles : Registry!Register(l, h)
     \/ UNCHANGED registryVars
  /\ Leave(r, "finishing")
  /\ UNCHANGED <<waits, runtime, leaseVars, pending, requestVars, aborted, barrierVars,
                 awaits, boundVars>>

(* A Project turn succeeds with a conversation nobody knows: it is         *)
(* reserved, and the barrier installed, before anything else can run.      *)
ProjectTurnDone(r) ==
  /\ pc[r] = "working" /\ target[r] = "PROJECT"
  /\ LeaseIsCurrent(runtime, lease[r])
  /\ r \notin aborted
  /\ \E l \in Locators, h \in Handles : Registry!ReserveProvisional(l, h, r)
  /\ barrier' = r
  /\ barrierPromise' = [barrierPromise EXCEPT ![r] = "pending"]
  /\ unsettled' = unsettled \cup {r}
  /\ Leave(r, "finishing")
  /\ UNCHANGED <<waits, runtime, leaseVars, pending, requestVars, aborted, awaits,
                 boundVars>>

(* onMutationAttempted(): from here on ProjectCreator neither retries nor  *)
(* fails without a mark.  Its retries before, while the control is         *)
(* missing, leave no trace here.                                           *)
ProjectConfirming(r) ==
  /\ pc[r] = "working" /\ target[r] = "CREATE"
  /\ r \notin aborted
  /\ Enter(r, "confirming")
  /\ UNCHANGED <<registryVars, waits, runtime, leaseVars, pending, active, requestVars,
                 aborted, barrierVars, awaits, boundVars>>

ProjectCreated(r) ==
  /\ pc[r] = "confirming"
  /\ Leave(r, "answered")
  /\ UNCHANGED <<registryVars, waits, runtime, leaseVars, pending, requestVars, aborted,
                 barrierVars, awaits, boundVars>>

(* recoverRuntime() disconnects, stops the process and starts another.     *)
RuntimeStops(r) ==
  /\ pc[r] = "recovering" /\ policy = "MANAGED"
  /\ runtime' = Observe(runtime, NoIdentity)
  /\ Enter(r, "restarting")
  /\ UNCHANGED <<registryVars, waits, leaseVars, pending, active, requestVars, aborted,
                 barrierVars, awaits, boundVars>>

RuntimeRestarted(r) ==
  /\ pc[r] = "restarting"
  /\ runtime.generation < MaxGeneration
  /\ \E id \in Identities \ {runtime.last} : runtime' = Observe(runtime, id)
  /\ Leave(r, "answered")
  /\ UNCHANGED <<registryVars, waits, leaseVars, pending, requestVars, aborted, barrierVars,
                 awaits, boundVars>>

-----------------------------------------------------------------------------
(* settleCompletionBarrier(): whatever barrier is pending is settled. *)
SettleBarrier(r, outcome) ==
  IF r \in unsettled /\ barrier # None
    THEN /\ unsettled' = unsettled \ {r}
         /\ barrierPromise' = [barrierPromise EXCEPT ![barrier] = outcome]
         /\ barrier' = None
    ELSE unsettled' = unsettled \ {r} /\ UNCHANGED <<barrier, barrierPromise>>

(* finishSseResponse() reports that the whole response was taken:          *)
(* confirmTurnCompletion().                                                *)
Delivered(r) ==
  /\ pc[r] = "finishing"
  /\ IF settlement[r] = "pending"
       THEN Registry!CommitProvisional(r) ELSE UNCHANGED registryVars
  /\ SettleBarrier(r, "committed")
  /\ Enter(r, "answered")
  /\ UNCHANGED <<waits, runtime, leaseVars, pending, active, requestVars, aborted, awaits,
                 boundVars>>

(* The response was closed, failed, or its buffer overflowed:              *)
(* rollbackTurnCompletion().                                               *)
Undelivered(r) ==
  /\ pc[r] = "finishing"
  /\ IF settlement[r] = "pending"
       THEN Registry!RollbackProvisional(r) /\ MarkUncertain(lease[r])
       ELSE UNCHANGED <<registryVars, leaseVars>>
  /\ SettleBarrier(r, "rolledBack")
  /\ Enter(r, "answered")
  /\ UNCHANGED <<waits, runtime, pending, active, requestVars, aborted, awaits, boundVars>>

(* ensureStarted() of the active request, a health check or the session    *)
(* reports what process there is, at any time.                             *)
RuntimeObserved(id) ==
  /\ Observe(runtime, id).generation <= MaxGeneration
  /\ runtime' = Observe(runtime, id)
  /\ UNCHANGED <<registryVars, waits, leaseVars, pending, active, pc, requestVars, aborted,
                 barrierVars, awaits, boundVars>>

-----------------------------------------------------------------------------
(* What the active request does by itself until its operations end. *)
Advance(r) ==
  \/ Start(r) \/ CommitAwaited(r) \/ BarrierSettled(r) \/ BarrierTimeout(r)
  \/ Prepare(r) \/ RouteDone(r) \/ BoundTurn(r) \/ Fail(r) \/ FailClosed(r)
  \/ ProjectConfirming(r) \/ ProjectCreated(r) \/ RuntimeStops(r) \/ RuntimeRestarted(r)

Progress(r) == Advance(r) \/ TurnDone(r) \/ ProjectTurnDone(r)

Next ==
  \/ \E r \in Reqs : \/ Submit(r) \/ SubmitRefused(r) \/ ClientGone(r)
                     \/ Progress(r)
                     \/ Delivered(r) \/ Undelivered(r)
  \/ \E id \in Identities \cup {NoIdentity} : RuntimeObserved(id)

Spec == Init /\ [][Next]_vars

(* Everything the active request awaits is bounded by a timeout.  Nothing  *)
(* makes a client take its response.                                       *)
FairSpec == Spec /\ \A r \in Reqs : WF_vars(Progress(r))

-----------------------------------------------------------------------------
AnyLease == Lease \cup {NoLease}

(* Every variable has its type, and the queue never holds more than its     *)
(* capacity, the active request included.                                   *)
TypeOK ==
  /\ Registry!TypeOK
  /\ runtime \in Tracker
  /\ uncertainLease \in AnyLease
  /\ lease \in [Reqs -> AnyLease]
  /\ tainted \subseteq Lease
  /\ pending \in Seq(Reqs) /\ active \in Reqs \cup {None}
  /\ Len(pending) + (IF active = None THEN 0 ELSE 1) <= MaxOutstanding
  /\ pc \in [Reqs -> Phases]
  /\ target \in [Reqs -> Targets \cup {None}]
  /\ wasProvisional \subseteq Reqs /\ aborted \subseteq Reqs /\ unsettled \subseteq Reqs
  /\ barrier \in Reqs \cup {None} /\ awaits \in [Reqs -> Reqs \cup {None}]
  /\ barrierPromise \in [Reqs -> {"none", "pending", "committed", "rolledBack"}]
  /\ policy \in {"MANAGED", "BOUND_EXISTING"} /\ bound \in AnyLease

(* No route, turn or Project creation is ever in progress under a lease    *)
(* that was marked uncertain, the marks included that a rollback makes     *)
(* after its turn has returned and its queue slot was given to another;    *)
(* nor, once a process was admitted, under the lease of another one.       *)
NoMutationUnderTaintedLease ==
  \A r \in Mutating : pc[r] \in {"routing", "working", "confirming"} =>
    lease[r] \notin tainted /\ (policy = "BOUND_EXISTING" => lease[r] = bound)

(* While the completion of a Project turn is undecided, nothing is done to *)
(* the page or the runtime, no recovery either, and the pending barrier is *)
(* that turn's own, the only one: a settlement never wakes the wrong one.  *)
PendingCompletionExcludesMutations ==
  \A r \in Reqs : settlement[r] = "pending" =>
    /\ Mutating = {}
    /\ barrier = r /\ unsettled = {r}
    /\ \A q \in Reqs \ {r} : settlement[q] # "pending"

(* The promise of every queued request settles, although the client of an  *)
(* earlier one may never take its response and so never settle a barrier.  *)
EveryCallSettles ==
  \A r \in Reqs : pc[r] = "pending" ~> pc[r] \in {"finishing", "answered"}

=============================================================================

--------------------------- MODULE CdpSessionManager ---------------------------
(***************************************************************************)
(* The session with the browser (cdp/CdpSessionManager.ts,                 *)
(* cdp/BoundCdpSessionManager.ts, and of ChromeRemoteInterfaceSession.ts   *)
(* its loss, its own closing and its listeners).                           *)
(*                                                                         *)
(* connect() is called by the turn queue, one call at a time.  The close() *)
(* of the controller, the loss of a session and the abort of an operation  *)
(* come beside it, and so do operations that were given up by the command  *)
(* deadline of their turn and still await their answer.                    *)
(*                                                                         *)
(* A process that ends never comes back.  Under BOUND_EXISTING, the        *)
(* provenance guard observes the process before and after each await of    *)
(* connect(): a step of connect() waits until the guard has cleared it.    *)
(* The guard before each mutating operation can only fail it, and is part  *)
(* of OperationFails.                                                      *)
(***************************************************************************)
EXTENDS RuntimeGeneration, FiniteSets

CONSTANTS
  Sessions,   \* the transport sessions that can be attached
  Ops,        \* operations of the router and the turn executor
  None        \* no session

ASSUME NoneAssumption == None \notin Sessions

VARIABLES
  policy, admitted,             \* ClassicPolicy, immutableLease
  process, ended,               \* who serves the endpoint; history: those that have ended
  runtime,                      \* the supervisor's tracker
  state, session, boundLease,   \* currentState, session, boundLease
  open, of, notices,            \* sessions not closed; the process of each; onDisconnect microtasks
  step, cleared,                \* where connect() is; the guard has passed there
  lease, candidate,             \* locals of connect()
  closing,                      \* where close() is
  kind, pc, at, under, broken,  \* operations; broken is history: the binding has changed
  selfClosed                    \* history: the sessions that closed themselves

worldVars == <<process, ended, runtime>>
managerVars == <<state, session, boundLease>>
transportVars == <<open, of, notices>>
connectVars == <<step, cleared, lease, candidate>>
opVars == <<kind, pc, at, under>>
vars == <<policy, admitted, worldVars, managerVars, transportVars, connectVars, closing, opVars,
          broken, selfClosed>>

NoLease == [generation |-> 0, identity |-> NoIdentity]

Bound == policy = "BOUND_EXISTING"

Init ==
  /\ policy \in {"MANAGED", "BOUND_EXISTING"}
  /\ process \in Identities
  /\ ended = {}
  /\ runtime = Observe(InitialTracker, process)
  /\ admitted = IF Bound THEN CurrentLease(runtime) ELSE NoLease
  /\ state = "DISCONNECTED" /\ session = None /\ boundLease = NoLease
  /\ open = {} /\ of = [s \in Sessions |-> NoIdentity] /\ notices = {}
  /\ step = "idle" /\ cleared = FALSE /\ lease = NoLease /\ candidate = None
  /\ closing = "no"
  /\ kind = [o \in Ops |-> "none"] /\ pc = [o \in Ops |-> "new"]
  /\ at = [o \in Ops |-> None] /\ under = [o \in Ops |-> NoLease]
  /\ broken = [o \in Ops |-> FALSE] /\ selfClosed = {}

-----------------------------------------------------------------------------
(* The world: the process is replaced, or observed by an inspection.        *)

Replace(p) ==
  /\ p \in (Identities \cup {NoIdentity}) \ (ended \cup {process})
  /\ process' = p
  /\ ended' = ended \cup ({process} \ {NoIdentity})
  /\ UNCHANGED <<policy, admitted, runtime, managerVars, transportVars, connectVars, closing, opVars>>

Inspect ==
  /\ runtime' = Observe(runtime, process)
  /\ UNCHANGED <<policy, admitted, process, ended, managerVars, transportVars, connectVars, closing,
                 opVars>>

-----------------------------------------------------------------------------
(* How a session ends.                                                      *)

(* Mutant of Clear: the lease stays behind. *)
ClearSession ==
  /\ session' = None
  /\ UNCHANGED boundLease

(* The manager's session goes: its listener is removed with it. *)
Clear ==
  /\ session' = None
  /\ boundLease' = NoLease

(* disposeSession(), up to its await; currentState stays. *)
DisposeSession ==
  /\ Clear
  /\ open' = open \ {session}
  /\ UNCHANGED <<state, of, notices>>

(* The listener of onDisconnect(). *)
OnDisconnect(s) ==
  IF session = s THEN Clear /\ state' = "DISCONNECTED" ELSE UNCHANGED managerVars

(* handleDisconnect(): the transport of a session is gone; one that is      *)
(* closed, by whomever, does not tell.                                      *)
Lose(s) ==
  /\ s \in open
  /\ open' = open \ {s}
  /\ OnDisconnect(s)
  /\ UNCHANGED <<policy, admitted, worldVars, of, notices, connectVars, closing, opVars>>

(* The microtask of an onDisconnect() that found its session closed. *)
Notice(s) ==
  /\ s \in notices
  /\ notices' = notices \ {s}
  /\ OnDisconnect(s)
  /\ UNCHANGED <<policy, admitted, worldVars, open, of, connectVars, closing, opVars>>

-----------------------------------------------------------------------------
(* connect()                                                                *)

(* Where connect() of a bound manager awaits its guard before it goes on. *)
Guarded ==
  {"preparing", "discovering", "found", "attaching", "attached", "initializing", "initialized",
   "installed"}

(* The guard observes the admitted process under its own lease. *)
GuardPasses ==
  /\ Bound /\ step \in Guarded /\ ~ cleared
  /\ runtime' = Observe(runtime, process)
  /\ LeaseIsCurrent(runtime', admitted)
  /\ cleared' = TRUE
  /\ UNCHANGED <<policy, admitted, process, ended, managerVars, transportVars, step, lease,
                 candidate, closing, opVars>>

At(p) == step = p /\ (Bound /\ p \in Guarded => cleared)

GoTo(p) == step' = p /\ cleared' = FALSE

Connect ==
  /\ step = "idle"
  /\ GoTo("preparing")
  /\ UNCHANGED <<managerVars, transportVars, lease, candidate>>

(* A session bound to the current lease is kept; any other is disposed of. *)
Prepare ==
  /\ At("preparing")
  /\ Observed(runtime)
  /\ lease' = CurrentLease(runtime)
  /\ IF state = "CONNECTED" /\ boundLease = lease'
       THEN /\ GoTo(IF Bound THEN "installed" ELSE "idle")
            /\ UNCHANGED <<managerVars, transportVars>>
       ELSE /\ DisposeSession
            /\ GoTo("disposing")
  /\ UNCHANGED candidate

Disposed ==
  /\ At("disposing")
  /\ state' = "DISCOVERING"
  /\ GoTo("discovering")
  /\ UNCHANGED <<session, boundLease, transportVars, lease, candidate>>

Discover ==
  /\ At("discovering")
  /\ GoTo("found")
  /\ UNCHANGED <<managerVars, transportVars, lease, candidate>>

Found ==
  /\ At("found")
  /\ LeaseIsCurrent(runtime, lease)
  /\ state' = "ATTACHING"
  /\ GoTo("attaching")
  /\ UNCHANGED <<session, boundLease, transportVars, lease, candidate>>

(* The transport attaches to whoever serves the endpoint now.  A client that *)
(* opens after a timeout or an abort is closed by the transport itself.      *)
Attach(s) ==
  /\ At("attaching")
  /\ of[s] = NoIdentity
  /\ process # NoIdentity
  /\ open' = open \cup {s}
  /\ of' = [of EXCEPT ![s] = process]
  /\ candidate' = s
  /\ GoTo("attached")
  /\ UNCHANGED <<managerVars, notices, lease>>

Attached ==
  /\ At("attached")
  /\ LeaseIsCurrent(runtime, lease)
  /\ GoTo("initializing")
  /\ UNCHANGED <<managerVars, transportVars, lease, candidate>>

(* initializeReadinessObservation() *)
Initialize ==
  /\ At("initializing")
  /\ candidate \in open
  /\ GoTo("initialized")
  /\ UNCHANGED <<managerVars, transportVars, lease, candidate>>

InstallUnder(l) ==
  /\ At("initialized")
  /\ LeaseIsCurrent(runtime, l)
  /\ session' = candidate
  /\ boundLease' = l
  /\ state' = "CONNECTED"
  /\ candidate' = None
  /\ GoTo(IF Bound THEN "installed" ELSE "idle")
  /\ UNCHANGED <<open, of, lease>>

(* Mutant of Install: a candidate that was lost meanwhile goes unnoticed. *)
InstallSilently == InstallUnder(lease) /\ UNCHANGED notices

(* Mutant of Install: the session is bound to the lease of now. *)
InstallNow ==
  /\ InstallUnder(CurrentLease(runtime))
  /\ notices' = notices \cup ({candidate} \ open)

(* onDisconnect() of a session that was lost meanwhile queues the listener. *)
Install ==
  /\ InstallUnder(lease)
  /\ notices' = notices \cup ({candidate} \ open)

(* assertCurrentRuntime() of the manager. *)
RuntimeIsCurrent == state = "CONNECTED" /\ session # None /\ LeaseIsCurrent(runtime, boundLease)

Confirm ==
  /\ At("installed")
  /\ RuntimeIsCurrent
  /\ GoTo("idle")
  /\ UNCHANGED <<managerVars, transportVars, lease, candidate>>

(* Any await of connect(), its guard or its checks may fail, time out or be  *)
(* aborted: the candidate is closed.  A bound manager then disconnects.      *)
ConnectFails ==
  /\ step \in Guarded \cup {"disposing"}
  /\ open' = open \ {candidate}
  /\ candidate' = None
  /\ state' = IF step \in {"preparing", "installed"} THEN state ELSE "FAILED"
  /\ GoTo(IF Bound /\ (step = "preparing" => cleared) THEN "undoing" ELSE "idle")
  /\ UNCHANGED <<session, boundLease, of, notices, lease>>

Undo ==
  /\ At("undoing")
  /\ DisposeSession
  /\ GoTo("undone")
  /\ UNCHANGED <<lease, candidate>>

(* recoverRuntime() of the controller: disconnect(), a restart, connect(). *)
Recover ==
  /\ ~ Bound
  /\ At("idle")
  /\ DisposeSession
  /\ GoTo("recovering")
  /\ UNCHANGED <<lease, candidate>>

Disconnected ==
  /\ step \in {"undone", "recovering"}
  /\ state' = "DISCONNECTED"
  /\ \/ GoTo("idle")
     \/ step = "recovering" /\ GoTo("preparing")
  /\ UNCHANGED <<session, boundLease, transportVars, lease, candidate>>

LineStep ==
  /\ \/ Connect \/ Prepare \/ Disposed \/ Discover \/ Found
     \/ \E s \in Sessions : Attach(s)
     \/ Attached \/ Initialize \/ Install \/ Confirm
     \/ ConnectFails \/ Undo \/ Recover \/ Disconnected
  /\ UNCHANGED <<policy, admitted, worldVars, closing, opVars>>

-----------------------------------------------------------------------------
(* close() of the controller, beside the queue: disconnect().               *)

Close ==
  /\ closing = "no"
  /\ DisposeSession
  /\ closing' = "awaiting"
  /\ UNCHANGED <<policy, admitted, worldVars, connectVars, opVars>>

Closed ==
  /\ closing = "awaiting"
  /\ state' = "DISCONNECTED"
  /\ closing' = "done"
  /\ UNCHANGED <<policy, admitted, worldVars, session, boundLease, transportVars, connectVars, opVars>>

-----------------------------------------------------------------------------
(* Operations.                                                              *)

(* READINESS operations take the signal of their caller: snapshot, focus,   *)
(* the clicks and the Project calls.  TURN operations are the other calls   *)
(* of the executor, NAVIGATION is navigate() and reload(), and SETTLEMENT   *)
(* is navigateAndWaitForLoadSettlement().                                   *)
OpKinds == {"READINESS", "TURN", "NAVIGATION", "SETTLEMENT"}

OnAnySession(o) == kind[o] \in {"NAVIGATION", "SETTLEMENT"}

(* An operation of the scheduler carries the lease it was scheduled under. *)
Schedule(o, k) ==
  /\ pc[o] = "new"
  /\ Observed(runtime)
  /\ kind' = [kind EXCEPT ![o] = k]
  /\ under' = [under EXCEPT ![o] = CurrentLease(runtime)]
  /\ pc' = [pc EXCEPT ![o] = "scheduled"]
  /\ UNCHANGED at

(* assertSessionForLeaseCurrent() *)
SessionIsCurrent(s, l) ==
  /\ LeaseIsCurrent(runtime, l)
  /\ state = "CONNECTED" /\ session = s /\ session # None
  /\ boundLease = l

(* requireSessionForLease(); navigation takes the session as it is. *)
Begin(o) ==
  /\ pc[o] = "scheduled"
  /\ IF OnAnySession(o) THEN RuntimeIsCurrent ELSE SessionIsCurrent(session, under[o])
  /\ at' = [at EXCEPT ![o] = session]
  /\ pc' = [pc EXCEPT ![o] = "running"]
  /\ UNCHANGED <<kind, under>>

(* Mutant of Answer: a result is passed on whatever happened meanwhile. *)
AnswerUnchecked(o) ==
  /\ pc[o] = "running"
  /\ pc' = [pc EXCEPT ![o] = "done"]
  /\ UNCHANGED <<kind, at, under>>

(* The result of an operation counts only for the session it was asked of. *)
Answer(o) ==
  /\ pc[o] = "running"
  /\ ~ OnAnySession(o) => SessionIsCurrent(at[o], under[o])
  /\ kind[o] = "SETTLEMENT" => RuntimeIsCurrent
  /\ pc' = [pc EXCEPT ![o] = "done"]
  /\ UNCHANGED <<kind, at, under>>

OperationFails(o) ==
  /\ pc[o] \in {"scheduled", "running"}
  /\ pc' = [pc EXCEPT ![o] = "failed"]
  /\ UNCHANGED <<kind, at, under>>

Operate(o) ==
  /\ \/ \E k \in OpKinds : Schedule(o, k)
     \/ Begin(o) \/ Answer(o) \/ OperationFails(o)
  /\ UNCHANGED <<policy, admitted, worldVars, managerVars, transportVars, connectVars, closing>>

(* Mutant of Invalidate: the session is not compared. *)
InvalidateAny(s) ==
  /\ Clear /\ state' = "DISCONNECTED"
  /\ open' = open \ {s}

(* invalidateSessionAfterInFlightAbort(s) *)
Invalidate(s) ==
  IF session = s
    THEN Clear /\ state' = "DISCONNECTED" /\ open' = open \ {s}
    ELSE UNCHANGED <<managerVars, open>>

(* The caller's signal fires while the answer is awaited. *)
Abort(o) ==
  /\ pc[o] = "running" /\ kind[o] = "READINESS"
  /\ Invalidate(at[o])
  /\ pc' = [pc EXCEPT ![o] = "failed"]
  /\ UNCHANGED <<policy, admitted, worldVars, of, notices, connectVars, closing, kind, at, under>>

(* releaseProjectComposerObjects(): a session that cannot release what it   *)
(* held closes itself, and the operation fails.  Its listeners go first, so *)
(* the manager keeps it.  An abort before the error leads where Abort does. *)
CloseItself(o) ==
  /\ pc[o] = "running" /\ kind[o] = "READINESS"
  /\ at[o] \in open
  /\ open' = open \ {at[o]}
  /\ selfClosed' = selfClosed \cup {at[o]}
  /\ pc' = [pc EXCEPT ![o] = "failed"]
  /\ UNCHANGED <<policy, admitted, worldVars, managerVars, of, notices, connectVars, closing, kind,
                 at, under>>

-----------------------------------------------------------------------------

(* History: the session or the runtime generation changes under an operation. *)
NoteBroken ==
  broken' = [o \in Ops |->
    \/ broken[o]
    \/ /\ pc[o] = "running"
       /\ session' # at[o] \/ runtime'.generation # under[o].generation]

Step ==
  \/ \E p \in Identities \cup {NoIdentity} : Replace(p)
  \/ Inspect
  \/ GuardPasses
  \/ LineStep
  \/ Close \/ Closed
  \/ \E s \in Sessions : Lose(s) \/ Notice(s)
  \/ \E o \in Ops : Operate(o) \/ Abort(o)

Next ==
  /\ \/ Step /\ UNCHANGED selfClosed
     \/ \E o \in Ops : CloseItself(o)
  /\ NoteBroken

Spec == Init /\ [][Next]_vars

-----------------------------------------------------------------------------
(* Properties.                                                              *)

(* Every variable has its type, and the manager has a lease exactly when it *)
(* has a session.                                                           *)
TypeOK ==
  /\ policy \in {"MANAGED", "BOUND_EXISTING"}
  /\ admitted \in Lease \cup {NoLease}
  /\ process \in Identities \cup {NoIdentity}
  /\ ended \in SUBSET Identities
  /\ runtime \in Tracker
  /\ state \in {"DISCONNECTED", "DISCOVERING", "ATTACHING", "CONNECTED", "FAILED"}
  /\ session \in Sessions \cup {None}
  /\ boundLease \in Lease \cup {NoLease}
  /\ session = None <=> boundLease = NoLease
  /\ open \in SUBSET Sessions /\ notices \in SUBSET Sessions
  /\ of \in [Sessions -> Identities \cup {NoIdentity}]
  /\ step \in Guarded \cup {"idle", "disposing", "undoing", "undone", "recovering"}
  /\ cleared \in BOOLEAN
  /\ lease \in Lease \cup {NoLease}
  /\ candidate \in Sessions \cup {None}
  /\ closing \in {"no", "awaiting", "done"}
  /\ kind \in [Ops -> OpKinds \cup {"none"}]
  /\ pc \in [Ops -> {"new", "scheduled", "running", "done", "failed"}]
  /\ at \in [Ops -> Sessions \cup {None}]
  /\ under \in [Ops -> Lease \cup {NoLease}]
  /\ broken \in [Ops -> BOOLEAN] /\ selfClosed \in SUBSET Sessions

(* Whatever the order of reconnects, failures, losses, closes and aborts,   *)
(* an open session is the manager's or the candidate of the connect() in    *)
(* progress: none is forgotten, and a late abort never drops a newer one.   *)
NoOrphans == open \subseteq {session, candidate}

(* The manager is told of every loss of the session it keeps, of one lost   *)
(* as a candidate before it was installed included, unless the session      *)
(* closed itself: that one it keeps, and connect() with it.                 *)
LossIsNoticed ==
  session # None /\ session \notin open => session \in notices \cup selfClosed

(* A session is never bound to the lease of another living process, and     *)
(* under BOUND_EXISTING only ever attached to the admitted one, whenever    *)
(* the process was replaced while connect() was under way.                  *)
SessionIsOfItsLease ==
  session # None =>
    /\ of[session] # boundLease.identity => boundLease.identity \in ended
    /\ Bound => of[session] = admitted.identity /\ boundLease = admitted

(* An operation of a turn that reports success ran from its beginning to    *)
(* its end on one session and in one runtime generation.                    *)
OneBinding == \A o \in Ops : pc[o] = "done" /\ ~ OnAnySession(o) => ~ broken[o]

=============================================================================

-------------------------- MODULE OperationScheduler --------------------------
(***************************************************************************)
(* The mutation scheduler (routing/OperationScheduler.ts).                 *)
(*                                                                         *)
(* Every operation that mutates the WebContents is scheduled here.  It     *)
(* captures the runtime lease when it is scheduled, waits in a FIFO queue, *)
(* and is checked again when the drain loop reaches it.  An operation that *)
(* ends without knowing what it did to the page marks its lease uncertain; *)
(* nothing may run under that lease again.                                 *)
(*                                                                         *)
(* JavaScript runs a function up to its next await without interruption,   *)
(* so each action below is one such stretch.                               *)
(***************************************************************************)
EXTENDS RuntimeGeneration, Sequences, FiniteSets

CONSTANTS
  Ops,             \* the calls of schedule(), each made at most once
  NoLease,         \* the `null` value of uncertainLease
  MaxGeneration    \* bound on the number of runtimes observed

ASSUME NoLeaseAssumption == NoLease \notin Lease

VARIABLES
  runtime,         \* the supervisor's generation tracker
  queue,           \* scheduled operations the drain loop has not reached
  running,         \* the drain loop is active
  uncertainLease,
  status,          \* what has become of each call of schedule()
  lease,           \* the lease captured by each scheduled operation
  aborted,         \* calls whose AbortSignal has fired
  tainted          \* history: every lease ever marked uncertain

vars == <<runtime, queue, running, uncertainLease, status, lease, aborted, tainted>>

Status == {"idle", "queued", "running", "resolved", "rejected"}

Settled == {"resolved", "rejected"}

Running == {o \in Ops : status[o] = "running"}

-----------------------------------------------------------------------------
Init ==
  /\ runtime = InitialTracker
  /\ queue = <<>>
  /\ running = FALSE
  /\ uncertainLease = NoLease
  /\ status = [o \in Ops |-> "idle"]
  /\ lease = [o \in Ops |-> NoLease]
  /\ aborted = {}
  /\ tainted = {}

(* Mutant of MutationStateSafe: the mark is looked at only while the drain  *)
(* loop rests, so an operation queued before the mark still runs after it.  *)
SafeWhenScheduled(l) == running \/ uncertainLease # l

(* assertMutationStateSafeForLease(): the uncertain lease itself is refused, *)
(* any other current lease clears the mark.                                  *)
MutationStateSafe(l) == uncertainLease # l

(* The checks entry.run makes before it calls the operation. *)
Runnable(o, l) ==
  /\ o \notin aborted
  /\ LeaseIsCurrent(runtime, l)
  /\ MutationStateSafe(l)

(* schedule() rejects at once: aborted, no runtime observed, or uncertain. *)
ScheduleRefused(o) ==
  /\ status[o] = "idle"
  /\ ~ Runnable(o, CurrentLease(runtime))
  /\ status' = [status EXCEPT ![o] = "rejected"]
  /\ UNCHANGED <<runtime, queue, running, uncertainLease, lease, aborted, tainted>>

(* schedule() with no drain loop active: drain() shifts the entry and calls *)
(* the operation before schedule() returns.                                 *)
ScheduleAndRun(o) ==
  /\ status[o] = "idle"
  /\ ~ running
  /\ Runnable(o, CurrentLease(runtime))
  /\ lease' = [lease EXCEPT ![o] = CurrentLease(runtime)]
  /\ uncertainLease' = NoLease
  /\ running' = TRUE
  /\ status' = [status EXCEPT ![o] = "running"]
  /\ UNCHANGED <<runtime, queue, aborted, tainted>>

(* schedule() behind an active drain loop. *)
ScheduleBehind(o) ==
  /\ status[o] = "idle"
  /\ running
  /\ Runnable(o, CurrentLease(runtime))
  /\ lease' = [lease EXCEPT ![o] = CurrentLease(runtime)]
  /\ uncertainLease' = NoLease
  /\ queue' = Append(queue, o)
  /\ status' = [status EXCEPT ![o] = "queued"]
  /\ UNCHANGED <<runtime, running, aborted, tainted>>

-----------------------------------------------------------------------------
(* The drain loop resumes once the operation it awaited has settled.  It   *)
(* skips entries settled while queued, in the same stretch.                *)
Unsettled == {i \in DOMAIN queue : status[queue[i]] \notin Settled}

NextLive(i) == i \in Unsettled /\ \A j \in Unsettled : i <= j

(* Mutant of Resumable: the drain loop does not await the operation. *)
ResumableAtOnce == running

Resumable == running /\ Running = {}

DrainRun ==
  /\ Resumable
  /\ \E i \in DOMAIN queue :
       /\ NextLive(i)
       /\ Runnable(queue[i], lease[queue[i]])
       /\ status' = [status EXCEPT ![queue[i]] = "running"]
       /\ queue' = SubSeq(queue, i + 1, Len(queue))
  /\ uncertainLease' = NoLease
  /\ UNCHANGED <<runtime, running, lease, aborted, tainted>>

(* entry.run rejects before the operation is called.  Only a current lease *)
(* that is not uncertain gets far enough to clear the mark.                *)
DrainReject ==
  /\ Resumable
  /\ \E i \in DOMAIN queue :
       /\ NextLive(i)
       /\ ~ Runnable(queue[i], lease[queue[i]])
       /\ status' = [status EXCEPT ![queue[i]] = "rejected"]
       /\ queue' = SubSeq(queue, i + 1, Len(queue))
  /\ UNCHANGED <<runtime, running, uncertainLease, lease, aborted, tainted>>

(* Mutant of DrainStop: the loop ends with the operation it awaited. *)
DrainStopEarly ==
  /\ Resumable
  /\ running' = FALSE
  /\ UNCHANGED <<runtime, queue, uncertainLease, status, lease, aborted, tainted>>

DrainStop ==
  /\ Resumable
  /\ Unsettled = {}
  /\ queue' = <<>>
  /\ running' = FALSE
  /\ UNCHANGED <<runtime, uncertainLease, status, lease, aborted, tainted>>

Drain == DrainRun \/ DrainReject \/ DrainStop

-----------------------------------------------------------------------------
(* The operation returns or throws, knowing what it did. *)
Settle(o) ==
  /\ status[o] = "running"
  /\ \E s \in Settled : status' = [status EXCEPT ![o] = s]
  /\ UNCHANGED <<runtime, queue, running, uncertainLease, lease, aborted, tainted>>

(* The operation calls markRuntimeMutationStateUncertain with its own lease *)
(* and throws: TurnExecutor.failClosed, ProjectCreator, notice dismissal.   *)
FailClosed(o) ==
  /\ status[o] = "running"
  /\ uncertainLease' = lease[o]
  /\ tainted' = tainted \cup {lease[o]}
  /\ status' = [status EXCEPT ![o] = "rejected"]
  /\ UNCHANGED <<runtime, queue, running, lease, aborted>>

(* Mutant of Abort: onQueuedAbort does not look at entry.settled. *)
AbortAnswersAgain(o) ==
  /\ o \notin aborted
  /\ aborted' = aborted \cup {o}
  /\ status' = IF status[o] \in {"queued"} \cup Settled
                  THEN [status EXCEPT ![o] = "rejected"] ELSE status
  /\ UNCHANGED <<runtime, queue, running, uncertainLease, lease, tainted>>

(* onQueuedAbort settles an entry that has not started; it stays queued.  A *)
(* running operation only finds its signal aborted.                         *)
Abort(o) ==
  /\ o \notin aborted
  /\ aborted' = aborted \cup {o}
  /\ status' = IF status[o] = "queued" THEN [status EXCEPT ![o] = "rejected"] ELSE status
  /\ UNCHANGED <<runtime, queue, running, uncertainLease, lease, tainted>>

(* Some inspection of the process list reports to the tracker. *)
RuntimeObserved(id) ==
  /\ Observe(runtime, id).generation <= MaxGeneration
  /\ runtime' = Observe(runtime, id)
  /\ UNCHANGED <<queue, running, uncertainLease, status, lease, aborted, tainted>>

Next ==
  \/ \E o \in Ops : ScheduleRefused(o) \/ ScheduleAndRun(o) \/ ScheduleBehind(o)
  \/ Drain
  \/ \E o \in Ops : Settle(o) \/ FailClosed(o) \/ Abort(o)
  \/ \E id \in Identities \cup {NoIdentity} : RuntimeObserved(id)

Spec == Init /\ [][Next]_vars

(* The event loop runs ready continuations, and every operation handed to  *)
(* the scheduler is bounded by its own timeouts, so it settles.            *)
Fairness ==
  /\ WF_vars(Drain)
  /\ \A o \in Ops : WF_vars(Settle(o) \/ FailClosed(o))

FairSpec == Spec /\ Fairness

-----------------------------------------------------------------------------
(* Every variable has its type: a lease that is held or marked has been      *)
(* observed.                                                                *)
TypeOK ==
  /\ runtime \in Tracker
  /\ queue \in Seq(Ops)
  /\ running \in BOOLEAN
  /\ uncertainLease \in Lease \cup {NoLease}
  /\ status \in [Ops -> Status]
  /\ lease \in [Ops -> Lease \cup {NoLease}]
  /\ aborted \subseteq Ops
  /\ tainted \subseteq Lease

(* Mutating operations never overlap, whatever is scheduled, aborted or    *)
(* drained meanwhile (README: mutations are serialized).                   *)
NoOverlap == \A o, p \in Running : o = p

(* No operation runs under a lease that was ever marked uncertain, although *)
(* the scheduler remembers a single lease and forgets it when the runtime   *)
(* changes, and although operations queue up before the mark is made.       *)
NoRunUnderTaintedLease == \A o \in Running : lease[o] \notin tainted

(* A call that was rejected (aborted while queued, say) is never run later, *)
(* and no call is answered twice.                                           *)
SettledIsFinal ==
  [][\A o \in Ops : status[o] \in Settled => status'[o] = status[o]]_vars

(* No scheduled operation is forgotten by the drain loop: each is answered. *)
EveryOperationSettles ==
  \A o \in Ops : status[o] = "queued" ~> status[o] \in Settled

=============================================================================

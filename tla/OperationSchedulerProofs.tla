----------------------- MODULE OperationSchedulerProofs -----------------------
(***************************************************************************)
(* Proofs about the mutation scheduler, for every set of operations, every *)
(* set of runtime identities and every number of generations.              *)
(*                                                                         *)
(* The scheduler remembers one uncertain lease and forgets it as soon as a *)
(* different lease is current.  That is enough because generations only    *)
(* grow: a tainted lease is either older than every lease that is current  *)
(* from now on, or it belongs to the present generation and is the very    *)
(* lease the scheduler still remembers.  IInv says so.                     *)
(***************************************************************************)
EXTENDS OperationScheduler, TLAPS

(* The current identity is the last one seen; no generation without one. *)
TrackerInv ==
  /\ runtime.current \in {NoIdentity, runtime.last}
  /\ runtime.generation = 0 <=> runtime.last = NoIdentity

(* A lease somebody may still compare with the current one was captured in *)
(* an earlier generation, or in this one from the identity seen last.      *)
Captured(l) ==
  /\ l \in Lease
  /\ l.generation <= runtime.generation
  /\ l.generation = runtime.generation => l.identity = runtime.last

DrainInv ==
  /\ NoOverlap
  /\ Running # {} => running

LeaseInv == \A o \in Running : Captured(lease[o])

TaintInv ==
  \A l \in tainted :
    /\ Captured(l)
    /\ l.generation = runtime.generation => uncertainLease = l

RunInv ==
  \A o \in Running : \A l \in tainted : l.generation < lease[o].generation

IInv ==
  /\ TypeOK
  /\ TrackerInv
  /\ DrainInv
  /\ LeaseInv
  /\ TaintInv
  /\ RunInv

-----------------------------------------------------------------------------
(* observe() keeps the generation of the identity seen last and gives any  *)
(* other identity a later one (RuntimeGenerationTracker.observe).          *)
LEMMA ObserveGrows ==
  ASSUME NEW t \in Tracker, NEW id \in Identities \cup {NoIdentity}
  PROVE  /\ Observe(t, id) \in Tracker
         /\ t.generation <= Observe(t, id).generation
         /\ t.generation = Observe(t, id).generation => Observe(t, id).last = t.last
<1>1. CASE id = NoIdentity
  BY <1>1 DEF Observe, Tracker
<1>2. CASE id # NoIdentity
  BY <1>2 DEF Observe, Tracker
<1> QED BY <1>1, <1>2

(* Every operation the checks of entry.run let through carries a lease     *)
(* later than every lease marked uncertain so far.                         *)
LEMMA RunnableIsFresh ==
  ASSUME TypeOK, TrackerInv, TaintInv,
         NEW o \in Ops, NEW l, Runnable(o, l)
  PROVE  /\ l \in Lease
         /\ Captured(l)
         /\ \A t \in tainted : t.generation < l.generation
<1>1. /\ runtime \in Tracker
      /\ runtime.current # NoIdentity
      /\ l = [generation |-> runtime.generation, identity |-> runtime.current]
      /\ uncertainLease # l
  BY DEF Runnable, LeaseIsCurrent, Observed, CurrentLease, MutationStateSafe, TypeOK
<1>2. runtime.current = runtime.last /\ runtime.current \in Identities
  BY <1>1 DEF TrackerInv, Tracker
<1>3. runtime.generation \in Nat
  BY <1>1 DEF Tracker
<1>4. l \in Lease /\ Captured(l)
  BY <1>1, <1>2, <1>3 DEF Lease, Captured
<1>5. ASSUME NEW t \in tainted
      PROVE  t.generation < l.generation
  <2>1. /\ t \in Lease
        /\ t.generation <= runtime.generation
        /\ t.generation = runtime.generation =>
             t.identity = runtime.last /\ uncertainLease = t
    BY <1>5 DEF TaintInv, Captured
  <2>2. t = [generation |-> t.generation, identity |-> t.identity]
    BY <2>1 DEF Lease
  <2>3. t.generation # runtime.generation
    BY <2>1, <2>2, <1>1, <1>2
  <2> QED BY <2>1, <2>3, <1>1, <1>3 DEF Lease
<1> QED BY <1>4, <1>5

-----------------------------------------------------------------------------
LEMMA InitEstablishes == Init => IInv
<1> SUFFICES ASSUME Init PROVE IInv
  OBVIOUS
<1> USE DEF Init
<1>1. queue \in Seq(Ops) /\ runtime \in Tracker
  BY DEF InitialTracker, Tracker
<1>2. TypeOK /\ Running = {}
  BY <1>1 DEF TypeOK, Status, Running
<1>3. TrackerInv
  BY DEF TrackerInv, InitialTracker
<1>4. DrainInv /\ LeaseInv /\ TaintInv /\ RunInv
  BY <1>2 DEF DrainInv, NoOverlap, LeaseInv, TaintInv, RunInv
<1> QED BY <1>2, <1>3, <1>4 DEF IInv

LEMMA NextPreserves == IInv /\ [Next]_vars => IInv'
<1> SUFFICES ASSUME IInv, [Next]_vars PROVE IInv'
  OBVIOUS
<1> USE DEF IInv
<1>1. ASSUME NEW o \in Ops, ScheduleRefused(o)
      PROVE  IInv'
  <2> USE <1>1 DEF ScheduleRefused
  <2>1. TypeOK'
    BY DEF TypeOK, Status
  <2>2. Running' = Running
    BY DEF Running, TypeOK
  <2>3. TrackerInv' /\ DrainInv' /\ LeaseInv' /\ TaintInv' /\ RunInv'
    BY <2>2 DEF TrackerInv, DrainInv, NoOverlap, LeaseInv, TaintInv, RunInv, Captured
  <2> QED BY <2>1, <2>3
<1>2. ASSUME NEW o \in Ops, ScheduleAndRun(o)
      PROVE  IInv'
  <2> USE <1>2 DEF ScheduleAndRun
  <2>1. /\ CurrentLease(runtime) \in Lease
        /\ Captured(CurrentLease(runtime))
        /\ \A t \in tainted : t.generation < CurrentLease(runtime).generation
    BY RunnableIsFresh
  <2>2. TypeOK'
    BY <2>1 DEF TypeOK, Status
  <2>3. Running' = {o} /\ lease'[o] = CurrentLease(runtime)
    BY DEF Running, TypeOK, DrainInv
  <2>4. TrackerInv' /\ DrainInv'
    BY <2>3 DEF TrackerInv, DrainInv, NoOverlap
  <2>5. LeaseInv'
    BY <2>1, <2>3 DEF LeaseInv, Captured
  <2>6. TaintInv'
    BY <2>1 DEF TaintInv, Captured, CurrentLease, TypeOK, Tracker, Lease
  <2>7. RunInv'
    BY <2>1, <2>3 DEF RunInv
  <2> QED BY <2>2, <2>4, <2>5, <2>6, <2>7
<1>3. ASSUME NEW o \in Ops, ScheduleBehind(o)
      PROVE  IInv'
  <2> USE <1>3 DEF ScheduleBehind
  <2>1. /\ CurrentLease(runtime) \in Lease
        /\ \A t \in tainted : t.generation < CurrentLease(runtime).generation
    BY RunnableIsFresh
  <2>2. TypeOK'
    BY <2>1 DEF TypeOK, Status
  <2>3. /\ Running' = Running
        /\ \A p \in Running : lease'[p] = lease[p]
    BY DEF Running, TypeOK
  <2>4. TrackerInv' /\ DrainInv' /\ LeaseInv' /\ RunInv'
    BY <2>3 DEF TrackerInv, DrainInv, NoOverlap, LeaseInv, RunInv, Captured
  <2>5. TaintInv'
    BY <2>1 DEF TaintInv, Captured, CurrentLease, TypeOK, Tracker, Lease
  <2> QED BY <2>2, <2>4, <2>5
<1>4. CASE DrainRun
  <2>1. PICK i \in DOMAIN queue :
          /\ NextLive(i)
          /\ Runnable(queue[i], lease[queue[i]])
          /\ status' = [status EXCEPT ![queue[i]] = "running"]
          /\ queue' = SubSeq(queue, i + 1, Len(queue))
    BY <1>4 DEF DrainRun
  <2>2. queue[i] \in Ops /\ queue' \in Seq(Ops)
    BY <2>1 DEF TypeOK
  <2> DEFINE o == queue[i]
  <2>3. /\ lease[o] \in Lease
        /\ Captured(lease[o])
        /\ \A t \in tainted : t.generation < lease[o].generation
    BY <2>1, <2>2, RunnableIsFresh
  <2> USE <1>4, <2>1, <2>2 DEF DrainRun, Resumable
  <2> HIDE DEF o
  <2>4. TypeOK'
    BY DEF TypeOK, Status
  <2>5. Running' = {o}
    BY DEF Running, TypeOK, o
  <2>6. TrackerInv' /\ DrainInv' /\ LeaseInv' /\ RunInv'
    BY <2>3, <2>5 DEF TrackerInv, DrainInv, NoOverlap, LeaseInv, RunInv, Captured
  <2>7. TaintInv'
    <3> SUFFICES ASSUME NEW t \in tainted
                 PROVE  Captured(t) /\ t.generation # runtime.generation
      BY DEF TaintInv, Captured
    <3>1. t.generation < lease[o].generation /\ lease[o].generation <= runtime.generation
      BY <2>3 DEF Captured
    <3>2. Captured(t) /\ t \in Lease
      BY DEF TaintInv, Captured
    <3> QED BY <3>1, <3>2, <2>3 DEF Lease, TypeOK, Tracker
  <2> QED BY <2>4, <2>6, <2>7
<1>5. CASE DrainReject
  <2>1. PICK i \in DOMAIN queue :
          /\ status' = [status EXCEPT ![queue[i]] = "rejected"]
          /\ queue' = SubSeq(queue, i + 1, Len(queue))
    BY <1>5 DEF DrainReject
  <2>2. queue[i] \in Ops /\ queue' \in Seq(Ops)
    BY <2>1 DEF TypeOK
  <2> USE <1>5, <2>1, <2>2 DEF DrainReject, Resumable
  <2>3. TypeOK'
    BY DEF TypeOK, Status
  <2>4. Running' = {}
    BY DEF Running, TypeOK
  <2>5. TrackerInv' /\ DrainInv' /\ LeaseInv' /\ TaintInv' /\ RunInv'
    BY <2>4 DEF TrackerInv, DrainInv, NoOverlap, LeaseInv, TaintInv, RunInv, Captured
  <2> QED BY <2>3, <2>5
<1>6. CASE DrainStop
  <2> USE <1>6 DEF DrainStop, Resumable
  <2>0. queue' \in Seq(Ops)
    OBVIOUS
  <2>1. TypeOK' /\ Running' = {}
    BY <2>0 DEF TypeOK, Running
  <2>2. TrackerInv' /\ DrainInv' /\ LeaseInv' /\ TaintInv' /\ RunInv'
    BY <2>1 DEF TrackerInv, DrainInv, NoOverlap, LeaseInv, TaintInv, RunInv, Captured
  <2> QED BY <2>1, <2>2
<1>7. ASSUME NEW o \in Ops, Settle(o)
      PROVE  IInv'
  <2> USE <1>7 DEF Settle, Settled
  <2>1. TypeOK' /\ Running' \subseteq Running
    BY DEF TypeOK, Status, Running
  <2>2. TrackerInv' /\ DrainInv' /\ LeaseInv' /\ TaintInv' /\ RunInv'
    BY <2>1 DEF TrackerInv, DrainInv, NoOverlap, LeaseInv, TaintInv, RunInv, Captured
  <2> QED BY <2>1, <2>2
<1>8. ASSUME NEW o \in Ops, FailClosed(o)
      PROVE  IInv'
  <2> USE <1>8 DEF FailClosed
  <2>1. o \in Running
    BY DEF Running
  <2>2. lease[o] \in Lease /\ Captured(lease[o])
    BY <2>1 DEF LeaseInv, Captured
  <2>3. TypeOK'
    BY <2>2 DEF TypeOK, Status
  <2>4. Running' = {}
    BY <2>1 DEF Running, DrainInv, NoOverlap, TypeOK
  <2>5. TrackerInv' /\ DrainInv' /\ LeaseInv' /\ RunInv'
    BY <2>4 DEF TrackerInv, DrainInv, NoOverlap, LeaseInv, RunInv
  <2>6. TaintInv'
    <3> SUFFICES ASSUME NEW t \in tainted \cup {lease[o]}
                 PROVE  /\ Captured(t)
                        /\ t.generation = runtime.generation => t = lease[o]
      BY DEF TaintInv, Captured
    <3>1. CASE t = lease[o]
      BY <3>1, <2>2
    <3>2. CASE t \in tainted
      <4>1. t.generation < lease[o].generation /\ Captured(t)
        BY <3>2, <2>1 DEF RunInv, TaintInv
      <4> QED BY <4>1, <2>2 DEF Captured, Lease, TypeOK, Tracker
    <3> QED BY <3>1, <3>2
  <2> QED BY <2>3, <2>5, <2>6
<1>9. ASSUME NEW o \in Ops, Abort(o)
      PROVE  IInv'
  <2> USE <1>9 DEF Abort
  <2>1. TypeOK' /\ Running' = Running
    BY DEF TypeOK, Status, Running
  <2>2. TrackerInv' /\ DrainInv' /\ LeaseInv' /\ TaintInv' /\ RunInv'
    BY <2>1 DEF TrackerInv, DrainInv, NoOverlap, LeaseInv, TaintInv, RunInv, Captured
  <2> QED BY <2>1, <2>2
<1>10. ASSUME NEW id \in Identities \cup {NoIdentity}, RuntimeObserved(id)
       PROVE  IInv'
  <2> USE <1>10 DEF RuntimeObserved
  <2>1. /\ runtime' \in Tracker
        /\ runtime.generation <= runtime'.generation
        /\ runtime.generation = runtime'.generation => runtime'.last = runtime.last
    BY ObserveGrows DEF TypeOK
  <2>2. TypeOK' /\ Running' = Running
    BY <2>1 DEF TypeOK, Running
  <2>3. TrackerInv'
    <3>1. CASE id = NoIdentity
      BY <3>1 DEF TrackerInv, Observe, TypeOK, Tracker
    <3>2. CASE id # NoIdentity
      BY <3>2, NoIdentityAssumption DEF TrackerInv, Observe, TypeOK, Tracker
    <3> QED BY <3>1, <3>2
  <2>4. \A l : Captured(l) => Captured(l)'
    BY <2>1 DEF Captured, Lease, TypeOK, Tracker
  <2>5. DrainInv' /\ LeaseInv' /\ RunInv'
    BY <2>2, <2>4 DEF DrainInv, NoOverlap, LeaseInv, RunInv
  <2>6. TaintInv'
    <3> SUFFICES ASSUME NEW t \in tainted, t.generation = runtime'.generation
                 PROVE  uncertainLease = t
      BY <2>4 DEF TaintInv
    <3>1. t \in Lease /\ t.generation <= runtime.generation
      BY DEF TaintInv, Captured
    <3>2. t.generation = runtime.generation
      BY <3>1, <2>1 DEF Lease, TypeOK, Tracker
    <3> QED BY <3>2 DEF TaintInv
  <2> QED BY <2>2, <2>3, <2>5, <2>6
<1>11. CASE UNCHANGED vars
  BY <1>11 DEF vars, TypeOK, TrackerInv, DrainInv, NoOverlap, LeaseInv, TaintInv, RunInv,
     Captured, Running
<1> QED
  BY <1>1, <1>2, <1>3, <1>4, <1>5, <1>6, <1>7, <1>8, <1>9, <1>10, <1>11 DEF Next, Drain

LEMMA Inductive == Spec => []IInv
BY InitEstablishes, NextPreserves, PTL DEF Spec

-----------------------------------------------------------------------------
(* The scheduler's state has its type, uncertainLease included: it is only *)
(* ever the lease of an operation that ran (markRuntimeMutationState...).  *)
THEOREM TypeCorrect == Spec => []TypeOK
<1>1. IInv => TypeOK
  BY DEF IInv
<1> QED BY <1>1, Inductive, PTL

(* schedule() and drain() never let two mutating operations overlap. *)
THEOREM MutualExclusion == Spec => []NoOverlap
<1>1. IInv => NoOverlap
  BY DEF IInv, DrainInv
<1> QED BY <1>1, Inductive, PTL

(* No operation runs under a lease marked uncertain, for any number of     *)
(* operations and generations, although one lease only is remembered.      *)
THEOREM TaintedLeaseIsDead == Spec => []NoRunUnderTaintedLease
<1>1. IInv => NoRunUnderTaintedLease
  <2> SUFFICES ASSUME IInv, NEW o \in Running, lease[o] \in tainted
               PROVE  FALSE
    BY DEF NoRunUnderTaintedLease
  <2>1. lease[o].generation < lease[o].generation /\ lease[o] \in Lease
    BY DEF IInv, RunInv, LeaseInv, Captured
  <2> QED BY <2>1 DEF Lease
<1> QED BY <1>1, Inductive, PTL

(* A call of schedule() is answered once: a queued call its caller aborted *)
(* is not run when the drain loop reaches it.                              *)
THEOREM AnswersAreFinal == Spec => SettledIsFinal
<1>1. IInv /\ [Next]_vars => [\A o \in Ops : status[o] \in Settled => status'[o] = status[o]]_vars
  <2> SUFFICES ASSUME IInv, Next, NEW o \in Ops, status[o] \in Settled
               PROVE  status'[o] = status[o]
    OBVIOUS
  <2> USE DEF IInv, TypeOK, Settled
  <2>1. CASE \E p \in Ops : ScheduleRefused(p) \/ ScheduleAndRun(p) \/ ScheduleBehind(p)
    BY <2>1 DEF ScheduleRefused, ScheduleAndRun, ScheduleBehind
  <2>2. CASE DrainRun \/ DrainReject
    <3>1. PICK i \in DOMAIN queue :
            /\ NextLive(i)
            /\ \E s \in Status : status' = [status EXCEPT ![queue[i]] = s]
      BY <2>2 DEF DrainRun, DrainReject, Status
    <3> QED BY <3>1 DEF NextLive, Unsettled
  <2>3. CASE DrainStop
    BY <2>3 DEF DrainStop
  <2>4. CASE \E p \in Ops : Settle(p) \/ FailClosed(p) \/ Abort(p)
    BY <2>4 DEF Settle, FailClosed, Abort
  <2>5. CASE \E id \in Identities \cup {NoIdentity} : RuntimeObserved(id)
    BY <2>5 DEF RuntimeObserved
  <2> QED BY <2>1, <2>2, <2>3, <2>4, <2>5 DEF Next, Drain
<1> QED BY <1>1, Inductive, PTL DEF Spec, SettledIsFinal

=============================================================================

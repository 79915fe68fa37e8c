----------------------- MODULE CdpSessionManagerProofs -----------------------
(***************************************************************************)
(* Proofs about the session manager, for every number of sessions,         *)
(* processes and operations, and for both policies.                        *)
(*                                                                         *)
(* While connect() is on its way to a new session there is no installed    *)
(* one (SessionInv): what is open is then the candidate.  What connect()   *)
(* has read of the runtime is never newer than the tracker (LeaseInv), and *)
(* a process that has ended does not come back: that is why a guard that   *)
(* passes after the fact clears what was attached and captured before it.  *)
(* An operation whose binding has changed never finds it again (OpInv).    *)
(***************************************************************************)
EXTENDS CdpSessionManager, TLAPS

WithCandidate == {"attached", "initializing", "initialized"}

(* connect() on its way to a new session. *)
Connecting == {"disposing", "discovering", "found", "attaching"} \cup WithCandidate

SessionInv ==
  /\ NoOrphans
  /\ LossIsNoticed
  /\ step \in Connecting => session = None
  /\ candidate # None <=> step \in WithCandidate
  /\ \A s \in {session, candidate} : s # None => of[s] # NoIdentity
  /\ \A s \in notices : s \notin open /\ of[s] # NoIdentity

(* A lease the tracker has given out, of a process there is or was. *)
Given(l) ==
  /\ l \in Lease
  /\ l.generation <= runtime.generation
  /\ l.generation = runtime.generation => l.identity = runtime.last
  /\ l.identity \in ended \cup {process}

(* The session s serves under the lease l, or the process of l has ended. *)
Serves(s, l) == of[s] # l.identity => l.identity \in ended

LeaseInv ==
  /\ runtime.current \in {runtime.last, NoIdentity}
  /\ runtime.last \in ended \cup {process, NoIdentity}
  /\ process \notin ended
  /\ Bound => Given(admitted)
  /\ step \in Connecting =>
       /\ Given(lease)
       /\ Bound => lease = admitted \/ admitted.generation < lease.generation
       /\ Bound /\ cleared => lease = admitted
  /\ step \in WithCandidate =>
       /\ Serves(candidate, lease)
       /\ Bound /\ cleared => of[candidate] = admitted.identity
  /\ SessionIsOfItsLease

(* The binding o began with is there still, if it is not broken; and never *)
(* again, if it is.                                                        *)
OpInv(o) ==
  /\ pc[o] \in {"new", "scheduled"} => ~ broken[o]
  /\ pc[o] \in {"scheduled", "running"} => under[o].generation <= runtime.generation
  /\ pc[o] = "running" => at[o] \in Sessions /\ of[at[o]] # NoIdentity
  /\ pc[o] = "running" /\ ~ OnAnySession(o) =>
       IF broken[o]
         THEN at[o] \notin {session, candidate} \/ under[o].generation < runtime.generation
         ELSE session = at[o] /\ under[o].generation = runtime.generation
  /\ pc[o] = "done" /\ ~ OnAnySession(o) => ~ broken[o]

IInv == TypeOK /\ SessionInv /\ LeaseInv /\ \A o \in Ops : OpInv(o)

(* What connect(), the sessions and the tracker have in common. *)
StateInv == TypeOK /\ SessionInv /\ LeaseInv

-----------------------------------------------------------------------------
LEMMA InitEstablishes == Init => IInv
<1> SUFFICES ASSUME Init PROVE IInv
  OBVIOUS
<1> USE NoIdentityAssumption DEF Init
<1>1. /\ runtime \in Tracker /\ runtime.current = process /\ runtime.last = process
      /\ CurrentLease(runtime) \in Lease
  BY DEF InitialTracker, Observe, Tracker, CurrentLease, Lease
<1>2. TypeOK
  BY <1>1 DEF TypeOK, Guarded, OpKinds
<1>3. SessionInv
  BY DEF SessionInv, NoOrphans, LossIsNoticed, Connecting, WithCandidate
<1>4. LeaseInv
  <2>1. Given(CurrentLease(runtime))
    BY <1>1 DEF Given, CurrentLease, Tracker
  <2>2. step \notin Connecting /\ step \notin WithCandidate
    BY DEF Connecting, WithCandidate
  <2>3. process \notin ended
    OBVIOUS
  <2> QED BY <1>1, <2>1, <2>2, <2>3 DEF LeaseInv, SessionIsOfItsLease
<1>5. \A o \in Ops : OpInv(o)
  BY DEF OpInv
<1> QED BY <1>2, <1>3, <1>4, <1>5 DEF IInv

LEMMA NoLeaseIsNone == NoLease \notin Lease
BY NoIdentityAssumption DEF NoLease, Lease

LEMMA ObserveFacts ==
  ASSUME NEW t \in Tracker, NEW id \in Identities \cup {NoIdentity}
  PROVE  /\ Observe(t, id) \in Tracker
         /\ t.generation <= Observe(t, id).generation
         /\ Observe(t, id).current = id
         /\ Observe(t, id).last = IF id = NoIdentity THEN t.last ELSE id
         /\ Observe(t, id).generation = t.generation => Observe(t, id).last = t.last
BY DEF Observe, Tracker

-----------------------------------------------------------------------------
(* The world moves: what was known of a lease is still true. *)
LEMMA WorldKeeps ==
  ASSUME StateInv,
         UNCHANGED <<policy, admitted, managerVars, transportVars, step, lease, candidate,
                     closing, selfClosed>>,
         cleared' = cleared, TypeOK', process' \notin ended', ended \subseteq ended',
         runtime'.current \in {runtime'.last, NoIdentity},
         runtime'.last \in ended' \cup {process', NoIdentity},
         runtime.generation <= runtime'.generation,
         runtime'.generation = runtime.generation => runtime'.last = runtime.last,
         {process} \ {NoIdentity} \subseteq ended' \cup {process'}
  PROVE  StateInv'
<1> USE DEF managerVars, transportVars
<1>1. SessionInv'
  BY DEF StateInv, SessionInv, NoOrphans, LossIsNoticed
<1>2. ASSUME NEW l, Given(l) PROVE Given(l)'
  BY <1>2, NoIdentityAssumption DEF Given, StateInv, TypeOK, Lease, Tracker
<1>3. SessionIsOfItsLease'
  BY DEF StateInv, LeaseInv, SessionIsOfItsLease, Bound
<1>4. LeaseInv'
  BY <1>2, <1>3 DEF StateInv, LeaseInv, Bound, Serves
<1> QED BY <1>1, <1>4 DEF StateInv

(* The types of what most steps leave alone, or the history of its own. *)
LEMMA HistoryIsTyped == TypeOK /\ NoteBroken => broken' \in [Ops -> BOOLEAN]
BY DEF TypeOK, NoteBroken

LEMMA ReplaceKeeps ==
  ASSUME StateInv, NEW p \in Identities \cup {NoIdentity}, Replace(p), NoteBroken, UNCHANGED selfClosed
  PROVE  StateInv'
<1> USE NoIdentityAssumption DEF Replace
<1>1. TypeOK'
  BY HistoryIsTyped DEF StateInv, TypeOK, managerVars, transportVars, connectVars, opVars
<1>2. process' \notin ended'
  BY DEF StateInv, TypeOK
<1>3. /\ runtime.current \in {runtime.last, NoIdentity}
      /\ runtime.last \in ended \cup {process, NoIdentity}
  BY DEF StateInv, LeaseInv
<1>4. runtime \in Tracker /\ runtime.generation <= runtime.generation
  BY DEF StateInv, TypeOK, Tracker
<1> QED BY <1>1, <1>2, <1>3, <1>4, WorldKeeps DEF connectVars

LEMMA InspectKeeps ==
  ASSUME StateInv, Inspect, NoteBroken, UNCHANGED selfClosed
  PROVE  StateInv'
<1> USE DEF Inspect
<1>1. process \in Identities \cup {NoIdentity} /\ runtime \in Tracker
  BY DEF StateInv, TypeOK
<1>2. TypeOK'
  BY <1>1, ObserveFacts, HistoryIsTyped
     DEF StateInv, TypeOK, managerVars, transportVars, connectVars, opVars
<1>3. process \notin ended /\ runtime.last \in ended \cup {process, NoIdentity}
  BY DEF StateInv, LeaseInv
<1> QED BY <1>1, <1>2, <1>3, ObserveFacts, WorldKeeps DEF connectVars

(* A guard that passes vouches for what was read and attached before it:   *)
(* the admitted process has not ended, and no newer one was seen.          *)
LEMMA GuardPassesKeeps ==
  ASSUME StateInv, GuardPasses, NoteBroken, UNCHANGED selfClosed
  PROVE  StateInv'
<1> USE DEF GuardPasses
<1>1. process \in Identities \cup {NoIdentity} /\ runtime \in Tracker
  BY DEF StateInv, TypeOK
<1>2. TypeOK'
  BY <1>1, ObserveFacts, HistoryIsTyped
     DEF StateInv, TypeOK, managerVars, transportVars, opVars, Guarded
<1>3. process \notin ended /\ runtime.last \in ended \cup {process, NoIdentity}
  BY DEF StateInv, LeaseInv
<1>4. SessionInv'
  BY DEF StateInv, SessionInv, NoOrphans, LossIsNoticed, managerVars, transportVars
<1>5. /\ runtime' \in Tracker /\ runtime'.current = process
      /\ runtime.generation <= runtime'.generation
      /\ runtime'.generation = runtime.generation => runtime'.last = runtime.last
      /\ runtime'.last \in {runtime.last, process}
      /\ runtime'.current \in {runtime'.last, NoIdentity}
  BY <1>1, ObserveFacts
<1>6. admitted.identity = process /\ admitted.generation = runtime'.generation
  BY <1>5 DEF LeaseIsCurrent, CurrentLease
<1>7. ASSUME NEW l, Given(l) PROVE Given(l)'
  BY <1>5, <1>7 DEF Given, StateInv, TypeOK, Lease, Tracker
<1>8. SessionIsOfItsLease'
  BY DEF StateInv, LeaseInv, SessionIsOfItsLease, Bound, managerVars, transportVars
<1>9. step \in Connecting => lease = admitted
  BY <1>1, <1>5, <1>6 DEF StateInv, LeaseInv, Given, Lease, Tracker
<1>10. step \in WithCandidate => of[candidate] = admitted.identity
  BY <1>3, <1>6, <1>9 DEF StateInv, LeaseInv, Serves, Connecting
<1>11. LeaseInv'
  BY <1>3, <1>5, <1>7, <1>8, <1>9, <1>10
     DEF StateInv, LeaseInv, Bound, Serves, managerVars, transportVars
<1> QED BY <1>2, <1>4, <1>11 DEF StateInv

-----------------------------------------------------------------------------
(* A session ends, or nothing happens to the manager's: connect() goes on. *)
LEMMA SessionEndKeeps ==
  ASSUME StateInv, UNCHANGED <<policy, admitted, worldVars, of, connectVars>>, TypeOK',
         NoOrphans', LossIsNoticed', open' \subseteq open, notices' \subseteq notices,
         session' = None \/ UNCHANGED <<session, boundLease>>
  PROVE  StateInv'
<1> USE DEF worldVars, connectVars
<1>1. SessionInv'
  BY DEF StateInv, SessionInv
<1>2. SessionIsOfItsLease'
  BY DEF StateInv, LeaseInv, SessionIsOfItsLease, Bound
<1>3. LeaseInv'
  BY <1>2 DEF StateInv, LeaseInv, Given, Bound, Serves
<1> QED BY <1>1, <1>3 DEF StateInv

LEMMA LossKeeps ==
  ASSUME StateInv, NEW s \in Sessions, Lose(s) \/ Notice(s), NoteBroken, UNCHANGED selfClosed
  PROVE  StateInv'
<1> USE DEF Lose, Notice, OnDisconnect, Clear, managerVars
<1>1. open' \subseteq open /\ notices' \subseteq notices
  OBVIOUS
<1>2. session' = None \/ UNCHANGED <<session, boundLease>>
  OBVIOUS
<1>3. TypeOK'
  BY HistoryIsTyped DEF StateInv, TypeOK, worldVars, connectVars, opVars
<1>4. NoOrphans' /\ LossIsNoticed'
  BY DEF StateInv, SessionInv, NoOrphans, LossIsNoticed, connectVars
<1> QED BY <1>1, <1>2, <1>3, <1>4, SessionEndKeeps

LEMMA CloseKeeps ==
  ASSUME StateInv, Close \/ Closed, NoteBroken, UNCHANGED selfClosed
  PROVE  StateInv'
<1> USE DEF Close, Closed, DisposeSession, Clear
<1>1. session' = None \/ UNCHANGED <<session, boundLease>>
  OBVIOUS
<1>2. TypeOK'
  BY HistoryIsTyped DEF StateInv, TypeOK, worldVars, connectVars, opVars, transportVars
<1>3. NoOrphans' /\ LossIsNoticed'
  BY DEF StateInv, SessionInv, NoOrphans, LossIsNoticed, connectVars, transportVars
<1> QED BY <1>1, <1>2, <1>3, SessionEndKeeps DEF transportVars

LEMMA OperationKeeps ==
  ASSUME StateInv, NEW o \in Ops, Operate(o) \/ Abort(o), NoteBroken, UNCHANGED selfClosed
  PROVE  StateInv'
<1>1. CASE Operate(o)
  <2>1. /\ UNCHANGED <<policy, admitted, worldVars, managerVars, transportVars, connectVars, closing>>
        /\ \/ \E k \in OpKinds : Schedule(o, k)
           \/ Begin(o) \/ Answer(o) \/ OperationFails(o)
    BY <1>1 DEF Operate
  <2>2. kind' \in [Ops -> OpKinds \cup {"none"}]
    BY <2>1 DEF StateInv, TypeOK, Schedule, Begin, Answer, OperationFails
  <2>3. pc' \in [Ops -> {"new", "scheduled", "running", "done", "failed"}]
    BY <2>1 DEF StateInv, TypeOK, Schedule, Begin, Answer, OperationFails
  <2>4. at' \in [Ops -> Sessions \cup {None}]
    BY <2>1 DEF StateInv, TypeOK, Schedule, Begin, Answer, OperationFails
  <2>5. under' \in [Ops -> Lease \cup {NoLease}]
    BY <2>1 DEF StateInv, TypeOK, Schedule, Begin, Answer, OperationFails, Observed, CurrentLease,
                Lease, Tracker
  <2>6. TypeOK'
    BY <2>1, <2>2, <2>3, <2>4, <2>5, HistoryIsTyped
       DEF StateInv, TypeOK, worldVars, connectVars, managerVars, transportVars
  <2>7. NoOrphans' /\ LossIsNoticed'
    BY <2>1 DEF StateInv, SessionInv, NoOrphans, LossIsNoticed, connectVars, managerVars,
                transportVars
  <2> QED BY <2>1, <2>6, <2>7, SessionEndKeeps DEF managerVars, transportVars
<1>2. CASE Abort(o)
  <2> USE <1>2 DEF Abort, Invalidate, Clear, managerVars
  <2>1. session' = None \/ UNCHANGED <<session, boundLease>>
    OBVIOUS
  <2>2. TypeOK'
    BY HistoryIsTyped DEF StateInv, TypeOK, worldVars, connectVars
  <2>3. NoOrphans' /\ LossIsNoticed'
    BY DEF StateInv, SessionInv, NoOrphans, LossIsNoticed, connectVars
  <2> QED BY <2>1, <2>2, <2>3, SessionEndKeeps
<1> QED BY <1>1, <1>2

LEMMA CloseItselfKeeps ==
  ASSUME StateInv, NEW o \in Ops, CloseItself(o), NoteBroken
  PROVE  StateInv'
<1> USE DEF CloseItself, managerVars
<1>1. open' \subseteq open /\ UNCHANGED <<session, boundLease>>
  OBVIOUS
<1>2. TypeOK'
  BY HistoryIsTyped DEF StateInv, TypeOK, worldVars, connectVars
<1>3. NoOrphans' /\ LossIsNoticed'
  BY DEF StateInv, SessionInv, NoOrphans, LossIsNoticed, connectVars
<1> QED BY <1>1, <1>2, <1>3, SessionEndKeeps

-----------------------------------------------------------------------------
Unmoved == <<policy, admitted, worldVars, closing, opVars>>

(* connect() goes from one await to the next, and nothing else changes. *)
LEMMA GoKeeps ==
  ASSUME StateInv, UNCHANGED Unmoved, NoteBroken, UNCHANGED selfClosed,
         UNCHANGED <<session, boundLease, transportVars, lease, candidate>>,
         NEW p \in Guarded \cup {"idle", "disposing", "undoing", "undone", "recovering"},
         GoTo(p),
         p \in Connecting => step \in Connecting, p \in WithCandidate <=> step \in WithCandidate,
         state' \in {"DISCONNECTED", "DISCOVERING", "ATTACHING", "CONNECTED", "FAILED"}
  PROVE  StateInv'
<1> USE DEF Unmoved, GoTo, transportVars, worldVars
<1>1. /\ step' \in Guarded \cup {"idle", "disposing", "undoing", "undone", "recovering"}
      /\ cleared' \in BOOLEAN
  OBVIOUS
<1>2. broken' \in [Ops -> BOOLEAN]
  BY HistoryIsTyped DEF StateInv
<1>3. TypeOK'
  BY <1>1, <1>2 DEF StateInv, TypeOK, opVars
<1>4. SessionInv'
  BY DEF StateInv, SessionInv, NoOrphans, LossIsNoticed
<1>5. SessionIsOfItsLease'
  BY DEF StateInv, LeaseInv, SessionIsOfItsLease, Bound
<1>6. LeaseInv'
  BY <1>5 DEF StateInv, LeaseInv, Given, Bound, Serves
<1> QED BY <1>3, <1>4, <1>6 DEF StateInv

LEMMA AwaitsKeep ==
  ASSUME StateInv, UNCHANGED Unmoved, NoteBroken, UNCHANGED selfClosed,
         Connect \/ Disposed \/ Discover \/ Found \/ Attached \/ Initialize \/ Confirm \/ Disconnected
  PROVE  StateInv'
<1> USE DEF Guarded, Connecting, WithCandidate, At, managerVars
<1>1. state \in {"DISCONNECTED", "DISCOVERING", "ATTACHING", "CONNECTED", "FAILED"}
  BY DEF StateInv, TypeOK
<1>2. CASE Connect
  BY <1>1, <1>2, GoKeeps DEF Connect
<1>3. CASE Disposed
  BY <1>3, GoKeeps DEF Disposed
<1>4. CASE Discover
  BY <1>1, <1>4, GoKeeps DEF Discover
<1>5. CASE Found
  BY <1>5, GoKeeps DEF Found
<1>6. CASE Attached
  BY <1>1, <1>6, GoKeeps DEF Attached
<1>7. CASE Initialize
  BY <1>1, <1>7, GoKeeps DEF Initialize
<1>8. CASE Confirm
  BY <1>1, <1>8, GoKeeps DEF Confirm
<1>9. CASE Disconnected
  BY <1>9, GoKeeps DEF Disconnected
<1> QED BY <1>2, <1>3, <1>4, <1>5, <1>6, <1>7, <1>8, <1>9

(* The manager's session is disposed of while connect() has none. *)
LEMMA DisposeKeeps ==
  ASSUME StateInv, UNCHANGED Unmoved, NoteBroken, UNCHANGED selfClosed,
         DisposeSession, UNCHANGED candidate,
         NEW p \in {"disposing", "undone", "recovering"}, GoTo(p), step \notin WithCandidate,
         lease' \in Lease \cup {NoLease},
         p = "disposing" =>
           /\ Given(lease')
           /\ Bound => lease' = admitted \/ admitted.generation < lease'.generation
  PROVE  StateInv'
<1> USE DEF Unmoved, GoTo, DisposeSession, Clear, worldVars
<1>1. open' \in SUBSET Sessions
  BY DEF StateInv, TypeOK
<1>2. TypeOK'
  BY <1>1, HistoryIsTyped DEF StateInv, TypeOK, opVars
<1>3. SessionInv'
  BY DEF StateInv, SessionInv, NoOrphans, LossIsNoticed, WithCandidate, Connecting
<1>4. SessionIsOfItsLease'
  BY DEF SessionIsOfItsLease
<1>5. LeaseInv'
  BY <1>4 DEF StateInv, LeaseInv, Given, Bound, Connecting, WithCandidate
<1> QED BY <1>2, <1>3, <1>5 DEF StateInv

LEMMA PrepareKeeps ==
  ASSUME StateInv, UNCHANGED Unmoved, NoteBroken, UNCHANGED selfClosed, Prepare
  PROVE  StateInv'
<1> USE DEF Prepare
<1>1. step = "preparing" /\ runtime \in Tracker /\ runtime.current # NoIdentity
  BY DEF At, Observed, StateInv, TypeOK
<1>2. Given(lease')
  BY <1>1 DEF StateInv, LeaseInv, Given, CurrentLease, Lease, Tracker
<1>3. Bound => lease' = admitted \/ admitted.generation < lease'.generation
  BY <1>1 DEF StateInv, LeaseInv, Given, CurrentLease, Lease, Tracker
<1>4. CASE state = "CONNECTED" /\ boundLease = lease'
  <2> USE <1>4 DEF Unmoved, worldVars, managerVars, transportVars, GoTo
  <2>1. PICK p \in {"installed", "idle"} : GoTo(p)
    OBVIOUS
  <2>2. TypeOK'
    BY <1>2, <2>1, HistoryIsTyped DEF StateInv, TypeOK, opVars, Guarded, Given
  <2>3. SessionInv'
    BY <1>1, <2>1 DEF StateInv, SessionInv, NoOrphans, LossIsNoticed, WithCandidate, Connecting
  <2>4. SessionIsOfItsLease'
    BY DEF StateInv, LeaseInv, SessionIsOfItsLease, Bound
  <2>5. LeaseInv'
    BY <1>1, <2>1, <2>4 DEF StateInv, LeaseInv, Given, Bound, WithCandidate, Connecting
  <2> QED BY <2>2, <2>3, <2>5 DEF StateInv
<1>5. CASE ~ (state = "CONNECTED" /\ boundLease = lease')
  BY <1>1, <1>2, <1>3, <1>5, DisposeKeeps DEF Given, WithCandidate
<1> QED BY <1>4, <1>5

LEMMA DisconnectKeeps ==
  ASSUME StateInv, UNCHANGED Unmoved, NoteBroken, UNCHANGED selfClosed, Undo \/ Recover
  PROVE  StateInv'
<1>1. lease \in Lease \cup {NoLease}
  BY DEF StateInv, TypeOK
<1>2. CASE Undo
  BY <1>1, <1>2, DisposeKeeps DEF Undo, At, WithCandidate
<1>3. CASE Recover
  BY <1>1, <1>3, DisposeKeeps DEF Recover, At, WithCandidate
<1> QED BY <1>2, <1>3

(* What is attached is the process of now: that of the lease, or a later one. *)
LEMMA AttachKeeps ==
  ASSUME StateInv, UNCHANGED Unmoved, NoteBroken, UNCHANGED selfClosed, NEW s \in Sessions, Attach(s)
  PROVE  StateInv'
<1> USE DEF Unmoved, GoTo, Attach, worldVars, managerVars
<1>1. /\ step = "attaching" /\ session = None /\ candidate = None /\ s # None
      /\ of \in [Sessions -> Identities \cup {NoIdentity}]
  BY NoneAssumption DEF At, StateInv, TypeOK, SessionInv, Connecting, WithCandidate
<1>2. of' = [of EXCEPT ![s] = process] /\ of'[s] = process
  BY <1>1
<1>3. broken' \in [Ops -> BOOLEAN]
  BY HistoryIsTyped DEF StateInv
<1>4. TypeOK'
  BY <1>3 DEF StateInv, TypeOK, opVars, Guarded
<1>5. SessionInv'
  BY <1>1, <1>2 DEF StateInv, TypeOK, SessionInv, NoOrphans, LossIsNoticed, Connecting,
                    WithCandidate
<1>6. SessionIsOfItsLease'
  BY <1>1 DEF SessionIsOfItsLease
<1>7. Serves(s, lease)'
  BY <1>1, <1>2 DEF Serves, StateInv, LeaseInv, Given, Connecting
<1>8. LeaseInv'
  BY <1>1, <1>6, <1>7 DEF StateInv, LeaseInv, Given, Bound, Connecting
<1> QED BY <1>4, <1>5, <1>8 DEF StateInv

LEMMA InstallKeeps ==
  ASSUME StateInv, UNCHANGED Unmoved, NoteBroken, UNCHANGED selfClosed, Install
  PROVE  StateInv'
<1> USE DEF Unmoved, GoTo, Install, InstallUnder, worldVars
<1>1. /\ step = "initialized" /\ candidate \in Sessions /\ Given(lease)
      /\ Bound => cleared
  BY DEF At, Guarded, StateInv, TypeOK, SessionInv, LeaseInv, Connecting, WithCandidate
<1>2. boundLease' # NoLease /\ boundLease' \in Lease
  BY <1>1, NoLeaseIsNone DEF Given
<1>3. broken' \in [Ops -> BOOLEAN]
  BY HistoryIsTyped DEF StateInv
<1>4. step' \in {"installed", "idle"} /\ cleared' = FALSE
  OBVIOUS
<1>5. TypeOK'
  BY <1>1, <1>2, <1>3, <1>4, NoneAssumption DEF StateInv, TypeOK, opVars, Guarded
<1>6. SessionInv'
  BY <1>1, <1>4, NoneAssumption DEF StateInv, TypeOK, SessionInv, NoOrphans, LossIsNoticed,
                                    Connecting, WithCandidate
<1>7. SessionIsOfItsLease'
  BY <1>1 DEF StateInv, LeaseInv, SessionIsOfItsLease, Serves, Bound, Connecting, WithCandidate
<1>8. LeaseInv'
  BY <1>4, <1>7 DEF StateInv, LeaseInv, Given, Bound, Connecting, WithCandidate
<1> QED BY <1>5, <1>6, <1>8 DEF StateInv

LEMMA ConnectFailsKeeps ==
  ASSUME StateInv, UNCHANGED Unmoved, NoteBroken, UNCHANGED selfClosed, ConnectFails
  PROVE  StateInv'
<1> USE DEF Unmoved, GoTo, ConnectFails, worldVars
<1>1. step' \in {"undoing", "idle"} /\ cleared' = FALSE
  OBVIOUS
<1>2. broken' \in [Ops -> BOOLEAN]
  BY HistoryIsTyped DEF StateInv
<1>3. TypeOK'
  BY <1>1, <1>2 DEF StateInv, TypeOK, opVars
<1>4. candidate # None => session = None
  BY DEF StateInv, SessionInv, Connecting, WithCandidate
<1>5. SessionInv'
  BY <1>1, <1>4, NoneAssumption DEF StateInv, TypeOK, SessionInv, NoOrphans, LossIsNoticed,
                                    Connecting, WithCandidate
<1>6. SessionIsOfItsLease'
  BY DEF StateInv, LeaseInv, SessionIsOfItsLease, Bound
<1>7. LeaseInv'
  BY <1>1, <1>6 DEF StateInv, LeaseInv, Given, Bound, Connecting, WithCandidate
<1> QED BY <1>3, <1>5, <1>7 DEF StateInv

LEMMA LineKeeps ==
  ASSUME StateInv, LineStep, NoteBroken, UNCHANGED selfClosed
  PROVE  StateInv'
<1>1. UNCHANGED Unmoved
  BY DEF LineStep, Unmoved
<1>2. CASE \/ Connect \/ Disposed \/ Discover \/ Found \/ Attached \/ Initialize \/ Confirm
           \/ Disconnected
  BY <1>1, <1>2, AwaitsKeep
<1>3. CASE Prepare
  BY <1>1, <1>3, PrepareKeeps
<1>4. CASE \E s \in Sessions : Attach(s)
  BY <1>1, <1>4, AttachKeeps
<1>5. CASE Install
  BY <1>1, <1>5, InstallKeeps
<1>6. CASE ConnectFails
  BY <1>1, <1>6, ConnectFailsKeeps
<1>7. CASE Undo \/ Recover
  BY <1>1, <1>7, DisconnectKeeps
<1> QED BY <1>2, <1>3, <1>4, <1>5, <1>6, <1>7 DEF LineStep

-----------------------------------------------------------------------------
(* How the binding of an operation can change: only a session that was     *)
(* never attached before becomes a candidate, and only it is installed.    *)
BindingMoves ==
  /\ runtime.generation <= runtime'.generation
  /\ session' \in {session, None, candidate}
  /\ \/ candidate' \in {candidate, None}
     \/ of[candidate'] = NoIdentity /\ session' = session
  /\ \A s \in Sessions : of[s] # NoIdentity => of'[s] = of[s]

LEMMA LineMovesBinding ==
  ASSUME StateInv, LineStep
  PROVE  BindingMoves
<1>1. runtime' = runtime /\ runtime.generation <= runtime.generation
  BY DEF LineStep, worldVars, StateInv, TypeOK, Tracker
<1>2. CASE \E s \in Sessions : Attach(s)
  BY <1>1, <1>2 DEF BindingMoves, Attach, managerVars, StateInv, TypeOK
<1>3. CASE Install
  BY <1>1, <1>3 DEF BindingMoves, Install, InstallUnder
<1>4. CASE \/ Connect \/ Prepare \/ Disposed \/ Discover \/ Found \/ Attached \/ Initialize
           \/ Confirm
  BY <1>1, <1>4 DEF BindingMoves, Connect, Prepare, Disposed, Discover, Found, Attached,
     Initialize, Confirm, DisposeSession, Clear, managerVars, transportVars
<1>5. CASE ConnectFails \/ Undo \/ Recover \/ Disconnected
  BY <1>1, <1>5 DEF BindingMoves, ConnectFails, Undo, Recover, Disconnected, DisposeSession,
     Clear, transportVars
<1> QED BY <1>2, <1>3, <1>4, <1>5 DEF LineStep

LEMMA BindingAlwaysMoves ==
  ASSUME StateInv, Next
  PROVE  BindingMoves
<1>1. runtime \in Tracker /\ process \in Identities \cup {NoIdentity}
      /\ runtime.generation <= runtime.generation
  BY DEF StateInv, TypeOK, Tracker
<1> USE DEF BindingMoves, managerVars, transportVars, connectVars, worldVars
<1>2. CASE \E p \in Identities \cup {NoIdentity} : Replace(p)
  BY <1>1, <1>2 DEF Replace
<1>3. CASE Inspect
  BY <1>1, <1>3, ObserveFacts DEF Inspect
<1>4. CASE GuardPasses
  BY <1>1, <1>4, ObserveFacts DEF GuardPasses
<1>5. CASE Close \/ Closed
  BY <1>1, <1>5 DEF Close, Closed, DisposeSession, Clear
<1>6. CASE \E s \in Sessions : Lose(s) \/ Notice(s)
  BY <1>1, <1>6 DEF Lose, Notice, OnDisconnect, Clear
<1>7. CASE \E o \in Ops : Operate(o) \/ Abort(o)
  BY <1>1, <1>7 DEF Operate, Abort, Invalidate, Clear
<1>8. CASE LineStep
  BY <1>8, LineMovesBinding
<1>9. CASE \E o \in Ops : CloseItself(o)
  BY <1>1, <1>9 DEF CloseItself
<1> QED BY <1>2, <1>3, <1>4, <1>5, <1>6, <1>7, <1>8, <1>9 DEF Next, Step

(* An operation that does not move itself. *)
LEMMA OpSurvives ==
  ASSUME IInv, StateInv', BindingMoves, NoteBroken, NEW o \in Ops,
         pc'[o] = pc[o], kind'[o] = kind[o], at'[o] = at[o], under'[o] = under[o]
  PROVE  OpInv(o)'
<1>1. OpInv(o) /\ SessionInv /\ TypeOK
  BY DEF IInv
<1>2. runtime.generation \in Nat /\ runtime'.generation \in Nat
      /\ under[o] \in Lease \cup {NoLease}
  BY DEF IInv, StateInv, TypeOK, Tracker
<1>3. under[o].generation \in Nat
  BY <1>2 DEF Lease, NoLease
<1>4. OnAnySession(o)' = OnAnySession(o)
  BY DEF OnAnySession
<1>5. broken'[o] = \/ broken[o]
                   \/ /\ pc[o] = "running"
                      /\ session' # at[o] \/ runtime'.generation # under[o].generation
  BY DEF NoteBroken
<1>6. CASE pc[o] = "running" /\ ~ OnAnySession(o)
  <2>1. at[o] \in Sessions /\ of[at[o]] # NoIdentity /\ of'[at[o]] = of[at[o]] /\ at[o] # None
    BY <1>1, <1>6, NoneAssumption DEF OpInv, BindingMoves
  <2>2. candidate # None => session = None
    BY <1>1 DEF SessionInv, WithCandidate, Connecting
  <2>3. under[o].generation <= runtime'.generation
    BY <1>1, <1>2, <1>3, <1>6 DEF OpInv, BindingMoves
  <2>4. IF broken'[o]
          THEN at[o] \notin {session', candidate'} \/ under[o].generation < runtime'.generation
          ELSE session' = at[o] /\ under[o].generation = runtime'.generation
    <3>1. CASE broken[o]
      BY <1>1, <1>2, <1>3, <1>5, <1>6, <2>1, <3>1 DEF OpInv, BindingMoves
    <3>2. CASE ~ broken[o]
      BY <1>1, <1>2, <1>3, <1>5, <1>6, <2>1, <2>2, <2>3, <3>2 DEF OpInv, BindingMoves
    <3> QED BY <3>1, <3>2
  <2> QED BY <1>4, <1>6, <2>1, <2>3, <2>4 DEF OpInv
<1>7. CASE ~ (pc[o] = "running" /\ ~ OnAnySession(o))
  BY <1>1, <1>2, <1>3, <1>4, <1>5, <1>7 DEF OpInv, BindingMoves
<1> QED BY <1>6, <1>7

(* An operation begins, answers or fails, and nothing else moves. *)
LEMMA OperateKeepsOp ==
  ASSUME IInv, NEW o \in Ops, Operate(o), NoteBroken
  PROVE  OpInv(o)'
<1>1. /\ UNCHANGED <<session, boundLease, state, runtime, of, candidate>>
      /\ broken'[o] = \/ broken[o]
                      \/ /\ pc[o] = "running"
                         /\ session # at[o] \/ runtime.generation # under[o].generation
  BY DEF Operate, NoteBroken, managerVars, worldVars, transportVars, connectVars
<1>2. OpInv(o) /\ SessionInv /\ TypeOK
  BY DEF IInv
<1>3. runtime.generation \in Nat /\ runtime.generation <= runtime.generation
  BY <1>2 DEF TypeOK, Tracker
<1>4. ASSUME NEW k \in OpKinds, Schedule(o, k) PROVE OpInv(o)'
  <2>1. pc'[o] = "scheduled" /\ pc[o] = "new" /\ under'[o] = CurrentLease(runtime)
    BY <1>2, <1>4 DEF Schedule, TypeOK
  <2> QED BY <1>1, <1>2, <1>3, <2>1 DEF OpInv, CurrentLease
<1>5. CASE Begin(o)
  <2>1. /\ pc'[o] = "running" /\ pc[o] = "scheduled" /\ at'[o] = session
        /\ under'[o] = under[o] /\ kind'[o] = kind[o] /\ ~ broken'[o]
    BY <1>1, <1>2, <1>5 DEF Begin, TypeOK, OpInv
  <2>2. session \in Sessions /\ of[session] # NoIdentity
    BY <1>2, <1>5 DEF Begin, SessionIsCurrent, RuntimeIsCurrent, TypeOK, SessionInv
  <2>3. ~ OnAnySession(o) => under[o].generation = runtime.generation
    BY <1>5 DEF Begin, SessionIsCurrent, LeaseIsCurrent, CurrentLease
  <2>4. OnAnySession(o)' = OnAnySession(o)
    BY <2>1 DEF OnAnySession
  <2> QED BY <1>1, <1>2, <2>1, <2>2, <2>3, <2>4 DEF OpInv
<1>6. CASE Answer(o)
  <2>1. /\ pc'[o] = "done" /\ pc[o] = "running" /\ OnAnySession(o)' = OnAnySession(o)
    BY <1>2, <1>6 DEF Answer, TypeOK, OnAnySession
  <2>2. ~ OnAnySession(o) => session = at[o] /\ under[o].generation = runtime.generation
    BY <1>6 DEF Answer, SessionIsCurrent, LeaseIsCurrent, CurrentLease
  <2>3. ~ OnAnySession(o) => ~ broken'[o]
    BY <1>1, <1>2, <1>3, <2>1, <2>2 DEF OpInv
  <2> QED BY <2>1, <2>3 DEF OpInv
<1>7. CASE OperationFails(o)
  <2>1. pc'[o] = "failed"
    BY <1>2, <1>7 DEF OperationFails, TypeOK
  <2> QED BY <2>1 DEF OpInv
<1> QED BY <1>4, <1>5, <1>6, <1>7 DEF Operate

LEMMA NextPreserves == IInv /\ [Next]_vars => IInv'
<1> SUFFICES ASSUME IInv, [Next]_vars PROVE IInv'
  OBVIOUS
<1>1. CASE UNCHANGED vars
  BY <1>1 DEF vars, worldVars, managerVars, transportVars, connectVars, opVars, IInv, TypeOK,
     SessionInv, LeaseInv, NoOrphans, LossIsNoticed, SessionIsOfItsLease, Given, Serves, Bound,
     OpInv, OnAnySession
<1>2. CASE Next
  <2>1. StateInv /\ NoteBroken
    BY <1>2 DEF IInv, StateInv, Next
  <2>2. BindingMoves
    BY <1>2, <2>1, BindingAlwaysMoves
  <2>3. StateInv'
    BY <1>2, <2>1, ReplaceKeeps, InspectKeeps, GuardPassesKeeps, LineKeeps, CloseKeeps, LossKeeps,
       OperationKeeps, CloseItselfKeeps DEF Next, Step
  <2>4. CASE \E o \in Ops : Operate(o) \/ Abort(o) \/ CloseItself(o)
    <3>1. PICK o \in Ops : Operate(o) \/ Abort(o) \/ CloseItself(o)
      BY <2>4
    <3>2. \A q \in Ops \ {o} : /\ pc'[q] = pc[q] /\ kind'[q] = kind[q] /\ at'[q] = at[q]
                               /\ under'[q] = under[q]
      <4>1. CASE Operate(o)
        BY <4>1 DEF Operate, Schedule, Begin, Answer, OperationFails, IInv, TypeOK
      <4>2. CASE Abort(o) \/ CloseItself(o)
        BY <4>2 DEF Abort, CloseItself, IInv, TypeOK
      <4> QED BY <3>1, <4>1, <4>2
    <3>3. \A q \in Ops \ {o} : OpInv(q)'
      BY <2>1, <2>2, <2>3, <3>2, OpSurvives
    <3>4. CASE Operate(o)
      BY <2>1, <2>3, <3>3, <3>4, OperateKeepsOp DEF IInv, StateInv
    <3>5. CASE Abort(o) \/ CloseItself(o)
      <4>1. pc'[o] = "failed"
        BY <3>5 DEF Abort, CloseItself, IInv, TypeOK
      <4>2. OpInv(o)'
        BY <4>1 DEF OpInv
      <4> QED BY <2>3, <3>3, <4>2 DEF IInv, StateInv
    <3> QED BY <3>1, <3>4, <3>5
  <2>5. CASE UNCHANGED opVars
    <3>1. \A q \in Ops : OpInv(q)'
      BY <2>1, <2>2, <2>3, <2>5, OpSurvives DEF opVars
    <3> QED BY <2>3, <3>1 DEF IInv, StateInv
  <2> QED BY <1>2, <2>4, <2>5 DEF Next, Step, Replace, Inspect, GuardPasses, LineStep, Close, Closed,
                                  Lose, Notice
<1> QED BY <1>1, <1>2

LEMMA Inductive == Spec => []IInv
BY InitEstablishes, NextPreserves, PTL DEF Spec

(* The types, and that the manager has a lease exactly when it has a       *)
(* session (CdpSessionManager.ts:700).                                     *)
THEOREM TypeCorrect == Spec => []TypeOK
<1>1. IInv => TypeOK
  BY DEF IInv
<1> QED BY <1>1, Inductive, PTL

(* CdpSessionManager.ts:262: whatever comes beside a connect(), no open    *)
(* session is ever forgotten.                                              *)
THEOREM NothingIsOrphaned == Spec => []NoOrphans
<1>1. IInv => NoOrphans
  BY DEF IInv, SessionInv
<1> QED BY <1>1, Inductive, PTL

(* CdpSessionManager.ts:233: the manager is told of every loss of the      *)
(* session it keeps, before or after it was installed, unless the session  *)
(* closed itself (ChromeRemoteInterfaceSession.ts:1324).                   *)
THEOREM LossesAreNoticed == Spec => []LossIsNoticed
<1>1. IInv => LossIsNoticed
  BY DEF IInv, SessionInv
<1> QED BY <1>1, Inductive, PTL

(* CdpSessionManager.ts:214 and BoundCdpSessionManager.ts: no session is   *)
(* bound to the lease of another living process, and a bound manager never *)
(* has one with any other process than the admitted.                       *)
THEOREM SessionsAreOfTheirLease == Spec => []SessionIsOfItsLease
<1>1. IInv => SessionIsOfItsLease
  BY DEF IInv, LeaseInv
<1> QED BY <1>1, Inductive, PTL

(* CdpSessionManager.ts:700: what an operation of a turn reports was done  *)
(* on one session and in one runtime generation, from beginning to end.    *)
THEOREM SuccessHasOneBinding == Spec => []OneBinding
<1>1. IInv => OneBinding
  BY DEF IInv, OneBinding, OpInv
<1> QED BY <1>1, Inductive, PTL

=============================================================================

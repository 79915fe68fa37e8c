----------------------- MODULE ClassicSupervisorProofs -----------------------
(***************************************************************************)
(* The safety of the supervisor for any number of lifecycle calls,         *)
(* inspections and processes.                                              *)
(*                                                                         *)
(* The argument rests on the lifecycle line: only the operation at its     *)
(* head is past its beginning (OneAtATime), so that the state of a stop    *)
(* (StopState) and of a launch (LaunchState) belong to that operation, and *)
(* what is left to show is that the inspections beside the line, and the   *)
(* processes themselves, do not disturb them.                              *)
(***************************************************************************)
EXTENDS ClassicSupervisor, TLAPS

Started == {"required", "inspected", "capturing", "killing", "exiting", "resolving", "checking",
            "watching"}

StopKinds == {"stop", "restart"}

(* Operations and probes are at different awaits. *)
Places ==
  /\ \A o \in Ops : pc[o] # "probing"
  /\ \A o \in Ops : pc[o] = "queued" => kind[o] \in {"require", "ensure"} \cup StopKinds
  /\ \A c \in Probes : pc[c] \in {"new", "probing", "done", "failed"}
  /\ \A c \in Calls : view[c].processes \subseteq started
  /\ captured \subseteq started

Policies ==
  /\ \A c \in Calls : kind[c] = "assert" => policy = "BOUND_EXISTING"
  /\ \A c \in Calls : kind[c] \in StopKinds => policy = "MANAGED"

OneAtATime == \A o \in Ops : pc[o] \in Started => line # <<>> /\ Head(line) = o

(* The state of a stop is that of the operation which is stopping. *)
StopState ==
  /\ (stopping \/ captured # {} \/ quiet # 0) =>
       \E o \in Ops : pc[o] \in {"capturing", "killing", "exiting"}
  /\ \A o \in Ops : pc[o] = "capturing" => captured = {} /\ quiet = 0
  /\ \A o \in Ops : pc[o] \in {"capturing", "killing", "exiting"} =>
       stopping /\ kind[o] \in StopKinds
  /\ \A o \in Ops : pc[o] \in {"killing", "exiting"} => runtime.current = NoIdentity
  /\ \A o \in Ops : pc[o] = "killing" => quiet = 0

(* A quiet observation proves the captured processes gone for good. *)
QuietIsGone ==
  \A o \in Ops :
    pc[o] = "exiting" /\ (quiet = 1 \/ (view[o].taken /\ view[o].processes = {}))
      => captured \cap alive = {}

(* From the empty inspection on, no process from before the launch is there. *)
LaunchState ==
  \A o \in Ops :
    /\ pc[o] = "checking" /\ view[o].taken /\ view[o].processes = {} => old \cap alive = {}
    /\ pc[o] = "watching" =>
         /\ old \cap alive = {}
         /\ view[o].taken => view[o].processes \cap old = {}

AdmittedIsPast == expected.generation <= runtime.generation

Inv ==
  TypeOK /\ Places /\ Policies /\ OneAtATime /\ StopState /\ QuietIsGone /\ LaunchState
  /\ AdmittedIsPast

USE DEF Calls, Inspecting, Started, StopKinds, NotTaken, worldVars, stopVars, launchVars

LEMMA ObserveFacts ==
  ASSUME NEW t \in Tracker, NEW id \in Identities \cup {NoIdentity}
  PROVE  /\ Observe(t, id) \in Tracker
         /\ t.generation <= Observe(t, id).generation
         /\ Observe(t, id).current = id
BY DEF Observe, Tracker

LEMMA InitInv == Init => Inv
<1>. SUFFICES ASSUME Init PROVE Inv
  OBVIOUS
<1>1. runtime \in Tracker /\ runtime.generation = 0 /\ runtime.current = NoIdentity
  BY DEF Init, InitialTracker, Tracker
<1>2. alive = {} \/ \E i \in Identities : alive = {i}
  BY DEF Init
<1>3. TypeOK
  <2>1. started = alive /\ alive \subseteq Identities
    BY <1>2 DEF Init
  <2>2. line \in Seq(Ops) /\ refused \in 0..MaxRefused /\ quiet \in 0..1
    BY MaxRefusedAssumption DEF Init
  <2>. QED
    BY <1>1, <2>1, <2>2 DEF Init, TypeOK, NoLease
<1>4. Places /\ Policies /\ OneAtATime
  BY DEF Init, Places, Policies, OneAtATime
<1>5. StopState /\ QuietIsGone /\ LaunchState
  BY DEF Init, StopState, QuietIsGone, LaunchState
<1>6. AdmittedIsPast
  BY <1>1 DEF Init, AdmittedIsPast, NoLease
<1>. QED
  BY <1>3, <1>4, <1>5, <1>6 DEF Inv

(* Every step of a call moves it to its next place and drops its listing. *)
Pcs == [Calls -> {"new", "queued", "killing", "resolving", "done", "failed"} \cup Inspecting]

Views == [Calls -> [taken : BOOLEAN, processes : SUBSET Identities]]

LEMMA MoveKeepsTypes ==
  ASSUME TypeOK, NEW c \in Calls,
         NEW p \in {"new", "queued", "killing", "resolving", "done", "failed"} \cup Inspecting,
         pc' = [pc EXCEPT ![c] = p], view' = [view EXCEPT ![c] = NotTaken]
  PROVE  pc' \in Pcs /\ view' \in Views
BY DEF TypeOK, Pcs, Views

LEMMA AppearKeepsInv ==
  ASSUME Inv, NEW i \in Identities, Appear(i)
  PROVE  Inv'
  BY CallsAssumption DEF Inv, TypeOK, Places, Policies, OneAtATime, StopState, QuietIsGone,
                         LaunchState, AdmittedIsPast, Appear

LEMMA ExitKeepsInv ==
  ASSUME Inv, NEW i \in Identities, Exit(i)
  PROVE  Inv'
  BY CallsAssumption DEF Inv, TypeOK, Places, Policies, OneAtATime, StopState, QuietIsGone,
                         LaunchState, AdmittedIsPast, Exit

LEMMA ListKeepsInv ==
  ASSUME Inv, NEW c \in Calls, List(c)
  PROVE  Inv'
  BY CallsAssumption DEF Inv, TypeOK, Places, Policies, OneAtATime, StopState, QuietIsGone,
                         LaunchState, AdmittedIsPast, List

LEMMA SubmitKeepsInv ==
  ASSUME Inv, NEW o \in Ops, NEW k \in OpKinds, Submit(o, k)
  PROVE  Inv'
<1>1. line \in Seq(Ops) /\ line' = Append(line, o)
  BY DEF Inv, TypeOK, Submit
<1>2. line' \in Seq(Ops) /\ line' # <<>> /\ (line # <<>> => Head(line') = Head(line))
  BY <1>1
<1>. QED
  BY CallsAssumption, <1>2 DEF Inv, TypeOK, Places, Policies, OneAtATime, StopState, QuietIsGone,
                               LaunchState, AdmittedIsPast, Submit, OpKinds

LEMMA BeginKeepsInv ==
  ASSUME Inv, NEW o \in Ops, Begin(o)
  PROVE  Inv'
  BY CallsAssumption DEF Inv, TypeOK, Places, Policies, OneAtATime, StopState, QuietIsGone,
                         LaunchState, AdmittedIsPast, Begin, MayBegin, GoTo

(* An operation that settles leaves the line, and no stop or launch behind. *)
LEMMA SettleKeepsInv ==
  ASSUME Inv, NEW o \in Ops, NEW result \in {"done", "failed"}, Settle(o, result),
         pc[o] \in Started \/ (pc[o] = "queued" /\ MayBegin(o)),
         runtime' \in Tracker, runtime.generation <= runtime'.generation,
         expected' \in Lease \cup {NoLease}, expected'.generation <= runtime'.generation
  PROVE  Inv'
<1>1. line # <<>> /\ Head(line) = o /\ line \in Seq(Ops)
  BY DEF Inv, TypeOK, OneAtATime, MayBegin
<1>2. Tail(line) \in Seq(Ops)
  BY <1>1
<1>3. \A q \in Ops \ {o} : pc[q] \notin Started
  BY <1>1 DEF Inv, OneAtATime
<1>4. \A q \in Ops : pc'[q] \notin Started
  BY <1>3 DEF Inv, TypeOK, Settle
<1>5. TypeOK'
  <2>1. pc' \in Pcs /\ view' \in Views
    BY MoveKeepsTypes DEF Settle, Inv
  <2>2. quiet' \in 0..1 /\ refused' \in 0..MaxRefused
    BY MaxRefusedAssumption DEF Settle
  <2>. QED
    BY <1>2, <2>1, <2>2 DEF Inv, TypeOK, Settle, Pcs, Views
<1>6. Places' /\ Policies'
  BY CallsAssumption, MaxRefusedAssumption, <1>2, <1>4
     DEF Inv, TypeOK, Places, Policies, Settle
<1>7. OneAtATime' /\ StopState'
  BY CallsAssumption, MaxRefusedAssumption, <1>2, <1>4
     DEF Inv, TypeOK, Places, OneAtATime, StopState, Settle
<1>8. QuietIsGone' /\ LaunchState'
  BY CallsAssumption, MaxRefusedAssumption, <1>2, <1>4
     DEF Inv, TypeOK, Places, OneAtATime, StopState, QuietIsGone, LaunchState, Settle
<1>9. AdmittedIsPast'
  BY CallsAssumption, MaxRefusedAssumption, <1>2, <1>4
     DEF Inv, TypeOK, AdmittedIsPast, Settle
<1>. QED
  BY <1>5, <1>6, <1>7, <1>8, <1>9 DEF Inv

LEMMA FailKeepsInv ==
  ASSUME Inv, NEW o \in Ops, Fail(o)
  PROVE  Inv'
<1>1. pc[o] \in Started \/ (pc[o] = "queued" /\ MayBegin(o))
  BY DEF Fail, Inv, Places
<1>. QED
  BY <1>1, SettleKeepsInv DEF Fail, Inv, TypeOK, AdmittedIsPast, Tracker, Lease, NoLease

LEMMA RequireKeepsInv ==
  ASSUME Inv, NEW o \in Ops, NEW main \in Identities \cup {NoIdentity}, Require(o, main)
  PROVE  Inv'
<1>1. runtime' \in Tracker /\ runtime.generation <= runtime'.generation /\ runtime'.current = main
  BY ObserveFacts DEF Require, Inv, TypeOK
<1>2. expected' \in Lease \cup {NoLease} /\ expected'.generation <= runtime'.generation
  BY <1>1 DEF Require, Inv, TypeOK, AdmittedIsPast, CurrentLease, Lease, NoLease, Tracker
<1>. QED
  BY <1>1, <1>2, SettleKeepsInv DEF Require, Answered

LEMMA EnsureKeepsInv ==
  ASSUME Inv, NEW o \in Ops, NEW main \in Identities \cup {NoIdentity}, Ensure(o, main)
  PROVE  Inv'
<1>1. runtime' \in Tracker /\ runtime.generation <= runtime'.generation
  BY ObserveFacts DEF Ensure, Inspected, Inv, TypeOK, Tracker
<1>2. CASE Settle(o, "done") /\ UNCHANGED expected
  BY <1>1, <1>2, SettleKeepsInv DEF Ensure, Answered, Inv, TypeOK, AdmittedIsPast, Tracker, Lease,
                                    NoLease
<1>3. CASE /\ GoTo(o, "resolving") /\ before' = runtime'.generation /\ old' = started
           /\ UNCHANGED <<stopVars, expected>>
  BY CallsAssumption, <1>1, <1>3
     DEF Inv, TypeOK, Places, Policies, OneAtATime, StopState, QuietIsGone, LaunchState,
         AdmittedIsPast, Ensure, Answered, GoTo, Tracker, Lease, NoLease
<1>. QED
  BY <1>2, <1>3 DEF Ensure

(* The end of a stop, for a stop and for a restart. *)
LEMMA StoppedKeepsInv ==
  ASSUME Inv, NEW o \in Ops, pc[o] \in {"capturing", "exiting"}, Stopped(o)
  PROVE  Inv'
<1>1. runtime' \in Tracker /\ runtime.generation <= runtime'.generation
  BY ObserveFacts DEF Stopped, Inv, TypeOK
<1>2. CASE Settle(o, "done")
  BY <1>1, <1>2, SettleKeepsInv DEF Stopped, Inv, TypeOK, AdmittedIsPast, Tracker, Lease, NoLease
<1>3. CASE /\ GoTo(o, "resolving") /\ before' = runtime'.generation /\ old' = started
           /\ stopping' = FALSE /\ captured' = {} /\ quiet' = 0 /\ refused' = 0
  <2>1. TypeOK'
    <3>1. pc' \in Pcs /\ view' \in Views
      BY <1>3, MoveKeepsTypes DEF GoTo, Inv
    <3>2. quiet' \in 0..1 /\ refused' \in 0..MaxRefused /\ before' \in Nat
      BY <1>1, <1>3, MaxRefusedAssumption DEF Tracker
    <3>3. UNCHANGED <<policy, alive, started, line, kind, expected>>
      BY <1>3 DEF GoTo, Stopped
    <3>. QED
      BY <1>1, <1>3, <3>1, <3>2, <3>3 DEF Inv, TypeOK, Pcs, Views
  <2>2. Places' /\ Policies'
    BY CallsAssumption, MaxRefusedAssumption, <1>1, <1>3
       DEF Inv, TypeOK, Places, Policies, Stopped, GoTo, Tracker, Lease, NoLease
  <2>3. OneAtATime' /\ StopState'
    BY CallsAssumption, MaxRefusedAssumption, <1>1, <1>3
       DEF Inv, TypeOK, Places, OneAtATime, StopState, Stopped, GoTo, Tracker, Lease, NoLease
  <2>4. QuietIsGone' /\ LaunchState'
    BY CallsAssumption, MaxRefusedAssumption, <1>1, <1>3
       DEF Inv, TypeOK, Places, OneAtATime, StopState, QuietIsGone, LaunchState, Stopped, GoTo,
           Tracker, Lease, NoLease
  <2>5. AdmittedIsPast'
    BY CallsAssumption, MaxRefusedAssumption, <1>1, <1>3
       DEF Inv, TypeOK, AdmittedIsPast, Stopped, GoTo, Tracker, Lease, NoLease
  <2>. QED
    BY <2>1, <2>2, <2>3, <2>4, <2>5 DEF Inv
<1>. QED
  BY <1>2, <1>3 DEF Stopped

LEMMA CaptureKeepsInv ==
  ASSUME Inv, NEW o \in Ops, NEW main \in Identities \cup {NoIdentity}, Capture(o, main)
  PROVE  Inv'
<1>1. CASE Stopped(o)
  BY <1>1, StoppedKeepsInv DEF Capture, Answered
<1>2. CASE main # NoIdentity /\ ~ Stopped(o)
  <2>1. /\ runtime' \in Tracker /\ runtime.generation <= runtime'.generation
        /\ runtime'.current = NoIdentity
    <3>1. Observe(runtime, main) \in Tracker /\ runtime.generation <= Observe(runtime, main).generation
      BY ObserveFacts DEF Inv, TypeOK
    <3>2. runtime' = Observe(Observe(runtime, main), NoIdentity)
      BY <1>2 DEF Capture
    <3>3. /\ runtime' \in Tracker /\ Observe(runtime, main).generation <= runtime'.generation
          /\ runtime'.current = NoIdentity
      BY <3>1, <3>2, ObserveFacts
    <3>. QED
      BY <3>1, <3>3 DEF Inv, TypeOK, Tracker
  <2>2. main \in started
    BY <1>2 DEF Capture, Answered, IsMain, Inv, Places
  <2>3. /\ pc[o] = "capturing"
        /\ pc' = [pc EXCEPT ![o] = "killing"] /\ view' = [view EXCEPT ![o] = NotTaken]
        /\ captured' = {main}
        /\ UNCHANGED <<policy, alive, started, line, kind, stopping, quiet, refused, before, old, expected>>
    BY <1>2 DEF Capture, Answered, GoTo
  <2>4. pc' \in Pcs /\ view' \in Views
    BY <2>3, MoveKeepsTypes DEF Inv
  <2>5. TypeOK'
    BY <1>2, <2>1, <2>3, <2>4 DEF Inv, TypeOK, Pcs, Views
  <2>6. Places'
    BY CallsAssumption, <2>2, <2>3 DEF Inv, TypeOK, Places
  <2>7. Policies'
    BY <2>3 DEF Inv, Policies
  <2>8. OneAtATime'
    BY CallsAssumption, <2>3 DEF Inv, TypeOK, OneAtATime
  <2>9. StopState'
    BY CallsAssumption, <2>1, <2>3 DEF Inv, TypeOK, OneAtATime, StopState
  <2>10. QuietIsGone' /\ LaunchState'
    BY CallsAssumption, <2>3 DEF Inv, TypeOK, OneAtATime, QuietIsGone, LaunchState
  <2>11. AdmittedIsPast'
    BY <2>1, <2>3 DEF Inv, TypeOK, AdmittedIsPast, Tracker, Lease, NoLease
  <2>. QED
    BY <2>5, <2>6, <2>7, <2>8, <2>9, <2>10, <2>11 DEF Inv
<1>. QED
  BY <1>1, <1>2 DEF Capture

LEMMA KillKeepsInv ==
  ASSUME Inv, NEW o \in Ops, Kill(o)
  PROVE  Inv'
  BY CallsAssumption DEF Inv, TypeOK, Places, Policies, OneAtATime, StopState, QuietIsGone,
                         LaunchState, AdmittedIsPast, Kill

LEMMA AwaitExitKeepsInv ==
  ASSUME Inv, NEW o \in Ops, AwaitExit(o)
  PROVE  Inv'
<1>1. pc[o] = "exiting" /\ view[o].taken
  BY DEF AwaitExit, Answered
<1>2. CASE Settle(o, "failed")
  <2>1. CASE runtime' = Observe(runtime, NoIdentity) /\ UNCHANGED expected
    <3>1. runtime' \in Tracker /\ runtime.generation <= runtime'.generation
      BY <2>1, ObserveFacts DEF Inv, TypeOK
    <3>. QED
      BY <1>1, <1>2, <2>1, <3>1, SettleKeepsInv DEF Inv, TypeOK, AdmittedIsPast, Tracker, Lease,
                                                    NoLease
  <2>. QED
    BY <1>1, <1>2, <2>1 DEF AwaitExit, Settle, GoTo, Stopped, Inv, TypeOK
<1>3. CASE Stopped(o)
  BY <1>1, <1>3, StoppedKeepsInv
<1>4. CASE /\ GoTo(o, "exiting") /\ quiet' = 0 /\ refused < MaxRefused /\ refused' = refused + 1
           /\ UNCHANGED <<runtime, stopping, captured, launchVars, expected>>
  BY CallsAssumption, MaxRefusedAssumption, <1>1, <1>4
     DEF Inv, TypeOK, Places, Policies, OneAtATime, StopState, QuietIsGone, LaunchState,
         AdmittedIsPast, GoTo
<1>5. CASE /\ GoTo(o, "exiting") /\ view[o].processes = {} /\ quiet' = 1
           /\ UNCHANGED <<runtime, stopping, captured, refused, launchVars, expected>>
  BY CallsAssumption, <1>1, <1>5
     DEF Inv, TypeOK, Places, Policies, OneAtATime, StopState, QuietIsGone, LaunchState,
         AdmittedIsPast, GoTo
<1>. QED
  BY <1>2, <1>3, <1>4, <1>5 DEF AwaitExit

LEMMA ResolveKeepsInv ==
  ASSUME Inv, NEW o \in Ops, Resolve(o)
  PROVE  Inv'
  BY CallsAssumption DEF Inv, TypeOK, Places, Policies, OneAtATime, StopState, QuietIsGone,
                         LaunchState, AdmittedIsPast, Resolve, GoTo

LEMMA LaunchKeepsInv ==
  ASSUME Inv, NEW o \in Ops, Launch(o)
  PROVE  Inv'
<1>1. CASE view[o].processes # {}
  <2>1. runtime' = Observe(runtime, NoIdentity) /\ Settle(o, "failed") /\ UNCHANGED expected
    BY <1>1 DEF Launch
  <2>2. runtime' \in Tracker /\ runtime.generation <= runtime'.generation
    BY <2>1, ObserveFacts DEF Inv, TypeOK
  <2>3. pc[o] \in Started
    BY DEF Launch, Answered
  <2>4. expected' \in Lease \cup {NoLease} /\ expected'.generation <= runtime'.generation
    BY <2>1, <2>2 DEF Inv, TypeOK, AdmittedIsPast, Tracker, Lease, NoLease
  <2>. QED
    BY <2>1, <2>2, <2>3, <2>4, SettleKeepsInv
<1>2. CASE view[o].processes = {}
  <2>1. TypeOK'
    <3>1. GoTo(o, "watching") /\ UNCHANGED <<runtime, stopVars, launchVars, expected>>
      BY <1>2 DEF Launch
    <3>2. pc' \in Pcs /\ view' \in Views
      BY <3>1, MoveKeepsTypes DEF GoTo, Inv
    <3>. QED
      BY <3>1, <3>2 DEF Inv, TypeOK, GoTo, Pcs, Views
  <2>2. /\ pc[o] = "checking" /\ view[o].taken
        /\ pc' = [pc EXCEPT ![o] = "watching"] /\ view' = [view EXCEPT ![o] = NotTaken]
        /\ UNCHANGED <<policy, alive, started, line, kind, runtime, stopVars, launchVars, expected>>
    BY <1>2 DEF Launch, Answered, GoTo
  <2>3. Places'
    BY CallsAssumption, <2>2 DEF Inv, TypeOK, Places
  <2>4. Policies' /\ AdmittedIsPast'
    BY <2>2 DEF Inv, Policies, AdmittedIsPast
  <2>5. OneAtATime' /\ StopState'
    BY CallsAssumption, <2>2 DEF Inv, TypeOK, OneAtATime, StopState
  <2>6. QuietIsGone' /\ LaunchState'
    BY CallsAssumption, <1>2, <2>2 DEF Inv, TypeOK, QuietIsGone, LaunchState
  <2>. QED
    BY <2>1, <2>3, <2>4, <2>5, <2>6 DEF Inv
<1>. QED
  BY <1>1, <1>2

LEMMA WatchKeepsInv ==
  ASSUME Inv, NEW o \in Ops, NEW main \in Identities \cup {NoIdentity}, Watch(o, main)
  PROVE  Inv'
<1>1. runtime' \in Tracker /\ runtime.generation <= runtime'.generation
  BY ObserveFacts DEF Watch, Inv, TypeOK, Tracker
<1>2. CASE Settle(o, "done")
  BY <1>1, <1>2, SettleKeepsInv
     DEF Watch, Answered, Inv, TypeOK, AdmittedIsPast, Tracker, Lease, NoLease
<1>3. CASE GoTo(o, "watching") /\ UNCHANGED <<stopVars, launchVars>>
  BY CallsAssumption, <1>1, <1>3
     DEF Inv, TypeOK, Places, Policies, OneAtATime, StopState, QuietIsGone, LaunchState,
         AdmittedIsPast, Watch, Answered, GoTo, Tracker, Lease, NoLease
<1>. QED
  BY <1>2, <1>3 DEF Watch

LEMMA ProbeKeepsInv ==
  ASSUME Inv, NEW c \in Probes, Probe(c)
  PROVE  Inv'
  BY CallsAssumption DEF Inv, TypeOK, Places, Policies, OneAtATime, StopState, QuietIsGone,
                         LaunchState, AdmittedIsPast, Probe, ProbeKind

LEMMA ProbeFailsKeepsInv ==
  ASSUME Inv, NEW c \in Probes, ProbeFails(c)
  PROVE  Inv'
  BY CallsAssumption DEF Inv, TypeOK, Places, Policies, OneAtATime, StopState, QuietIsGone,
                         LaunchState, AdmittedIsPast, ProbeFails

(* Neither kind of probe gives a lease while a stop is killing its processes: *)
(* an inspection looks at stopInProgress, and assertions have no stops.        *)
LEMMA ProbeAnsweredKeepsInv ==
  ASSUME Inv, NEW c \in Probes, ProbeAnswered(c)
  PROVE  Inv'
<1>1. PICK main \in Identities \cup {NoIdentity} : Inspect(c, main) \/ AssertLease(c, main)
  BY DEF ProbeAnswered
<1>2. /\ runtime' \in Tracker /\ runtime.generation <= runtime'.generation
      /\ pc' = [pc EXCEPT ![c] = "done"] \/ pc' = [pc EXCEPT ![c] = "failed"]
  BY <1>1, ObserveFacts DEF Inspect, Inspected, AssertLease, Inv, TypeOK, Tracker
<1>3. (\E o \in Ops : pc[o] \in {"killing", "exiting"}) => runtime' = runtime
  BY <1>1 DEF Inspect, Inspected, AssertLease, Inv, StopState, Policies
<1>4. TypeOK'
  <2>1. pc' \in Pcs /\ view' \in Views
    BY <1>2, MoveKeepsTypes DEF ProbeAnswered, Inv
  <2>. QED
    BY <1>2, <2>1 DEF Inv, TypeOK, ProbeAnswered, Pcs, Views
<1>5. Places' /\ Policies'
  BY CallsAssumption, <1>2, <1>3
     DEF Inv, TypeOK, Places, Policies, ProbeAnswered, Tracker, Lease, NoLease
<1>6. OneAtATime' /\ StopState'
  BY CallsAssumption, <1>2, <1>3
     DEF Inv, TypeOK, Places, OneAtATime, StopState, ProbeAnswered, Tracker, Lease, NoLease
<1>7. QuietIsGone' /\ LaunchState'
  BY CallsAssumption, <1>2, <1>3
     DEF Inv, TypeOK, Places, OneAtATime, StopState, QuietIsGone, LaunchState, ProbeAnswered,
         Tracker, Lease, NoLease
<1>8. AdmittedIsPast'
  BY CallsAssumption, <1>2, <1>3
     DEF Inv, TypeOK, AdmittedIsPast, ProbeAnswered, Tracker, Lease, NoLease
<1>. QED
  BY <1>4, <1>5, <1>6, <1>7, <1>8 DEF Inv

-----------------------------------------------------------------------------

LEMMA StepKeepsInv == Inv /\ [Next]_vars => Inv'
<1>. SUFFICES ASSUME Inv, [Next]_vars PROVE Inv'
  OBVIOUS
<1>1. CASE \E i \in Identities : Appear(i) \/ Exit(i)
  BY <1>1, AppearKeepsInv, ExitKeepsInv
<1>2. CASE \E o \in Ops, k \in OpKinds : Submit(o, k)
  BY <1>2, SubmitKeepsInv
<1>3. CASE \E o \in Ops : OpStep(o) \/ Fail(o)
  <2>1. PICK o \in Ops : OpStep(o) \/ Fail(o)
    BY <1>3
  <2>2. CASE \E main \in Identities \cup {NoIdentity} :
               Require(o, main) \/ Ensure(o, main) \/ Capture(o, main) \/ Watch(o, main)
    BY <2>2, RequireKeepsInv, EnsureKeepsInv, CaptureKeepsInv, WatchKeepsInv
  <2>3. CASE Begin(o) \/ Kill(o) \/ AwaitExit(o) \/ Resolve(o) \/ Launch(o) \/ Fail(o)
    BY <2>3, BeginKeepsInv, KillKeepsInv, AwaitExitKeepsInv, ResolveKeepsInv, LaunchKeepsInv,
       FailKeepsInv
  <2>. QED
    BY <2>1, <2>2, <2>3 DEF OpStep
<1>4. CASE \E c \in Probes : Probe(c) \/ ProbeAnswered(c) \/ ProbeFails(c)
  BY <1>4, ProbeKeepsInv, ProbeAnsweredKeepsInv, ProbeFailsKeepsInv
<1>5. CASE \E c \in Calls : List(c)
  BY <1>5, ListKeepsInv
<1>6. CASE UNCHANGED vars
  BY <1>6 DEF Inv, TypeOK, Places, Policies, OneAtATime, StopState, QuietIsGone, LaunchState,
              AdmittedIsPast, vars
<1>. QED
  BY <1>1, <1>2, <1>3, <1>4, <1>5, <1>6 DEF Next

(* The state of the supervisor keeps its type. *)
THEOREM TypeCorrect == Spec => []TypeOK
<1>1. Inv => TypeOK
  BY DEF Inv
<1>. QED
  BY <1>1, InitInv, StepKeepsInv, PTL DEF Spec

(* No lease is current from the capture of a stop's processes to its end.    *)
THEOREM StoppingHasNoLease == Spec => []NoLeaseWhileStopping
<1>1. Inv => NoLeaseWhileStopping
  BY DEF Inv, StopState, NoLeaseWhileStopping, Observed
<1>. QED
  BY <1>1, InitInv, StepKeepsInv, PTL DEF Spec

(* How the place of an operation can change, as far as the theorems need it. *)
LEMMA StepMoves ==
  ASSUME Inv, [Next]_vars, NEW o \in Ops, pc'[o] # pc[o], pc[o] \in {"exiting", "watching"}
  PROVE  \/ pc'[o] = "failed"
         \/ AwaitExit(o)
         \/ \E main \in Identities \cup {NoIdentity} : Watch(o, main)
<1>1. pc \in Pcs
  BY DEF Inv, TypeOK, Pcs
<1>2. CASE \E q \in Ops : OpStep(q) \/ Fail(q)
  <2>1. PICK q \in Ops : OpStep(q) \/ Fail(q)
    BY <1>2
  <2>2. \E p : pc' = [pc EXCEPT ![q] = p]
    BY <2>1 DEF OpStep, Fail, Begin, Require, Ensure, Capture, Watch, Kill, AwaitExit, Resolve,
                Launch, Stopped, GoTo, Settle
  <2>3. q = o
    BY <1>1, <2>2 DEF Pcs
  <2>. QED
    BY <1>1, <2>1, <2>3 DEF OpStep, Fail, Begin, Require, Ensure, Capture, Kill, Resolve, Launch,
                      Settle, Answered, Pcs
<1>3. CASE \E c \in Probes : Probe(c) \/ ProbeAnswered(c) \/ ProbeFails(c)
  BY CallsAssumption, <1>1, <1>3
     DEF Probe, ProbeAnswered, Inspect, AssertLease, ProbeFails, Pcs
<1>4. CASE \E p \in Ops, k \in OpKinds : Submit(p, k)
  BY <1>1, <1>4 DEF Submit, Pcs
<1>. QED
  BY <1>2, <1>3, <1>4 DEF Next, Appear, Exit, List, vars

(* A stop completes only when every process it captured is gone. *)
THEOREM StopsAreVerified == Spec => StopIsVerified
<1>1. Inv /\ [Next]_vars =>
        [\A o \in Ops : pc[o] = "exiting" /\ pc'[o] \in {"done", "resolving"}
                        => captured \cap alive = {}]_vars
  <2>. SUFFICES ASSUME Inv, [Next]_vars, NEW o \in Ops,
                       pc[o] = "exiting", pc'[o] \in {"done", "resolving"}
                PROVE  captured \cap alive = {}
    OBVIOUS
  <2>1. AwaitExit(o)
    BY StepMoves DEF Watch, Answered
  <2>2. view[o].taken /\ view[o].processes = {}
    BY <2>1 DEF AwaitExit, Answered, Settle, GoTo, Inv, TypeOK
  <2>. QED
    BY <2>2 DEF Inv, QuietIsGone
<1>. QED
  BY <1>1, InitInv, StepKeepsInv, PTL DEF Spec, StopIsVerified

(* A launch is credited only with a process that was not there before it.    *)
THEOREM LaunchesAreNew == Spec => LaunchedIsNew
<1>1. Inv /\ [Next]_vars =>
        [\A o \in Ops : pc[o] = "watching" /\ pc'[o] = "done"
                        => runtime'.generation > before /\ runtime'.current \notin old]_vars
  <2>. SUFFICES ASSUME Inv, [Next]_vars, NEW o \in Ops, pc[o] = "watching", pc'[o] = "done"
                PROVE  runtime'.generation > before /\ runtime'.current \notin old
    OBVIOUS
  <2>1. PICK main \in Identities \cup {NoIdentity} : Watch(o, main)
    BY StepMoves DEF AwaitExit, Answered
  <2>2. main # NoIdentity /\ runtime'.generation > before
    BY <2>1 DEF Watch, GoTo, Inv, TypeOK
  <2>3. runtime'.current = main
    BY <2>1, <2>2, ObserveFacts DEF Watch, Inv, TypeOK
  <2>4. view[o].taken /\ view[o].processes = {main}
    BY <2>1, <2>2 DEF Watch, Answered, IsMain, Inv, TypeOK
  <2>. QED
    BY <2>2, <2>3, <2>4 DEF Inv, LaunchState
<1>. QED
  BY <1>1, InitInv, StepKeepsInv, PTL DEF Spec, LaunchedIsNew

(* Generations only grow, so an admitted process that was once seen replaced *)
(* is never proved current again, whatever listing an assertion still holds  *)
(* (ClassicSupervisor.ts:164).                                               *)
THEOREM ReplacementsAreFinal == Spec => ReplacementIsFinal
<1>1. Inv /\ [Next]_vars =>
        [\A c \in Probes :
           /\ kind[c] = "assert" /\ pc[c] = "probing" /\ pc'[c] = "done"
           => runtime.generation = expected.generation]_vars
  <2>. SUFFICES ASSUME Inv, [Next]_vars, NEW c \in Probes,
                       kind[c] = "assert", pc[c] = "probing", pc'[c] = "done"
                PROVE  runtime.generation = expected.generation
    OBVIOUS
  <2>1. pc \in Pcs
    BY DEF Inv, TypeOK, Pcs
  <2>2. ProbeAnswered(c)
    <3>1. CASE \E q \in Ops : OpStep(q) \/ Fail(q)
      <4>1. PICK q \in Ops : \E p : pc' = [pc EXCEPT ![q] = p]
        BY <3>1 DEF OpStep, Fail, Begin, Require, Ensure, Capture, Watch, Kill, AwaitExit, Resolve,
                    Launch, Stopped, GoTo, Settle
      <4>. QED
        BY CallsAssumption, <2>1, <4>1 DEF Pcs
    <3>2. CASE \E q \in Probes : Probe(q) \/ ProbeAnswered(q) \/ ProbeFails(q)
      BY <2>1, <3>2 DEF Probe, ProbeAnswered, Inspect, AssertLease, ProbeFails, Pcs
    <3>3. CASE \E p \in Ops, k \in OpKinds : Submit(p, k)
      BY CallsAssumption, <2>1, <3>3 DEF Submit, Pcs
    <3>. QED
      BY <3>1, <3>2, <3>3 DEF Next, Appear, Exit, List, vars
  <2>3. PICK main \in Identities \cup {NoIdentity} : AssertLease(c, main)
    BY <2>2 DEF ProbeAnswered, Inspect
  <2>4. LeaseIsCurrent(runtime', expected)
    BY <2>1, <2>3 DEF AssertLease, Pcs
  <2>5. runtime'.generation = expected.generation
    BY <2>4 DEF LeaseIsCurrent, CurrentLease, Inv, TypeOK, Lease, NoLease
  <2>6. runtime.generation <= runtime'.generation
    BY <2>3, ObserveFacts DEF AssertLease, Inv, TypeOK
  <2>. QED
    BY <2>5, <2>6 DEF Inv, TypeOK, AdmittedIsPast, Tracker, Lease, NoLease
<1>. QED
  BY <1>1, InitInv, StepKeepsInv, PTL DEF Spec, ReplacementIsFinal

=============================================================================

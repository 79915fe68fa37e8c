--------------------------- MODULE ClassicSupervisor ---------------------------
(***************************************************************************)
(* The supervisor of the ChatGPT Classic process                           *)
(* (runtime/ClassicSupervisor.ts, runtime/ProcessInspector.ts).            *)
(*                                                                         *)
(* Lifecycle operations run one at a time behind lifecycleTail.  The       *)
(* inspections of health and the lease assertions of a bound runtime run   *)
(* beside them.  Every inspection is a command: the processes it lists are *)
(* those of some moment between its call and its answer, and its answer    *)
(* may find a world that has moved on, a lifecycle operation included.     *)
(* Processes start and exit by themselves as well; a launch only asks for  *)
(* one, which appears later.                                               *)
(*                                                                         *)
(* A process stands for a main process with its children.                  *)
(***************************************************************************)
EXTENDS RuntimeGeneration, Sequences, FiniteSets

CONSTANTS
  Ops,          \* lifecycle calls, each made at most once
  Probes,       \* inspections of health and assertions, each made at most once
  MaxRefused    \* bound on the inspections that make a wait start again

ASSUME CallsAssumption == Ops \cap Probes = {}
ASSUME MaxRefusedAssumption == MaxRefused \in Nat

VARIABLES
  policy,       \* the controller's ClassicPolicy
  alive,        \* the processes there are
  started,      \* history: every process there ever was
  runtime,      \* tracker
  stopping,     \* stopInProgress
  line,         \* lifecycleTail: the operations not yet settled, in order
  kind, pc,     \* of each operation and probe
  view,         \* the processes its inspection has listed
  captured,     \* previousIdentities of the stop in progress
  quiet,        \* quiescentObservations
  refused,      \* the inspections that found a captured process
  before,       \* generationBeforeLaunch
  old,          \* history: every process up to that moment
  expected      \* the lease requireExisting() returned

worldVars == <<alive, started>>
stopVars == <<stopping, captured, quiet, refused>>
launchVars == <<before, old>>
vars == <<policy, worldVars, runtime, stopVars, line, kind, pc, view, launchVars, expected>>

Calls == Ops \cup Probes

NotTaken == [taken |-> FALSE, processes |-> {}]

NoLease == [generation |-> 0, identity |-> NoIdentity]

OpKinds == IF policy = "MANAGED" THEN {"ensure", "stop", "restart"} ELSE {"require"}

ProbeKind == IF policy = "MANAGED" THEN "inspect" ELSE "assert"

(* Where an operation awaits the answer of an inspection. *)
Inspecting == {"required", "inspected", "capturing", "exiting", "checking", "watching", "probing"}

Init ==
  /\ policy \in {"MANAGED", "BOUND_EXISTING"}
  /\ alive \in {{}} \cup {{i} : i \in Identities}
  /\ started = alive
  /\ runtime = InitialTracker
  /\ stopping = FALSE
  /\ captured = {} /\ quiet = 0 /\ refused = 0
  /\ line = <<>>
  /\ kind = [c \in Calls |-> "none"]
  /\ pc = [c \in Calls |-> "new"]
  /\ view = [c \in Calls |-> NotTaken]
  /\ before = 0 /\ old = {}
  /\ expected = NoLease

-----------------------------------------------------------------------------
(* The world.                                                               *)

Appear(i) ==
  /\ i \notin started
  /\ alive' = alive \cup {i}
  /\ started' = started \cup {i}
  /\ UNCHANGED <<policy, runtime, stopVars, line, kind, pc, view, launchVars, expected>>

Exit(i) ==
  /\ i \in alive
  /\ alive' = alive \ {i}
  /\ UNCHANGED <<policy, started, runtime, stopVars, line, kind, pc, view, launchVars, expected>>

(* getClassicProcesses() lists the processes of this moment. *)
List(c) ==
  /\ pc[c] \in Inspecting
  /\ ~ view[c].taken
  /\ view' = [view EXCEPT ![c] = [taken |-> TRUE, processes |-> alive]]
  /\ UNCHANGED <<policy, worldVars, runtime, stopVars, line, kind, pc, launchVars, expected>>

(* selectUniqueMainProcess() throws when there are several. *)
IsMain(processes, id) ==
  IF processes = {} THEN id = NoIdentity ELSE processes = {id}

-----------------------------------------------------------------------------
(* The lifecycle line.                                                      *)

(* The server calls requireExisting() once, before it listens. *)
Submit(o, k) ==
  /\ pc[o] = "new"
  /\ k \in OpKinds
  /\ k = "require" => line = <<>> /\ expected = NoLease
  /\ kind' = [kind EXCEPT ![o] = k]
  /\ pc' = [pc EXCEPT ![o] = "queued"]
  /\ line' = Append(line, o)
  /\ UNCHANGED <<policy, worldVars, runtime, stopVars, view, launchVars, expected>>

(* lifecycleTail.then(): the operation before has settled. *)
MayBegin(o) == line # <<>> /\ Head(line) = o

(* The operation goes to its next await, with a new inspection if it is one. *)
GoTo(o, p) ==
  /\ pc' = [pc EXCEPT ![o] = p]
  /\ view' = [view EXCEPT ![o] = NotTaken]
  /\ UNCHANGED <<policy, worldVars, line, kind>>

Begin(o) ==
  /\ pc[o] = "queued"
  /\ MayBegin(o)
  /\ GoTo(o, CASE kind[o] = "require" -> "required"
               [] kind[o] = "ensure"  -> "inspected"
               [] OTHER               -> "capturing")
  /\ stopping' = (stopping \/ kind[o] \in {"stop", "restart"})
  /\ UNCHANGED <<runtime, captured, quiet, refused, launchVars, expected>>

Settle(o, result) ==
  /\ pc' = [pc EXCEPT ![o] = result]
  /\ view' = [view EXCEPT ![o] = NotTaken]
  /\ line' = Tail(line)
  /\ stopping' = FALSE
  /\ captured' = {} /\ quiet' = 0 /\ refused' = 0
  /\ UNCHANGED <<policy, worldVars, kind, launchVars>>

(* An inspection or a command fails, a wait times out, or the caller aborts. *)
Fail(o) ==
  /\ pc[o] \in {"queued", "killing", "resolving"} \cup Inspecting
  /\ pc[o] = "queued" => MayBegin(o)
  /\ Settle(o, "failed")
  /\ UNCHANGED <<runtime, expected>>

(* The processes an answered inspection lists. *)
Answered(c, p, processes) == pc[c] = p /\ view[c].taken /\ processes = view[c].processes

Require(o, main) ==
  /\ Answered(o, "required", view[o].processes)
  /\ IsMain(view[o].processes, main)
  /\ runtime' = Observe(runtime, main)
  /\ Settle(o, IF main = NoIdentity THEN "failed" ELSE "done")
  /\ expected' = IF main = NoIdentity THEN expected ELSE CurrentLease(runtime')

(* inspect(): a stop in progress keeps the tracker as it is. *)
Inspected(main) == IF stopping THEN runtime ELSE Observe(runtime, main)

(* ensureStarted() goes on to a launch if nothing runs. *)
Ensure(o, main) ==
  /\ Answered(o, "inspected", view[o].processes)
  /\ IsMain(view[o].processes, main)
  /\ runtime' = Inspected(main)
  /\ \/ /\ main # NoIdentity
        /\ Settle(o, "done")
        /\ UNCHANGED expected
     \/ /\ main = NoIdentity
        /\ GoTo(o, "resolving")
        /\ before' = runtime'.generation /\ old' = started
        /\ UNCHANGED <<stopVars, expected>>

(* The stop is over: a restart launches next. *)
Stopped(o) ==
  /\ runtime' = Observe(runtime, NoIdentity)
  /\ IF kind[o] = "restart"
       THEN /\ GoTo(o, "resolving")
            /\ before' = runtime'.generation /\ old' = started
            /\ stopping' = FALSE /\ captured' = {} /\ quiet' = 0 /\ refused' = 0
       ELSE Settle(o, "done")
  /\ UNCHANGED expected

Capture(o, main) ==
  /\ Answered(o, "capturing", view[o].processes)
  /\ IsMain(view[o].processes, main)
  /\ \/ /\ main = NoIdentity
        /\ Stopped(o)
     \/ /\ main # NoIdentity
        /\ runtime' = Observe(Observe(runtime, main), NoIdentity)
        /\ captured' = {main}
        /\ GoTo(o, "killing")
        /\ UNCHANGED <<stopping, quiet, refused, launchVars, expected>>

(* The stop command ends, by itself or by its timeout, having killed or not. *)
Kill(o) ==
  /\ pc[o] = "killing"
  /\ alive' \in {alive, alive \ captured}
  /\ pc' = [pc EXCEPT ![o] = "exiting"]
  /\ view' = [view EXCEPT ![o] = NotTaken]
  /\ UNCHANGED <<policy, started, line, kind, runtime, stopVars, launchVars, expected>>

(* Mutant of AwaitExit: it is not asked whether a captured process remains. *)
AwaitExitUnasked(o) ==
  /\ Answered(o, "exiting", view[o].processes)
  /\ view[o].processes \subseteq captured
  /\ IF quiet = 0
       THEN /\ quiet' = 1
            /\ GoTo(o, "exiting")
            /\ UNCHANGED <<runtime, stopping, captured, refused, launchVars, expected>>
       ELSE Stopped(o)

(* Mutant of AwaitExit: it takes more quiet observations than are required. *)
AwaitExitTooLong(o) ==
  /\ Answered(o, "exiting", view[o].processes)
  /\ view[o].processes = {}
  /\ IF quiet < 2
       THEN /\ quiet' = quiet + 1
            /\ GoTo(o, "exiting")
            /\ UNCHANGED <<runtime, stopping, captured, refused, launchVars, expected>>
       ELSE Stopped(o)

(* A process that was not captured ends the stop; two quiet observations in a *)
(* row complete it.                                                           *)
AwaitExit(o) ==
  /\ Answered(o, "exiting", view[o].processes)
  /\ \/ /\ ~ view[o].processes \subseteq captured
        /\ runtime' = Observe(runtime, NoIdentity)
        /\ Settle(o, "failed")
        /\ UNCHANGED expected
     \/ /\ view[o].processes \subseteq captured
        /\ view[o].processes # {}
        /\ refused < MaxRefused
        /\ refused' = refused + 1
        /\ quiet' = 0
        /\ GoTo(o, "exiting")
        /\ UNCHANGED <<runtime, stopping, captured, launchVars, expected>>
     \/ /\ view[o].processes = {}
        /\ quiet = 0
        /\ quiet' = 1
        /\ GoTo(o, "exiting")
        /\ UNCHANGED <<runtime, stopping, captured, refused, launchVars, expected>>
     \/ /\ view[o].processes = {}
        /\ quiet = 1
        /\ Stopped(o)

(* The installation is resolved; what is there before the launch is listed. *)
Resolve(o) ==
  /\ pc[o] = "resolving"
  /\ GoTo(o, "checking")
  /\ UNCHANGED <<runtime, stopVars, launchVars, expected>>

(* Mutant of Launch: what is there before the launch is not looked at. *)
LaunchUnchecked(o) ==
  /\ Answered(o, "checking", view[o].processes)
  /\ GoTo(o, "watching")
  /\ UNCHANGED <<runtime, stopVars, launchVars, expected>>

Launch(o) ==
  /\ Answered(o, "checking", view[o].processes)
  /\ IF view[o].processes # {}
       THEN /\ runtime' = Observe(runtime, NoIdentity)
            /\ Settle(o, "failed")
       ELSE /\ GoTo(o, "watching")
            /\ UNCHANGED <<runtime, stopVars, launchVars>>
  /\ UNCHANGED expected

(* The launch command returns; startNewGeneration() polls until the generation is a new one. *)
Watch(o, main) ==
  /\ Answered(o, "watching", view[o].processes)
  /\ IsMain(view[o].processes, main)
  /\ runtime' = IF main = NoIdentity THEN runtime ELSE Observe(runtime, main)
  /\ IF main # NoIdentity /\ runtime'.generation > before
       THEN Settle(o, "done")
       ELSE GoTo(o, "watching") /\ UNCHANGED <<stopVars, launchVars>>
  /\ UNCHANGED expected

OpStep(o) ==
  \/ Begin(o)
  \/ \E main \in Identities \cup {NoIdentity} :
       Require(o, main) \/ Ensure(o, main) \/ Capture(o, main) \/ Watch(o, main)
  \/ Kill(o)
  \/ AwaitExit(o)
  \/ Resolve(o)
  \/ Launch(o)

-----------------------------------------------------------------------------
(* Beside the line.                                                         *)

Probe(c) ==
  /\ pc[c] = "new"
  /\ policy = "BOUND_EXISTING" => expected # NoLease
  /\ kind' = [kind EXCEPT ![c] = ProbeKind]
  /\ pc' = [pc EXCEPT ![c] = "probing"]
  /\ UNCHANGED <<policy, worldVars, runtime, stopVars, line, view, launchVars, expected>>

(* Mutant of Inspect: a stop in progress makes no difference. *)
InspectUnguarded(c, main) ==
  /\ kind[c] = "inspect"
  /\ runtime' = Observe(runtime, main)
  /\ pc' = [pc EXCEPT ![c] = "done"]

(* inspect() *)
Inspect(c, main) ==
  /\ kind[c] = "inspect"
  /\ runtime' = Inspected(main)
  /\ pc' = [pc EXCEPT ![c] = "done"]

(* Mutant of AssertLease: the process is compared, its generation is not. *)
AssertIdentity(c, main) ==
  /\ kind[c] = "assert"
  /\ runtime' = Observe(runtime, main)
  /\ pc' = [pc EXCEPT ![c] = IF main = expected.identity THEN "done" ELSE "failed"]

(* assertRuntimeLeaseCurrentObserved() *)
AssertLease(c, main) ==
  /\ kind[c] = "assert"
  /\ runtime' = Observe(runtime, main)
  /\ pc' = [pc EXCEPT ![c] = IF main = expected.identity /\ LeaseIsCurrent(runtime', expected)
                               THEN "done" ELSE "failed"]

ProbeAnswered(c) ==
  /\ Answered(c, "probing", view[c].processes)
  /\ \E main \in Identities \cup {NoIdentity} :
       /\ IsMain(view[c].processes, main)
       /\ Inspect(c, main) \/ AssertLease(c, main)
  /\ view' = [view EXCEPT ![c] = NotTaken]
  /\ UNCHANGED <<policy, worldVars, stopVars, line, kind, launchVars, expected>>

ProbeFails(c) ==
  /\ pc[c] = "probing"
  /\ pc' = [pc EXCEPT ![c] = "failed"]
  /\ view' = [view EXCEPT ![c] = NotTaken]
  /\ UNCHANGED <<policy, worldVars, runtime, stopVars, line, kind, launchVars, expected>>

-----------------------------------------------------------------------------

Next ==
  \/ \E i \in Identities : Appear(i) \/ Exit(i)
  \/ \E o \in Ops, k \in OpKinds : Submit(o, k)
  \/ \E o \in Ops : OpStep(o) \/ Fail(o)
  \/ \E c \in Probes : Probe(c) \/ ProbeAnswered(c) \/ ProbeFails(c)
  \/ \E c \in Calls : List(c)

Spec == Init /\ [][Next]_vars

-----------------------------------------------------------------------------
(* Properties.                                                              *)

(* Every variable has its type; the count of quiet observations stays below *)
(* the two that complete a stop.                                            *)
TypeOK ==
  /\ policy \in {"MANAGED", "BOUND_EXISTING"}
  /\ alive \subseteq started /\ started \subseteq Identities
  /\ runtime \in Tracker
  /\ stopping \in BOOLEAN
  /\ line \in Seq(Ops)
  /\ kind \in [Calls -> {"none", "require", "ensure", "stop", "restart", "inspect", "assert"}]
  /\ pc \in [Calls -> {"new", "queued", "killing", "resolving", "done", "failed"} \cup Inspecting]
  /\ view \in [Calls -> [taken : BOOLEAN, processes : SUBSET Identities]]
  /\ captured \subseteq Identities /\ old \subseteq started
  /\ quiet \in 0..1 /\ refused \in 0..MaxRefused
  /\ before \in Nat
  /\ expected \in Lease \cup {NoLease}

(* From the moment a stop has captured its processes until it ends, nobody  *)
(* holds or is given a current lease: not even an inspection of health that *)
(* has listed the dying process before and answers now.                     *)
NoLeaseWhileStopping == stopping /\ captured # {} => ~ Observed(runtime)

(* A stop completes, and a restart goes on to its launch, only when every   *)
(* captured process is gone, whatever the stop command did or reported.     *)
StopIsVerified ==
  [][\A o \in Ops : pc[o] = "exiting" /\ pc'[o] \in {"done", "resolving"}
                     => captured \cap alive = {}]_vars

(* A launch succeeds only with a process that was not there, alive or not   *)
(* yet gone, when the launch was decided on, under a generation later than  *)
(* all those before: what a late listing shows of an old process is never   *)
(* taken for the launched one.                                              *)
LaunchedIsNew ==
  [][\A o \in Ops : pc[o] = "watching" /\ pc'[o] = "done"
                     => runtime'.generation > before /\ runtime'.current \notin old]_vars

(* A server bound to an existing process never adopts another: once any     *)
(* assertion has seen another process in its place, every assertion fails   *)
(* for good, those that listed the admitted process before and answer late  *)
(* included.  One that finds no process fails as well, but is not final: an *)
(* earlier listing of the admitted process that answers after it passes.    *)
ReplacementIsFinal ==
  [][\A c \in Probes :
       /\ kind[c] = "assert" /\ pc[c] = "probing" /\ pc'[c] = "done"
       => runtime.generation = expected.generation]_vars

=============================================================================

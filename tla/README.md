# Threadwire: verification project

Threadwire drives one ChatGPT Classic window through the Chrome DevTools Protocol (CDP) and
offers conversations over a local HTTP server. There is one page, and it belongs to somebody
else's program: a message typed into the wrong conversation, or sent twice, cannot be taken
back. What the code promises is therefore mostly negative. Nothing may touch the page while
something else does, while it is not known what an earlier operation did to it, or after the
process behind it has been replaced.

This directory holds TLA+ modules of that machinery, the TLC configurations that check them,
and theorems about them that TLAPS proves. Paths below are relative to the repository;
`file.ts:12` names a line.

Run everything from this directory: `tlc -workers 2 -config X.cfg MCModule` checks a model,
`tlapm XProofs.tla` checks proofs. `PROJECT.json` lists the runs, the mutants that show each
property can fail, the lines each definition stands for, the hazards and the theorems.

## 1. The system

### Components, their state and their operations

| Component | State | Operations |
|---|---|---|
| HTTP server (`api/ThreadwireHttpServer.ts`) | count of requests in flight, one delivery per response | admission, parsing, streaming of events, confirmation of a Project turn when its response was delivered, its rollback when it was not |
| Controller and turn queue (`controller/ThreadwireController.ts`, `ControllerTurnQueue.ts`) | pending and active entries; `pendingCompletionBarrier`, `pendingCompletionResults` | turns, Project creation, recovery, health, close |
| Conversation router (`routing/ConversationRouter.ts`) | none | one ROUTE operation: navigate, wait until ready |
| Mutation scheduler (`routing/OperationScheduler.ts`) | FIFO queue, `running`, `uncertainLease` | `schedule`, `drain`, `markRuntimeMutationStateUncertain`, `assertMutationStateSafe` |
| Thread registry (`routing/ThreadRegistry.ts`) | three maps and a settlement for each transaction | register, reserve, commit, rollback, `waitForCommit` |
| Turn executor (`turn/TurnExecutor.ts`) | locals of one turn: deadlines, `previousLifecycle`, `freshLocator`, delivery state | preflight, insert, submit, poll for the outcome, deliver the response |
| Turn observation and response stream (`cdp/CdpTurnObservationTracker.ts`, `cdp/CdpResponseStreamTracker.ts`, `response/ResponseStreamConsumer.ts`) | the selected request with its lifecycle; activation, live chunks, event queue | network events, activation of the stream, polls of the executor |
| Readiness (`readiness/*.ts`) | `freshReadinessProof`, the counters of a gate | waits for a route or a composer, focuses it |
| Fresh notice budget (`readiness/FreshNoticeBudget.ts`, `cdp/KnownFreshNotice.ts`) | `spent`, and a record on disk | one dismissal of a known dialog |
| CDP session manager (`cdp/CdpSessionManager.ts`, `BoundCdpSessionManager.ts`) | `currentState`, `session`, `boundLease`; `immutableLease` | connect, disconnect, every command to the page |
| Chrome session and transport (`cdp/ChromeRemoteInterface*.ts`) | listeners, `closed` | protocol commands, page scripts |
| Classic supervisor (`runtime/ClassicSupervisor.ts`, `ProcessInspector.ts`) | generation tracker, `lifecycleTail`, `stopInProgress` | ensure, stop, restart, require, inspect, assert |
| Provenance (`runtime/BoundRuntimeProvenanceGuard.ts`, `CdpEndpointProvenance.ts`, `cdp/CdpTargetDiscovery.ts`) | bound endpoint | reads of the operating system and of an HTTP endpoint |
| Projects (`project/*.ts`) | a map that only grows | creation with retries, registration |

There are two policies. Under MANAGED, the supervisor starts and restarts the process. Under
BOUND_EXISTING it binds itself once to a process that is already there and serves no other: it
fails while that is not there, and for good once another was seen in its place.

### How they interact

A request enters the controller's queue; one is active at a time. The active one prepares the
runtime (supervisor, session manager), schedules a ROUTE and then a TURN operation, and each
captures at `schedule()` the *runtime lease* of that moment: the generation and identity of the
process. The scheduler checks the lease again when it runs the operation, and the session
manager checks it before and after every command. An operation that ends without knowing what
it did to the page marks its lease uncertain, and nothing runs under that lease again.

The turn executor arms an observation, inserts and submits, and polls. CDP events move the
observation along meanwhile. A Project turn reserves its conversation in the registry instead of
registering it; the queue slot is free when the turn returns, but a barrier holds back what is
active next until the HTTP handler has delivered the response (commit) or failed to (rollback,
which marks the lease).

### What is hard about it

JavaScript interleaves only at awaits, but nearly everything awaits: processes are inspected by
commands that answer late, network events arrive in any order, callers abort between and during
steps, listeners throw or abort synchronously, and what was read before an await is used after
it. The listed hazards name each place with its line. In short, per component:

| Component | Correct when |
|---|---|
| Scheduler | mutations never overlap, never run under a lease that was ever uncertain, are answered once, and none is forgotten |
| Registry | its maps stay inverse; a handle keeps its conversation; waiters are told the truth |
| Controller | a late rollback finds no other mutation in progress; a silent client blocks nobody for ever |
| Observation | what is called the write is the one request that was accepted; its text is whole and in order |
| Executor | success means the whole response was heard; no path hands over a page that is being written |
| Supervisor | a stop is verified; no lease survives into it; a launch is not credited with an old process; a bound runtime that was seen replaced is never admitted again |
| Session manager | no open session is forgotten, none is bound to the wrong process, no result counts for another session |
| Readiness | its proof is never older than the page it is used on; the notice is dismissed once |
| HTTP server | a Project conversation is confirmed exactly when its response was delivered; admission is returned |

## 2. Modules

`RuntimeGeneration` has the operators of `RuntimeGenerationTracker` (observe, current lease, is a
lease current) as functions on a tracker record. Every module that has leases extends it.

| Module | Models | State that corresponds |
|---|---|---|
| `OperationScheduler` | `routing/OperationScheduler.ts` | `queue`, `running`, `uncertainLease` as in the code; `status` and `lease` for the entries; `tainted` is history |
| `ThreadRegistry` | `routing/ThreadRegistry.ts` | `committed`, `handleOf`, `provisional`, `settlement` are the maps and promises; `waits` are the calls of `waitForCommit()` |
| `ThreadwireController` | controller, queue, completion barrier, both policies; instantiates `ThreadRegistry` and has the lease bookkeeping of the scheduler | `pending`, `active`, `barrier`, `unsettled` as in the code; `bound` is `boundRuntimeLease`; `pc` for where each request awaits |
| `ThreadwireHttpServer` | `api/ThreadwireHttpServer.ts` around the controller, which it extends: each step of a handler that calls the controller is one of its steps | `inflight` is `inflightTurns`; `http` has where each handler is with `transportOpen`, `domainCompleted` and `response.destroyed` |
| `ReadinessController` | the three ROUTE operations, `readiness/*.ts`, the notice budget and `dismissKnownFreshNotice()` | `wait` is the wait in progress with its `gate`; `proof` is `freshReadinessProof`; `spent`, `record` are the budget's; `page` is what Chrome shows; `proven`, `presses` are history |
| `TurnObservation` | the write observation, stream activation and consumer | `write` is `ActiveTurnObservation`, `stream` its tracker and consumer; `net` and `body` are what the network really does |
| `TurnExecutor` | one streamed turn; instantiates `TurnObservation` | `pc` is the await the turn is at; `polled`, `polledAge`, `locator` are the values read before it; `delivery` is `ResponseDeliveryState` |
| `TurnContract` | nothing: it is the abstract specification of a turn | what the scheduler and the caller rely on |
| `ClassicSupervisor` | supervisor and inspector | `line` is `lifecycleTail`, `stopping` `stopInProgress`; `view` is what a command has listed and not yet answered |
| `CdpSessionManager` | session manager of both policies, loss and listeners of a session | `state`, `session`, `boundLease`, `admitted` (`immutableLease`); `step` is where `connect()` is |

`MC<Module>` gives each its symmetry for TLC, `<Module>Proofs` its theorems (those about the
controller are with the server's, in `ThreadwireHttpServerProofs`). Operators called
"Mutant of ..." next to a definition are that definition with a plausible bug.

One action is the code between two awaits. Handles, locators, sessions, processes and requests are
model values. The main abstractions:

- *Executor.* The lease and the session serve a turn as `control`: ok, lost (which may heal) or
  changed (which may not). Time is `age`: 0, past the 15 s deadlines, past the 120 s ones; it is
  read at polls, as in the code. Of the text that arrives between two polls, one batch is taken.
  The listener is called event by event, as in the code: in one step it may abort at one event and
  throw at another, and what follows the abort is still delivered. It does not do both at the same
  event, as the HTTP listener never does. An ambiguous observation ends the turn and the network is
  not followed further. Only the path with a listener is modelled; the HTTP server has no other.
- *Observation.* A body is a sequence of records: text, done, a done without its blank line, or
  one that does not parse. Bytes and decoding are left out.
- *Registry.* A handle draw yields one that is free; the eight draws of the factory are its failure.
- *Controller.* The active request awaits every operation it schedules, so what is left of the
  scheduler is the lease an operation captures and the check that it is usable. The creation of a
  Project is two phases, before and after its attempt to mutate the page: the retries of the first
  change nothing that is modelled.
- *HTTP server.* Statuses, answers and the boundary checks are left out. Only promises lie between
  the result of a turn and its handler, so nothing from outside is heard there (`Quiet`); the last
  write of a response and its end are heard of by 'finish' and 'close' like everything else.
  'finish' means that the response was handed to the operating system, which is all the code knows.
- *Readiness.* The page moves whenever it likes, a commanded load included; its main frame and its
  tree are read by commands of their own. What a guard needs of time is `young` or `old`. The first
  `readCurrent()` of a wait is part of the step that selects its kind. Crashes are of the server:
  the page and the record of the intent survive, the marks and the latch do not.
- *Supervisor.* A process stands for a main process with its children. A command takes effect
  between its call and its answer. A stop command may kill what it captured and still fail.
- *Session manager.* A process that has ended does not come back (its identity has a creation
  time). A guard of the bound policy observes before and after the awaits of `connect()`; the
  guards before commands can only fail, and are part of `OperationFails`. Timeouts and aborts of
  `connect()` are failures that may come at any await. A session that cannot release what it held
  closes itself in the step in which its operation fails (`CloseItself`).

## 3. What the runs check

`CHECK_DEADLOCK FALSE` stands in the configurations whose calls are each made at most once: when
all are answered, nothing is left to do. `MCTurnObservation` and `MCReadinessController` have no end
and check deadlock.

**scheduler** (3 operations, 2 identities, 2 generations). `NoOverlap`,
`NoRunUnderTaintedLease`, `SettledIsFinal`, and with fairness `EveryOperationSettles`. Three
operations are one that runs, one that waits, one that comes; two identities are a replacement.

**registry** (2 handles, 2 locators, 3 transactions, 2 waiters). `MapsAgree`, `HandlesAreStable`,
`WaitersAreToldTheTruth`. A third transaction can reserve again what a rollback has freed, which is
where a waiter of the first could be misled.

**http** (3 requests, 2 handles, 2 locators, 2 identities, a queue of 2, 2 requests in flight;
615,414 states). `CommittedMeansDelivered`, `PendingCompletionExcludesMutations`,
`NoMutationUnderTaintedLease`, and in `HttpTypeOK` the count of the requests in flight. Three
requests: a Project turn, one that its barrier holds back, and one that is refused, or comes when
the first has been answered. With both limits 2 the queue fills but no call comes to a full one:
that case is covered by `QueueStaysBounded`, proved for all limits. Two identities are the process
that was admitted, or ran, and another one.
**controller_liveness** (2 requests) `EveryCallSettles`, of the controller with callers that may do
less than the server does.

**observation** (2 writes, bodies of up to 3 records, 2 live chunks, 2 queued events).
`FinishedIsTheWrite`, `SettledWriteClosesTheStream`, `TextIsInOrder`, `CompletedIsWhole`. Three
records against buffers of two overflow each; two writes make the observation ambiguous.

**executor** (each of THREAD, FRESH, PROJECT; 2 writes, 3 records, 2 locators, texts of 2).
`SettlesAfterTheWrite`, `SuccessIsWhole`, `ProjectTurnsFailClosed`, `CancellationEndsTheStream`, and
`RefinesContract`: under the mapping given in the module, every step of the executor is a step of
`TurnContract` or none. `CancellationEndsTheStream` says what a caller that cancels still hears:
nothing in a later step, and in the step in which it cancels, since the code does not look at the
signal between two events, at most the rest of the batch of deltas, or COMPLETED after FINAL_TEXT.
A Project turn, whose delivery is one step, says at most FINAL_TEXT then and never COMPLETED. Two
locators are a route that moves on between its two reads.
**executor_liveness** (1 write, 2 records) `TurnSettles`.

**supervisor** (3 processes, 2 lifecycle calls, 2 inspections or assertions, 1 refused
observation). `NoLeaseWhileStopping`, `StopIsVerified`, `LaunchedIsNew`, `ReplacementIsFinal`. Two
calls are one in progress and one in line; three processes are the old, the launched, and one that
somebody else starts. `ReplacementIsFinal` is about a replacement that was seen. An assertion that
finds no process at all fails too, but leaves the generation as it is: one that listed the admitted
process earlier and answers later still passes.

**session** (3 processes, 2 sessions, 1 operation, one `close()`; 2.6 million states).
`NoOrphans`, `LossIsNoticed` (but for a session that closed itself, see below),
`SessionIsOfItsLease`, `OneBinding`. Two sessions are one that is replaced and its replacement,
with an abort of an operation on the first still to come; three processes allow a second
replacement while `connect()` is under way.

**readiness** (all three routes, 2 documents, 2 composers, 1 notice, 1 dismissal; 4.6 million
states, about two and a half minutes). `ReadyIsEarned`, `OneDismissal`, `InputIsAccountedFor`. A
second document or composer is what replaces the one a gate has been watching. With one dismissal,
one that goes on after its wait was aborted meets a crash and another process, but no second one:
that case is covered by the proof only.

### Fairness

*Scheduler*: the drain loop goes on, and an operation that runs ends. The first is the event loop,
the second is what the executor run shows of turns; navigations have timeouts.
*Controller*: each request that can go on does (`Progress`). The delivery of a response is not
among these steps: a client may never read, and the barrier then ends by its timeout
(`ThreadwireController.ts:366`). *Executor*: the turn takes its steps and the clock goes on. Nothing
is assumed of the network, the caller or the runtime.

### Findings

Two runs end in a violation of what the repository says of itself.

`finding_thread_cancel`: two tests say that a turn cancelled after its submission keeps the page
until its write has settled (`tests/unit/turnExecutor.test.ts:567`,
`tests/unit/m6TurnExecutor.test.ts:810`). For an existing thread whose write is still ACTIVE, the
loop reaches `TurnExecutor.ts:626` in the same iteration and gives up at once, without a mark: the
next operation runs while the page is being written. The tests set the write to FINISHED before
the poll that follows the abort. `SettlesAfterTheWrite` excludes exactly this case, and
`TurnContract` has it as `Abandon`.

`finding_absent_deltas`: README.md:39 and 200 allow a response without deltas, with the rendered
text as `FINAL_TEXT`. The executor builds that text from the deltas and fails the turn when there
are none (`TurnExecutor.ts:890`).

### Behaviour the models contain and no property forbids

No document rules these out, so they are recorded here.

- An inspection of health that began before a stop and answers after it restores the lease of the
  process that was stopped until the next observation. One that answers after a replacement gives
  the live process a new generation (`ClassicSupervisor.ts:135`).
- A launch whose process appears after `NewProcessNotObservedError` is followed by another launch,
  and two main processes that every inspection rejects (`ClassicSupervisor.ts:377`).
- `close()` beside a `connect()` in flight disconnects nothing, and the session is installed
  afterwards; `currentState` may then say DISCONNECTED while there is a session
  (`CdpSessionManager.ts:262`). The next `connect()` disposes of it: `NoOrphans` holds.
- A session that cannot release the objects of the Project composer closes itself, with its
  listeners removed first (`ChromeRemoteInterfaceSession.ts:1323`, `:81`). Nobody tells the manager:
  it keeps the closed session as CONNECTED, and under the same lease `connect()` returns early
  (`CdpSessionManager.ts:192`) with a session whose commands fail, until it is
  disconnected, recovered, replaced under another lease or dropped by an abort. `LossIsNoticed`
  excepts exactly these sessions.
- A reload of the route is answered before its document is committed, so readiness may be proven on
  the document from before it, and the reload take effect during the turn. README.md:51 and
  SECURITY.md:33 say that no reload occurs while a request is active; when Chrome commits one is not
  the code's to decide, so no finding is made of it.
- A crash of the server forgets the uncertain mark; only the record of an intent survives it.
- `boundAdmission` keeps a rejected admission for as long as the process lives.
- The creation of a Project may fail or time out before `onMutationAttempted` with a dialog open, a
  name inserted, or an `insertText` under way at the deadline: the page has changed without a mark.
- The last test of the HTTP handler is of `transportOpen` alone. It is right because the listener
  has refused COMPLETED on a destroyed response, and only promises come in between; the proof of
  `CommittedMeansDelivered` shows where it is needed.
- Under MANAGED a session may be attached to another process than its lease's, but only after that
  one has ended, so its next check fails. `SessionIsOfItsLease` says this much.

## 4. What is proved

TLAPS proves these for every value of the constants, the assumptions being the named `ASSUME`s
(that `None`, `NoLease` and the like are no ordinary values, that bounds are natural numbers and the
two limits of the server positive, as its constructors insist, and that calls and inspections are
different things).

**OperationSchedulerProofs**: `TypeCorrect`, `MutualExclusion`, `TaintedLeaseIsDead`,
`AnswersAreFinal`. The scheduler remembers one uncertain lease and forgets it as soon as another is
current. That suffices because generations only grow: a tainted lease is older than any that will
be current, or it is of this generation and is the one remembered (`TaintInv`). `NoOverlap` needs
that whoever runs holds the `running` flag (`DrainInv`).

**ThreadRegistryProofs**: `TypeCorrect`, `MapsStayInverse`, `WaitersAreRight`, `HandlesStayStable`.
`MapsAgree` is inductive once a transaction is tied to the one handle it reserved
(`TransactionInv`). A waiter holds an entry: pending, it is still the entry of its handle;
committed, it has become the conversation of its handle (`WaitInv`).

**TurnObservationProofs**: `FinishedWriteIsReal`, `BuffersStayBounded`, `SettledResponseEnds`,
`TextIsReadInOrder`, `CompletedResponseIsWhole`, for bodies of any length. `WriteInv` relates
`ActiveTurnObservation` to what the requests really are, as long as the tracker has not given up on
them; while nothing is selected, nothing was sent since the observation was armed. `ResponseInv`
relates the response stream to the body of that write. `TextIsInOrder` alone is not inductive: it
does not say where the stream stands in the body. Until the streaming call is answered, what it
tapped and the live data after it are exactly what has arrived (`CatchesUp`); from then on what was
drained and what is queued list the texts of all that has arrived, no `done` among it, and a
stream that says it is complete lists those up to the record that ended it (`Reads`). A stream
that is given up is given up together with its write (`ResponseOwned`), and one whose write has
settled has ended or waits for an answer that will end it (`ResponseEnds`).

The answer to the call hands a whole batch of records to the parser, and the model folds over it
(`ConsumeAll`). The prover cannot use the library's induction theorems, whose parameter is an
operator, so the induction is one over a set: a set that holds zero and every successor holds all
numbers (`NatInductionOnSets`, from the least element of what it does not hold). It shows that the
fold goes through the batch in order, one record at a time (`ConsumeAllRuns`), and each record is
then one application of what was proved of a single one.

**ClassicSupervisorProofs**: `TypeCorrect`, `StoppingHasNoLease`, `StopsAreVerified`,
`LaunchesAreNew`, `ReplacementsAreFinal`. Only the head of the lifecycle line is past its beginning
(`OneAtATime`), so the state of a stop or of a launch is that operation's (`StopState`,
`LaunchState`). A process that has gone does not come back, so one quiet observation proves the
captured ones gone (`QuietIsGone`). The admitted generation is never ahead of the tracker's
(`AdmittedIsPast`), and a process seen in its place moves the tracker on: that makes a replacement
final.

**ThreadwireHttpServerProofs**, of the controller: `BarrierExcludes`, `TaintedLeaseIsDead`,
`QueueStaysBounded`, `ImplementsRegistry`, `RegistryServesTheController`. Only the active request is
past its wait for the barrier, and only while there is none (`BarrierInv`). One request at a time
holds a lease, the active one or the one whose completion is undecided, and every mark is older than
the lease that is held (`LeaseInv`): so one remembered lease is enough although a rollback comes long
after its turn. The types and the capacity of the queue need nothing of the barrier (`QueueInv`).
Each step is a step of the registry or leaves it alone; the proofs of the registry are instantiated
for the controller's variables, and its theorems carried over. Of the server: `CommittedIsDelivered`,
`EverySlotIsGivenBack`, `ServedBarrierExcludes`, `ServedTaintedLeaseIsDead`, `ImplementsController`.
`HttpInv` says what a handler knows of its turn at each of its steps; that the server uses the
controller only as the controller allows carries the other theorems over. The handlers that run are
finitely many, however many requests there are, and each way out of a handler takes exactly one from
them and from the count (`CountInv`).

**CdpSessionManagerProofs**: `TypeCorrect`, `NothingIsOrphaned`, `LossesAreNoticed`,
`SessionsAreOfTheirLease`, `SuccessHasOneBinding`. While `connect()` is on its way there is no
installed session, so what is open is its candidate (`SessionInv`). What it read of the runtime is
never newer than the tracker, and a process that ended does not come back: a guard that passes
clears what was attached before it (`LeaseInv`). `LossesAreNoticed` says nothing of a session that
closed itself. A broken binding is never found again (`OpInv`).

**ReadinessControllerProofs**: `TypeCorrect`, `ReadinessIsEarned`, `OneDismissalOnly`,
`InputIsNeverForgotten`. A gate cannot look at the page all the time and need not: what disturbed
the page since its guard began is still to be seen when it looks again, as activity or as a composer
that is not its own (`GateInv`). The permission to press is spent by the record alone (`BudgetInv`),
and a dismissal nobody awaits presses nothing (`DismissalInv`).

**TurnExecutorProofs**: `SettlesLast`, `SuccessIsNeverPartial`, `ProjectsFailClosed`,
`CancellationIsHeeded`, `TextStaysBounded`, and `ImplementsContract`: every step of the turn is a
step of `TurnContract` or none. The invariant says what the turn has seen of its write at each await
(`SeenInv`): one that reads the route has seen a write, one that reads it again has seen it finish.
The module instantiates the proofs of the observation with the text the turn has taken as what was
drained, and carries `WriteInv` and `ResponseInv` through the turn. With the first, an error that is
not marked finds no write under way. With the second, a turn that saw the stream complete has read
the whole text of the response, because what it concluded from the stream at an earlier poll still
holds at the end (`ReadInv`: a stream that is discarded was discarded by the turn itself, which then
fails). The listener has heard that text piece by piece, or nothing yet of a deferred delivery
(`DeliveryInv`), and before the end nothing but text, and only once a request was sent
(`StreamInv`). The types of what the turn keeps for itself are inductive on their own (`OwnTyped`).

So every safety invariant, every action property and the refinement that the passing runs check is
also proved. Only model-checked: liveness (`EveryOperationSettles`, `EveryCallSettles`,
`TurnSettles`), which is beyond the prover, and the two findings, which are counterexamples.

## 5. Not modelled

- Page scripts, accessibility trees and URLs (`ChromeRemoteInterfaceSession.ts`,
  `ChromeRemoteInterfaceHelpers.ts`): a command succeeds, fails or times out, with or without its
  effect. Target discovery, endpoint provenance, installation and launch commands are I/O whose
  result is a success or a failure here.
- `execute()` without a listener, which no caller in the repository uses; `start()` and `close()` of
  the HTTP server, its routing, health and list of threads; the diagnostics, which only observe;
  configuration and error texts.
- The retries of Project creation and what they find on the page: of a creation there is the attempt
  to mutate, what comes before it and what comes after.
- The guard of the bound endpoint (`BoundRuntimeProvenanceGuard.ts`) beyond its success or failure:
  it compares what the operating system and the endpoint answer, and keeps nothing between calls but
  the identity of the listener's owner, set once when it is bound.

## 6. Plan

Done, in this order: the scheduler (first, since everything rests on it), registry, controller,
observation, executor with its contract, supervisor, session manager; then readiness with the notice
budget, the bound policy and Project creation in the controller, the HTTP server; proofs of all of
them.

The proofs then went from the parts to the whole: first each component's own invariants, then the
text properties of the observation over bodies of any length, the success of a turn that rests on
them, and the counts of the server.

Left: that the server's composition keeps what the executor's contract promises (the controller's
`TurnDone` and `FailClosed` against the outcomes of `TurnContract`), and that the readiness gates and
the session manager meet what the controller takes of them for granted; the scheduler's lease
bookkeeping inside the controller as a refinement of `OperationScheduler`, as is done for the
registry; and, as models, the guard of the bound endpoint as a composition of supervisor, session
manager and endpoint, and `close()` of the server while requests are in flight.

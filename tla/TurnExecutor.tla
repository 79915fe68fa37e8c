----------------------------- MODULE TurnExecutor -----------------------------
(***************************************************************************)
(* One streamed TURN operation (turn/TurnExecutor.ts), from the preflight  *)
(* to the settlement of its result, composed with the observation of its   *)
(* write and response (TurnObservation).                                   *)
(*                                                                         *)
(* The turn inserts its text, submits it, and then polls the observation;  *)
(* a turn that creates a conversation also reads the page's route, twice,  *)
(* before it believes it.  Every command, route read and sleep is an await *)
(* during which the network, the clock, the caller and the runtime go on:  *)
(* what was read before an await is kept in a variable of its own (locator,*)
(* polled, polledAge) and used after it, as in the code.  The code between *)
(* two awaits is one action.                                               *)
(*                                                                         *)
(* Whether the lease and the session still serve the turn is `control`:    *)
(* "ok"; "lost", when the CDP session has gone or no main process is       *)
(* observed (it may be again); "changed", when another process is.         *)
(***************************************************************************)
EXTENDS Naturals, Sequences, SequencesExt

CONSTANTS
  Requests, None, Records, MaxBody, MaxLive, MaxQueued,   \* as in TurnObservation
  Kinds,       \* the kinds of target to consider
  Locators,    \* conversations a turn of this kind can end in, as far as its scope goes
  MaxText      \* maxAccumulatedTextChars, in pieces of text

AllKinds == {"THREAD", "FRESH", "PROJECT"}

ASSUME KindsAssumption == Kinds \subseteq AllKinds
ASSUME MaxTextAssumption == MaxText \in Nat
ASSUME LocatorsAssumption == None \notin Locators
ASSUME ObservationAssumption ==   \* as in TurnObservation
  /\ Records \subseteq {"text", "done", "half", "bad"}
  /\ None \notin Requests
  /\ {MaxBody, MaxLive, MaxQueued} \subseteq Nat

VARIABLES
  net, body, sent, write, stream,   \* of TurnObservation
  kind,        \* target.kind
  pc,          \* which await the turn is at
  control, aborted,
  age,         \* 0, 1 (the 15 s deadlines have passed) or 2 (and the 120 s ones)
  polled,      \* previousLifecycle
  polledAge,   \* `now`, while the route is read for the first time
  locator,     \* freshLocator
  delivery,    \* ResponseDeliveryState, with what the listener has accepted
  known, reserved,   \* locators of the registry, and of a pending completion
  marked,      \* the scheduler's lease of this turn is marked uncertain
  outcome

observationVars == <<net, body, sent, write, stream>>
clockVars == <<age, polled, polledAge>>
registryVars == <<known, reserved>>
vars == <<observationVars, kind, pc, control, aborted, clockVars, locator, delivery,
          registryVars, marked, outcome>>

Obs == INSTANCE TurnObservation WITH taken <- delivery.text

Outcomes == {"pending", "existing", "created", "aborted", "inputFailed", "disconnected",
             "changed", "uncertain", "writeFailed", "responseFailed", "notCreated"}

Success == {"existing", "created"}

NewDelivery(k) ==
  [deferred |-> k = "PROJECT", semantic |-> FALSE, failed |-> FALSE, discarded |-> FALSE,
   text |-> <<>>, heard |-> <<>>]

Init ==
  /\ net = [r \in Requests |-> Obs!Unsent]
  /\ body = [r \in Requests |-> <<>>]
  /\ sent = {}
  /\ write = Obs!NoWrite
  /\ stream = Obs!NewStream
  /\ kind \in Kinds
  /\ pc = "preflight"
  /\ control = "ok"
  /\ aborted = FALSE
  /\ age = 0 /\ polled = "NONE" /\ polledAge = 0
  /\ locator = None
  /\ delivery = NewDelivery(kind)
  /\ known \in IF kind = "THREAD" THEN {{}} ELSE SUBSET Locators
  /\ reserved = {}
  /\ marked = FALSE
  /\ outcome = "pending"

-----------------------------------------------------------------------------
(* The response listener is called once for each event.  In one step it may *)
(* throw, at the event that is the reply.throws-th it is given, and abort    *)
(* the request synchronously while it takes another, as the HTTP handler     *)
(* does when its client is too slow; 0 is at none.  Nothing is delivered     *)
(* after the first event it throws at, and a second abort changes nothing.   *)

EventTypes == {"TEXT_DELTA", "FINAL_TEXT", "COMPLETED"}

(* At most the queued deltas, the text of a Project turn, and the two events *)
(* of the end.                                                               *)
Calls == Len(stream.queue) + 3

Replies == [throws : 0..Calls, aborts : 0..Calls]

(* What the listener has taken in the step in which d was reached. *)
Taken(d) == (Len(delivery.heard) + 1)..Len(d.heard)

(* The number of the next event it is given. *)
Nth(d) == Len(d.heard) - Len(delivery.heard) + 1

Throws(reply, d) == reply.throws = Nth(d)

Hear(d, type, text, reply) ==
  [d EXCEPT !.heard = Append(@, [type |-> type, text |-> text, left |-> reply.aborts = Nth(d)])]

(* terminalError, and the discarded stream that goes with it. *)
Stop(d) == [d EXCEPT !.failed = TRUE, !.discarded = TRUE]

(* Mutant of Gone: the signal is not looked at again after a delivery. *)
GoneBefore(d) == aborted

(* The signal, once d has been delivered. *)
Gone(d) == aborted \/ \E i \in Taken(d) : d.heard[i].left

(* Mutant of DeliverEvent: maxAccumulatedTextChars is not looked at. *)
DeliverEventUnbounded(d, piece, reply) ==
  IF d.discarded THEN d
  ELSE IF ~ d.deferred /\ Throws(reply, d) THEN Stop(d)
  ELSE LET h == IF d.deferred THEN d ELSE Hear(d, "TEXT_DELTA", <<piece>>, reply)
       IN [h EXCEPT !.text = Append(@, piece)]

(* One TEXT_DELTA; those behind one that is refused are dropped. *)
DeliverEvent(d, piece, reply) ==
  IF d.discarded THEN d
  ELSE IF Len(d.text) + 1 > MaxText THEN Stop(d)
  ELSE IF ~ d.deferred /\ Throws(reply, d) THEN Stop(d)
  ELSE LET h == IF d.deferred THEN d ELSE Hear(d, "TEXT_DELTA", <<piece>>, reply)
       IN [h EXCEPT !.text = Append(@, piece)]

(* deliverNormalizedEvents(): the pieces queued since the last poll, one by  *)
(* one, without a look at the signal.                                        *)
DeliverText(d, reply) ==
  FoldLeft(LAMBDA e, piece : DeliverEvent(e, piece, reply), d, stream.queue)

(* Mutant of UpdateDelivery: a completed response is not drained once more. *)
UpdateDeliveryUndrained(d, cancelled, reply) ==
  LET t == DeliverText(d, reply)
  IN IF cancelled THEN [d EXCEPT !.discarded = TRUE]
     ELSE IF stream.lifecycle = "COMPLETED" THEN [d EXCEPT !.semantic = TRUE]
     ELSE IF stream.lifecycle = "FAILED" /\ ~ t.failed THEN Stop(t)
     ELSE t

UpdateDelivery(d, cancelled, reply) ==
  LET t == DeliverText(d, reply)
  IN IF cancelled THEN [d EXCEPT !.discarded = TRUE]
     ELSE IF stream.lifecycle = "COMPLETED" THEN [t EXCEPT !.semantic = TRUE]
     ELSE IF stream.lifecycle = "FAILED" /\ ~ t.failed THEN Stop(t)
     ELSE t

ApplyResponseDeadline(d, cancelled, now) ==
  IF cancelled \/ d.semantic \/ d.failed \/ now < 2 THEN d ELSE Stop(d)

(* finalizeResponseDelivery() up to beforeCompleted(). *)
FinishText(d, reply) ==
  LET failed == [d EXCEPT !.failed = TRUE]
      told   == IF d.deferred THEN Hear(d, "TEXT_DELTA", d.text, reply) ELSE d
  IN IF d.text = <<>> THEN failed
     ELSE IF d.deferred /\ Throws(reply, d) THEN failed
     ELSE IF Throws(reply, told) THEN [told EXCEPT !.failed = TRUE]
     ELSE Hear(told, "FINAL_TEXT", d.text, reply)

(* The rest of it: terminalError is set when the listener refuses COMPLETED. *)
FinalizeResponseDelivery(d, reply) ==
  LET f == FinishText(d, reply)
  IN IF f.failed THEN f
     ELSE IF Throws(reply, f) THEN [f EXCEPT !.failed = TRUE]
     ELSE Hear(f, "COMPLETED", <<>>, reply)

-----------------------------------------------------------------------------
(* How a step of the turn ends.                                             *)

(* The step ends in an await at place p. *)
Await(p, d) ==
  /\ pc' = p
  /\ delivery' = d
  /\ aborted' = Gone(d)
  /\ stream' = IF d.discarded THEN Obs!Discard(stream) ELSE Obs!Drain(stream)
  /\ UNCHANGED <<net, body, sent, write, kind, control, marked, outcome>>

(* The result settles; `finally` releases the observation if it was armed. *)
Settle(o, d) ==
  /\ pc' = "done"
  /\ outcome' = o
  /\ delivery' = d
  /\ write' = Obs!NoWrite
  /\ stream' = Obs!NewStream
  /\ age' = 0 /\ polled' = "NONE" /\ polledAge' = 0
  /\ UNCHANGED <<net, body, sent, kind, control, aborted, locator>>

Throw(o, d) == Settle(o, d) /\ UNCHANGED <<marked, registryVars>>

(* Mutant of FailClosed: the lease is not marked. *)
FailClosedUnmarked(d) == Throw("uncertain", d)

FailClosed(d) == Settle("uncertain", d) /\ marked' = TRUE /\ UNCHANGED registryVars

(* operationAborted(), a failed write and a failed response of a Project turn *)
(* leave what the page did unknown.                                           *)
ThrowOrFailClosed(o, d) == IF kind = "PROJECT" THEN FailClosed(d) ELSE Throw(o, d)

Readable == control = "ok" /\ ~ write.ambiguous

(* readTurnObservation() and the errors of a command or of a route read. *)
Unreadable(d) ==
  \/ control = "changed" /\ Throw("changed", d)
  \/ ~ Readable /\ control # "changed" /\ FailClosed(d)

-----------------------------------------------------------------------------
(* Before the commitment.                                                   *)

(* The composer is ready, and the observation armed. *)
Preflight ==
  /\ pc = "preflight"
  /\ control = "ok"
  /\ ~ aborted
  /\ pc' = "inserting"
  /\ Obs!ArmObservation
  /\ UNCHANGED <<kind, control, aborted, clockVars, locator, delivery, registryVars, marked, outcome>>

PreflightFails ==
  /\ pc = "preflight"
  /\ \E o \in {"aborted", "disconnected", "changed", "inputFailed"} :
       /\ o = "aborted" => aborted
       /\ o = "disconnected" => control = "lost"
       /\ o = "changed" => control = "changed"
       /\ Throw(o, delivery)

(* Mutant of PreSubmitWrite: a write under way is an input that failed. *)
PreSubmitWriteThrows ==
  /\ Readable
  /\ write.lifecycle # "NONE"
  /\ ThrowOrFailClosed("inputFailed", delivery)

(* assertNoObservedPreSubmitWrite() finds one. *)
PreSubmitWrite ==
  /\ Readable
  /\ write.lifecycle # "NONE"
  /\ IF kind = "PROJECT" \/ write.lifecycle = "ACTIVE"
       THEN FailClosed(delivery) ELSE Throw("inputFailed", delivery)

(* The input command succeeds; the step goes on to the submission. *)
Insert ==
  /\ pc = "inserting"
  /\ control = "ok"
  /\ \/ Unreadable(delivery)
     \/ PreSubmitWrite
     \/ /\ Readable
        /\ write.lifecycle = "NONE"
        /\ aborted
        /\ ThrowOrFailClosed("aborted", delivery)
     \/ /\ Readable
        /\ write.lifecycle = "NONE"
        /\ ~ aborted
        /\ pc' = "sending"
        /\ UNCHANGED <<observationVars, kind, control, aborted, clockVars, locator, delivery,
                       registryVars, marked, outcome>>

(* It fails: with the lease, with a lost connection or a timeout, or otherwise. *)
InsertFails ==
  /\ pc = "inserting"
  /\ \/ control = "changed" /\ Throw("changed", delivery)
     \/ FailClosed(delivery)
     \/ kind # "PROJECT" /\ Unreadable(delivery)
     \/ kind # "PROJECT" /\ PreSubmitWrite
     \/ /\ kind # "PROJECT"
        /\ Readable
        /\ write.lifecycle = "NONE"
        /\ Throw("inputFailed", delivery)

(* Clicking the send button, or pressing Enter and releasing it.  Once        *)
(* committed, a refused command tells nothing: the turn waits for a write.    *)
Send ==
  /\ pc \in {"sending", "releasing"}
  /\ \/ /\ control = "ok"
        /\ pc' = IF kind = "FRESH" /\ pc = "sending" THEN "releasing" ELSE "polling"
     \/ /\ kind # "PROJECT"
        /\ pc' = "polling"
  /\ UNCHANGED <<observationVars, kind, control, aborted, clockVars, locator, delivery,
                 registryVars, marked, outcome>>

SendFails ==
  /\ pc \in {"sending", "releasing"}
  /\ \/ control = "changed" /\ Throw("changed", delivery)
     \/ FailClosed(delivery)

-----------------------------------------------------------------------------
(* waitForTurnOutcome().                                                    *)

(* The loop sleeps and starts again. *)
Sleep(d) == Await("polling", d) /\ polledAge' = 0 /\ UNCHANGED registryVars

(* writeObservedAt is set when the write is first seen. *)
Now == IF polled = "NONE" THEN 0 ELSE age

Seen == age' = Now /\ polled' = write.lifecycle

(* Mutant of PollUnwritten: there is no deadline for the write to be observed. *)
PollUnwrittenForever(d) == Sleep(d) /\ UNCHANGED <<age, polled, locator>>

(* Nothing observed yet. *)
PollUnwritten(d) ==
  IF age >= 1 THEN FailClosed(d)
  ELSE Sleep(d) /\ UNCHANGED <<age, polled, locator>>

(* An existing thread's write has finished: only the response is awaited. *)
PollThreadFinished(d, reply) ==
  LET f == FinalizeResponseDelivery(d, reply)
  IN IF Gone(d) THEN Throw("aborted", d)
     ELSE IF d.failed THEN Throw("responseFailed", d)
     ELSE IF ~ d.semantic THEN Sleep(d) /\ Seen /\ UNCHANGED locator
     ELSE IF f.failed THEN Throw("responseFailed", f)
     ELSE Throw("existing", f)

(* An existing thread's write is under way; a cancelled turn lets it go. *)
PollThreadActive(d) ==
  IF Gone(d) THEN Throw("aborted", d) ELSE Sleep(d) /\ Seen /\ UNCHANGED locator

(* A new conversation: its route is read until it is found, and again once *)
(* the write has settled.                                                  *)
PollNewConversation(d) ==
  IF locator = None THEN
         Await("locating", d) /\ Seen /\ polledAge' = Now /\ UNCHANGED <<locator, registryVars>>
  ELSE IF write.lifecycle = "ACTIVE" THEN Sleep(d) /\ Seen /\ UNCHANGED locator
  ELSE IF Gone(d) THEN ThrowOrFailClosed("aborted", d)
  ELSE
         Await("revalidating", d) /\ Seen /\ polledAge' = 0 /\ UNCHANGED <<locator, registryVars>>

PollWritten(d, reply) ==
  IF write.lifecycle = "ACTIVE" /\ Now = 2 THEN FailClosed(d)
  ELSE IF write.lifecycle = "FAILED" THEN ThrowOrFailClosed("writeFailed", d)
  ELSE IF kind = "THREAD" /\ write.lifecycle = "FINISHED" THEN PollThreadFinished(d, reply)
  ELSE IF kind = "THREAD" THEN PollThreadActive(d)
  ELSE PollNewConversation(d)

Poll ==
  /\ pc = "polling"
  /\ \/ Unreadable(delivery)
     \/ /\ Readable
        /\ \E reply \in Replies :
             LET u == UpdateDelivery(delivery, aborted, reply)
                 d == IF write.lifecycle = "NONE" THEN u
                      ELSE ApplyResponseDeadline(u, aborted, Now)
             IN IF write.lifecycle = "NONE" THEN PollUnwritten(d)
                ELSE PollWritten(d, reply)

(* The first read of the route answers, with a conversation in scope or not. *)
(* polled and polledAge are what was read before it.                         *)
Locate ==
  /\ pc = "locating"
  /\ \/ Unreadable(delivery)
     \/ /\ Readable
        /\ \E reply \in Replies, l \in Locators \cup {None} :
             LET d == UpdateDelivery(delivery, aborted, reply)
             IN IF write.lifecycle = "FAILED" THEN ThrowOrFailClosed("writeFailed", d)
                ELSE IF write.lifecycle = "ACTIVE" \/ (l # None /\ polled = "ACTIVE") THEN
                       Sleep(d) /\ locator' = l /\ UNCHANGED <<age, polled>>
                ELSE IF Gone(d) THEN ThrowOrFailClosed("aborted", d)
                ELSE IF l # None THEN Await("revalidating", d) /\ locator' = l /\ polledAge' = 0
                                 /\ UNCHANGED <<age, polled, registryVars>>
                ELSE IF polled = "FINISHED" /\ polledAge >= 1 THEN ThrowOrFailClosed("notCreated", d)
                ELSE Sleep(d) /\ UNCHANGED <<locator, age, polled>>

(* The conversation of a FRESH turn is registered before its response is     *)
(* looked at; the turn fails or succeeds afterwards.                         *)
ConcludeFresh(l, d, reply) ==
  LET f == FinalizeResponseDelivery(d, reply)
      o == IF d.failed \/ f.failed THEN "responseFailed"
           ELSE IF l \in known THEN "existing" ELSE "created"
  IN /\ Settle(o, IF d.failed THEN d ELSE f)
     /\ known' = known \cup {l}
     /\ UNCHANGED <<reserved, marked>>

(* The conversation of a Project turn must be new.  It is reserved between   *)
(* FINAL_TEXT and COMPLETED, unless the caller has gone by then; a listener  *)
(* that refuses COMPLETED rolls the reservation back.                        *)
ConcludeProject(l, d, reply) ==
  LET f == FinalizeResponseDelivery(d, reply)
      t == FinishText(d, reply)
  IN IF l \in known \/ d.failed THEN FailClosed(d)
     ELSE IF ~ t.failed /\ Gone(t) THEN FailClosed(t)
     ELSE IF f.failed THEN FailClosed(f)
     ELSE Settle("created", f) /\ reserved' = {l} /\ UNCHANGED <<known, marked>>

(* Mutant of Confirms: any conversation of the Project will do. *)
ConfirmsAny(l) == l # None

(* What the second read must show. *)
Confirms(l) == l # None /\ (kind = "PROJECT" => l = locator)

(* The second read answers, with the write settled. *)
Revalidate ==
  /\ pc = "revalidating"
  /\ \/ Unreadable(delivery)
     \/ /\ Readable
        /\ \E reply \in Replies, l \in Locators \cup {None} :
             LET d == UpdateDelivery(delivery, aborted, reply)
             IN IF Gone(d) THEN ThrowOrFailClosed("aborted", d)
                ELSE IF Confirms(l) /\ ~ d.failed /\ ~ d.semantic THEN
                       Sleep(d) /\ UNCHANGED <<age, polled, locator>>
                ELSE IF Confirms(l) /\ kind = "FRESH" THEN ConcludeFresh(l, d, reply)
                ELSE IF Confirms(l) /\ kind = "PROJECT" THEN ConcludeProject(l, d, reply)
                ELSE IF age >= 1 THEN ThrowOrFailClosed("notCreated", d)
                ELSE Sleep(d) /\ UNCHANGED <<age, polled, locator>>

-----------------------------------------------------------------------------
(* confirmCompletedTurn() and rollbackCompletedTurn().                      *)

settledVars == <<observationVars, kind, pc, control, aborted, clockVars, locator, delivery, outcome>>

Confirm ==
  /\ reserved # {}
  /\ known' = known \cup reserved
  /\ reserved' = {}
  /\ UNCHANGED <<settledVars, marked>>

Rollback ==
  /\ reserved # {}
  /\ reserved' = {}
  /\ marked' = TRUE
  /\ UNCHANGED <<settledVars, known>>

-----------------------------------------------------------------------------
(* Meanwhile, until the turn is done.                                       *)

Running == pc # "done"

ownVars == <<kind, pc, polled, polledAge, locator, delivery, registryVars, marked, outcome>>

(* An ambiguous observation stays ambiguous: the rest is not followed. *)
NetworkEvent ==
  /\ write.armed
  /\ ~ write.ambiguous
  /\ Obs!Network
  /\ UNCHANGED <<ownVars, control, aborted, age>>

CallerAborts ==
  /\ Running
  /\ ~ aborted
  /\ aborted' = TRUE
  /\ UNCHANGED <<observationVars, ownVars, control, age>>

ControlChanges ==
  /\ Running
  /\ control # "changed"
  /\ control' \in {"ok", "lost", "changed"} \ {control}
  /\ UNCHANGED <<observationVars, ownVars, aborted, age>>

Tick ==
  /\ pc \in {"polling", "locating", "revalidating"}
  /\ age < 2
  /\ age' = age + 1
  /\ UNCHANGED <<observationVars, ownVars, control, aborted>>

TurnStep ==
  \/ Preflight
  \/ PreflightFails
  \/ Insert
  \/ InsertFails
  \/ Send
  \/ SendFails
  \/ Poll
  \/ Locate
  \/ Revalidate

Next ==
  \/ TurnStep
  \/ Confirm
  \/ Rollback
  \/ NetworkEvent
  \/ CallerAborts
  \/ ControlChanges
  \/ Tick

Spec == Init /\ [][Next]_vars

(* Commands, route reads and the preflight have timeouts, sleeps end, and the *)
(* clock goes on.  Nothing is assumed of the network, the caller, the runtime. *)
LiveSpec == Spec /\ WF_vars(TurnStep) /\ WF_vars(Tick)

-----------------------------------------------------------------------------
(* Types, and the bound on the accumulated text. *)
TypeOK ==
  /\ kind \in AllKinds
  /\ pc \in {"preflight", "inserting", "sending", "releasing", "polling", "locating",
              "revalidating", "done"}
  /\ control \in {"ok", "lost", "changed"}
  /\ aborted \in BOOLEAN
  /\ age \in 0..2 /\ polledAge \in 0..2
  /\ polled \in {"NONE", "ACTIVE", "FINISHED"}
  /\ locator \in Locators \cup {None}
  /\ DOMAIN delivery = {"deferred", "semantic", "failed", "discarded", "text", "heard"}
  /\ {delivery.deferred, delivery.semantic, delivery.failed, delivery.discarded} \subseteq BOOLEAN
  /\ Len(delivery.text) <= MaxText
  /\ \A i \in DOMAIN delivery.heard : delivery.heard[i].type \in EventTypes
  /\ known \subseteq Locators /\ reserved \subseteq Locators
  /\ marked \in BOOLEAN
  /\ outcome \in Outcomes

WriteInFlight == \E r \in sent : Obs!InFlight(r)

(* The turn has settled, and the scheduler goes on to the next operation      *)
(* under the same lease.                                                      *)
HandsOver == pc = "done" /\ ~ marked /\ control # "changed"

(* The page is handed over with no write of the turn under way: every error   *)
(* path either waited for the settlement or marked the lease.  Left out is    *)
(* the cancellation of a THREAD turn, which HoldsThePage is about.            *)
SettlesAfterTheWrite ==
  HandsOver /\ ~ (kind = "THREAD" /\ outcome = "aborted") => ~ WriteInFlight

(* The claim of the tests (turnExecutor.test.ts:567, m6TurnExecutor.test.ts:  *)
(* 810) that a turn cancelled after its commitment keeps the page until the   *)
(* write has settled.                                                         *)
HoldsThePage == HandsOver /\ outcome = "aborted" => ~ WriteInFlight

(* The text of what the caller heard, but for the last two events. *)
HeardText == FlattenSeq([i \in 1..(Len(delivery.heard) - 2) |-> delivery.heard[i].text])

(* A turn succeeds exactly when its caller has accepted COMPLETED, and then   *)
(* the caller heard the deltas, one FINAL_TEXT that is their concatenation,   *)
(* and COMPLETED, and the text is all the text of the one response there was. *)
SuccessIsWhole ==
  LET n == Len(delivery.heard)
      heardType(i) == delivery.heard[i].type
  IN IF outcome \in Success
       THEN /\ \E r \in Requests : \E i \in DOMAIN body[r] :
                 /\ sent = {r}
                 /\ body[r][i] \in {"done", "half"}
                 /\ Obs!ListsTexts(HeardText, body[r], i)
            /\ HeardText # <<>>
            /\ \A i \in 1..(n - 2) : heardType(i) = "TEXT_DELTA"
            /\ heardType(n - 1) = "FINAL_TEXT" /\ delivery.heard[n - 1].text = HeardText
            /\ heardType(n) = "COMPLETED"
       ELSE \A i \in 1..n : heardType(i) # "COMPLETED"

(* Once a Project turn has begun to insert, it ends in one of three ways: its *)
(* conversation is new, was read twice, and is reserved; the lease is marked; *)
(* or the runtime has changed.  Its caller hears nothing before that step.    *)
ProjectTurnsFailClosed ==
  [][kind = "PROJECT" /\ pc \notin {"preflight", "done"} =>
       IF pc' = "done"
         THEN \/ outcome' = "created" /\ reserved' = {locator} /\ locator \notin known
              \/ outcome' = "uncertain" /\ marked'
              \/ outcome' = "changed" /\ control = "changed"
         ELSE delivery'.heard = <<>>]_vars

(* What a caller may still hear in the step in which it left, at the event    *)
(* at: the code goes on with what it has in hand.  Behind a delta that is the *)
(* deltas of that batch, but never the end of the response; behind FINAL_TEXT *)
(* it is COMPLETED.  Of a Project turn, which is told all in one step, it is  *)
(* FINAL_TEXT, but never COMPLETED: its conversation is not created.          *)
MayFollow(at, event) ==
  IF kind = "PROJECT" THEN event.type = "FINAL_TEXT"
  ELSE at.type = "TEXT_DELTA" => event.type = "TEXT_DELTA"

(* A caller that has gone hears nothing in any later step, and one that goes  *)
(* while it takes an event hears no more in that step than what may follow.   *)
CancellationEndsTheStream ==
  [][LET h == delivery'.heard
     IN /\ aborted => h = delivery.heard
        /\ \A i, j \in Taken(delivery') : i < j /\ h[i].left => MayFollow(h[i], h[j])]_vars

(* The documented stream (README.md:39, 200): TEXT_DELTA may be absent, and   *)
(* FINAL_TEXT is the rendered text.  A completed response that carries no     *)
(* delta then does not fail its turn.                                         *)
DeltasMayBeAbsent ==
  [][outcome' = "responseFailed" /\ outcome = "pending" =>
       ~ /\ stream.lifecycle = "COMPLETED"
         /\ ~ delivery.failed
         /\ \A r \in sent : \A i \in DOMAIN body[r] : body[r][i] # "text"]_vars

(* Whatever the network, the caller and the runtime do, the turn settles:     *)
(* each wait for one of them is bounded by a deadline.                        *)
TurnSettles == <>(pc = "done")

(* What the turn is to those who rely on it: how far its page is, the last    *)
(* thing its caller heard, and how it ended.                                  *)
Page == IF WriteInFlight THEN "writing" ELSE IF sent = {} THEN "idle" ELSE "settled"

LastHeard(h) ==
  IF h = <<>> THEN "nothing"
  ELSE IF Last(h).type = "TEXT_DELTA" THEN "text"
  ELSE IF Last(h).type = "FINAL_TEXT" THEN "whole"
  ELSE "completed"

Verdict ==
  IF outcome = "pending" THEN "pending"
  ELSE IF outcome = "changed" THEN "replaced"
  ELSE IF marked THEN "uncertain"
  ELSE IF outcome \in Success THEN "success"
  ELSE "failure"

(* The turn implements the contract its scheduler and its caller rely on.     *)
Contract == INSTANCE TurnContract WITH
  mustHold <- kind # "THREAD",
  page     <- Page,
  heard    <- LastHeard(delivery.heard),
  verdict  <- Verdict

RefinesContract == Contract!Spec

=============================================================================

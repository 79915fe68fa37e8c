--------------------------- MODULE TurnObservation ---------------------------
(***************************************************************************)
(* What a CDP session observes of the turn it is submitting                *)
(* (cdp/CdpTurnObservationTracker.ts, cdp/CdpResponseStreamTracker.ts,     *)
(* response/ResponseStreamConsumer.ts).                                    *)
(*                                                                         *)
(* While an observation is active, the first WRITE request is selected and *)
(* followed to its settlement; any other WRITE, or an identifier that is   *)
(* used again, makes the observation ambiguous for good.  Once the request *)
(* has a successful response, the tracker asks the browser to stream its   *)
(* body: the answer carries what was received before, and what arrives     *)
(* meanwhile waits for that answer.  Each of request, body, activation and *)
(* settlement comes as an event of its own.                                *)
(*                                                                         *)
(* The body is a sequence of records: a piece of the assistant's text,     *)
(* "done", "half" (a done whose blank line is still missing) or "bad" (one *)
(* that does not parse).  A text is named by its position in the body.     *)
(***************************************************************************)
EXTENDS Naturals, Sequences, SequencesExt

CONSTANTS
  Requests,    \* identifiers of WRITE requests
  None,
  Records,     \* the records a body can consist of: see AllRecords
  MaxBody,     \* bound on the records of a body
  MaxLive,     \* MAX_PENDING_LIVE_CHUNKS
  MaxQueued    \* maxQueuedEvents

AllRecords == {"text", "done", "half", "bad"}

ASSUME RecordsAssumption == Records \subseteq AllRecords
ASSUME RequestsAssumption == None \notin Requests
ASSUME BoundsAssumption == {MaxBody, MaxLive, MaxQueued} \subseteq Nat

VARIABLES
  net,         \* what each request really is, and if it was redirected while selected
  body,        \* the records of each response body, so far
  sent,        \* history: the WRITE requests sent since the observation was armed
  write,       \* ActiveTurnObservation
  stream,      \* its CdpResponseStreamTracker with its consumer
  taken        \* history: the texts the owner of the observation has drained

networkVars == <<net, body, sent>>
trackerVars == <<write, stream>>
vars == <<networkVars, trackerVars, taken>>

Unsent == [phase |-> "unsent", ok |-> FALSE, redirected |-> FALSE]

(* `active === null` is armed = FALSE. *)
NoWrite == [armed |-> FALSE, request |-> None, ok |-> FALSE, redirected |-> FALSE,
            lifecycle |-> "NONE", ambiguous |-> FALSE]

(* call is what has become of streamResourceContent, and tapped the length of *)
(* the body when the browser took it; activation is activationPending and     *)
(* activated; early is transportSettledWhileActivationPending.                *)
NewStream == [lifecycle |-> "PENDING", call |-> "none", tapped |-> 0, activation |-> "none",
              early |-> FALSE, live |-> <<>>, queue |-> <<>>, held |-> FALSE, disposed |-> FALSE]

Init ==
  /\ net = [r \in Requests |-> Unsent]
  /\ body = [r \in Requests |-> <<>>]
  /\ sent = {}
  /\ write = NoWrite
  /\ stream = NewStream
  /\ taken = <<>>

-----------------------------------------------------------------------------
(* The response stream.                                                     *)

Fail(s) ==
  IF s.disposed \/ s.lifecycle = "COMPLETED" THEN s
  ELSE [s EXCEPT !.lifecycle = "FAILED", !.activation = "none", !.live = <<>>]

(* discard() by the owner, who wants no more of it. *)
Discard(s) ==
  IF s.disposed THEN s
  ELSE [s EXCEPT !.activation = "none", !.live = <<>>, !.queue = <<>>,
                 !.lifecycle = IF @ = "COMPLETED" THEN @ ELSE "FAILED"]

Dispose(s) == [Discard(s) EXCEPT !.disposed = TRUE]

Drain(s) == [s EXCEPT !.queue = <<>>]

Terminal(s) == s.lifecycle \in {"COMPLETED", "FAILED"}

(* The consumer emits [DONE]: it needs a place in the queue like any event. *)
Complete(s) ==
  IF Len(s.queue) >= MaxQueued THEN Fail(s) ELSE [s EXCEPT !.lifecycle = "COMPLETED"]

(* consumeBase64() of the record at position i of the body b. *)
Consume(b, s, i) ==
  IF Terminal(s) THEN s
  ELSE IF s.held \/ b[i] = "done" THEN Complete(s)
  ELSE IF b[i] = "half" THEN [s EXCEPT !.held = TRUE]
  ELSE IF b[i] = "bad" THEN Fail(s)
  ELSE IF Len(s.queue) >= MaxQueued THEN Fail(s)
  ELSE [s EXCEPT !.queue = Append(@, i)]

ConsumeAll(b, s, positions) ==
  FoldLeft(LAMBDA acc, i : Consume(b, acc, i), s, positions)

(* finishConsumer(): the end of the body completes the last record. *)
FinishConsumer(s) == IF s.held THEN Complete(s) ELSE Fail(s)

Begin(s, available) ==
  IF s.lifecycle # "PENDING" \/ s.activation # "none" THEN s
  ELSE IF available THEN [s EXCEPT !.activation = "pending", !.call = "sent"] ELSE Fail(s)

(* Mutant of OnData: live data does not wait for what was buffered. *)
OnDataEager(b, s, i) ==
  IF Terminal(s) THEN s
  ELSE IF s.activation = "none" THEN s
  ELSE Consume(b, s, i)

(* Mutant of OnData: the bound on the live data is off by one. *)
OnDataOneMore(b, s, i) ==
  IF Terminal(s) THEN s
  ELSE IF s.activation = "pending" THEN
         IF Len(s.live) > MaxLive THEN Fail(s) ELSE [s EXCEPT !.live = Append(@, i)]
  ELSE IF s.activation = "done" THEN Consume(b, s, i)
  ELSE s

OnData(b, s, i) ==
  IF Terminal(s) THEN s
  ELSE IF s.activation = "pending" THEN
         IF Len(s.live) >= MaxLive THEN Fail(s) ELSE [s EXCEPT !.live = Append(@, i)]
  ELSE IF s.activation = "done" THEN Consume(b, s, i)
  ELSE s

(* Mutant of CompleteActivation: the settlement that came first is forgotten. *)
CompleteActivationOnly(b, s) ==
  IF s.lifecycle = "FAILED" THEN [s EXCEPT !.activation = "none"]
  ELSE ConsumeAll(b, [s EXCEPT !.activation = "done", !.lifecycle = "STREAMING", !.live = <<>>],
                  [i \in 1..s.tapped |-> i] \o s.live)

(* Mutant of CompleteActivation: the buffered data of the answer is not read. *)
CompleteActivationUnbuffered(b, s) ==
  IF s.lifecycle = "FAILED" THEN [s EXCEPT !.activation = "none"]
  ELSE LET started  == [s EXCEPT !.activation = "done", !.lifecycle = "STREAMING", !.live = <<>>]
           caughtUp == ConsumeAll(b, started, s.live)
       IN IF s.early /\ ~ Terminal(caughtUp) THEN FinishConsumer(caughtUp) ELSE caughtUp

(* completeActivation(): what was buffered, then what came meanwhile. *)
CompleteActivation(b, s) ==
  IF s.lifecycle = "FAILED" THEN [s EXCEPT !.activation = "none"]
  ELSE LET started  == [s EXCEPT !.activation = "done", !.lifecycle = "STREAMING", !.live = <<>>]
           caughtUp == ConsumeAll(b, started, [i \in 1..s.tapped |-> i] \o s.live)
       IN IF s.early /\ ~ Terminal(caughtUp) THEN FinishConsumer(caughtUp) ELSE caughtUp

OnTransportSettled(s, failed) ==
  IF s.disposed \/ s.lifecycle = "COMPLETED" THEN s
  ELSE IF failed THEN Fail(s)
  ELSE IF s.activation = "pending" THEN [s EXCEPT !.early = TRUE]
  ELSE IF s.lifecycle = "STREAMING" THEN FinishConsumer(s)
  ELSE Fail(s)

-----------------------------------------------------------------------------
(* The owner of the observation.                                            *)

ArmObservation ==
  /\ ~ write.armed
  /\ write' = [NoWrite EXCEPT !.armed = TRUE]
  /\ stream' = NewStream
  /\ sent' = {}
  /\ UNCHANGED <<net, body>>

(* releaseTurnObservation(), and dispose() when the session goes. *)
ReleaseObservation ==
  /\ write.armed
  /\ write' = NoWrite
  /\ stream' = NewStream
  /\ UNCHANGED networkVars

(* takeTurnResponseEvents() of a readable observation. *)
Take ==
  /\ write.armed
  /\ ~ write.ambiguous
  /\ stream.queue # <<>>
  /\ taken' = taken \o stream.queue
  /\ stream' = Drain(stream)
  /\ UNCHANGED <<networkVars, write>>

DiscardResponse ==
  /\ write.armed
  /\ stream' = Discard(stream)
  /\ stream' # stream
  /\ UNCHANGED <<networkVars, write, taken>>

-----------------------------------------------------------------------------
(* The events of the browser.                                               *)

Selected(r) == write.armed /\ write.request = r

Ambiguous ==
  /\ write' = [write EXCEPT !.ambiguous = TRUE]
  /\ stream' = Dispose(stream)

(* Mutant of NewWrite: only while the selected write is active. *)
NewWriteUnsettled(r) ==
  IF write.request = None
    THEN /\ write' = [write EXCEPT !.request = r, !.lifecycle = "ACTIVE"]
         /\ UNCHANGED stream
    ELSE IF write.lifecycle = "ACTIVE" THEN Ambiguous ELSE UNCHANGED trackerVars

(* onRequestWillBeSent() of an identifier that is not the selected one. *)
NewWrite(r) ==
  IF write.request = None
    THEN /\ write' = [write EXCEPT !.request = r, !.lifecycle = "ACTIVE"]
         /\ UNCHANGED stream
    ELSE Ambiguous

RequestSent(r) ==
  /\ net[r].phase = "unsent"
  /\ net' = [net EXCEPT ![r].phase = "sent"]
  /\ sent' = sent \cup {r}
  /\ IF write.armed THEN NewWrite(r) ELSE UNCHANGED trackerVars
  /\ UNCHANGED body

(* The browser follows a redirection: of the selected request, or of one that *)
(* was sent before the observation was armed and now is a WRITE.              *)
RequestRedirected(r) ==
  /\ net[r].phase = "sent"
  /\ \/ /\ Selected(r)
        /\ ~ net[r].redirected
        /\ net' = [net EXCEPT ![r].redirected = TRUE]
        /\ write' = [write EXCEPT !.redirected = TRUE, !.ok = FALSE]
        /\ stream' = Fail(stream)
        /\ UNCHANGED sent
     \/ /\ write.armed
        /\ ~ Selected(r)
        /\ NewWrite(r)
        /\ sent' = sent \cup {r}
        /\ net' = [net EXCEPT ![r].redirected = FALSE]
  /\ UNCHANGED body

(* The identifier of the selected request is sent again, not by a redirection. *)
RequestSentAgain(r) ==
  /\ Selected(r)
  /\ ~ write.ambiguous
  /\ Ambiguous
  /\ UNCHANGED networkVars

ResponseReceived(r, ok, available) ==
  /\ net[r].phase = "sent"
  /\ net' = [net EXCEPT ![r].phase = "responded", ![r].ok = ok]
  /\ IF Selected(r) /\ write.lifecycle = "ACTIVE" /\ ~ write.redirected
       THEN /\ write' = [write EXCEPT !.ok = ok]
            /\ stream' = IF ok /\ ~ stream.disposed THEN Begin(stream, available) ELSE stream
       ELSE UNCHANGED trackerVars
  /\ UNCHANGED <<body, sent>>

(* A record arrives; the event carries it once the browser streams the body. *)
DataReceived(r, record) ==
  /\ net[r].phase = "responded"
  /\ net[r].ok
  /\ Len(body[r]) < MaxBody
  /\ ~ \E i \in DOMAIN body[r] : body[r][i] \in {"done", "half"}
  /\ body' = [body EXCEPT ![r] = Append(@, record)]
  /\ stream' = IF Selected(r) /\ ~ stream.disposed /\ stream.call \in {"tapped", "answered"}
                 THEN OnData(body'[r], stream, Len(body'[r])) ELSE stream
  /\ UNCHANGED <<net, sent, write>>

(* The browser handles streamResourceContent, now or once the body is there. *)
StreamTapped ==
  /\ stream.call = "sent"
  /\ stream' = [stream EXCEPT !.call = "tapped", !.tapped = Len(body[write.request])]
  /\ UNCHANGED <<networkVars, write>>

ActivationAnswered ==
  /\ stream.call = "tapped"
  /\ LET answered == [stream EXCEPT !.call = "answered"]
     IN stream' = IF stream.disposed THEN answered
                  ELSE CompleteActivation(body[write.request], answered)
  /\ UNCHANGED <<networkVars, write>>

ActivationFailed ==
  /\ stream.call = "sent"
  /\ stream' = Fail([stream EXCEPT !.call = "answered"])
  /\ UNCHANGED <<networkVars, write>>

(* Mutant of WriteVerdict: the status of the response is not looked at. *)
WriteVerdictUnread(failed) ==
  IF failed \/ write.redirected THEN "FAILED" ELSE "FINISHED"

WriteVerdict(failed) ==
  IF failed \/ write.redirected \/ ~ write.ok THEN "FAILED" ELSE "FINISHED"

RequestSettled(r, failed) ==
  /\ net[r].phase \in {"sent", "responded"}
  /\ failed \/ net[r].phase = "responded"
  /\ net' = [net EXCEPT ![r].phase = IF failed THEN "failed" ELSE "loaded"]
  /\ IF Selected(r) /\ write.lifecycle = "ACTIVE"
       THEN /\ write' = [write EXCEPT !.lifecycle = WriteVerdict(failed)]
            /\ stream' = OnTransportSettled(stream, WriteVerdict(failed) = "FAILED")
       ELSE UNCHANGED trackerVars
  /\ UNCHANGED <<body, sent>>

Network ==
  \/ \E r \in Requests :
       \/ RequestSent(r)
       \/ RequestRedirected(r)
       \/ RequestSentAgain(r)
       \/ \E ok, available \in BOOLEAN : ResponseReceived(r, ok, available)
       \/ \E record \in Records : DataReceived(r, record)
       \/ \E failed \in BOOLEAN : RequestSettled(r, failed)
  \/ StreamTapped
  \/ ActivationAnswered
  \/ ActivationFailed

Next ==
  \/ Network /\ UNCHANGED taken
  \/ ArmObservation /\ taken' = <<>>
  \/ ReleaseObservation /\ UNCHANGED taken
  \/ Take
  \/ DiscardResponse

Spec == Init /\ [][Next]_vars

-----------------------------------------------------------------------------
Readable == write.armed /\ ~ write.ambiguous

InFlight(r) == net[r].phase \in {"sent", "responded"}

Positions == 1..MaxBody

(* Types, and the bounds on the two buffers of a response. *)
TypeOK ==
  /\ net \in [Requests -> [phase : {"unsent", "sent", "responded", "loaded", "failed"},
                           ok : BOOLEAN, redirected : BOOLEAN]]
  /\ body \in [Requests -> Seq(Records)]
  /\ sent \subseteq Requests
  /\ write \in [armed : BOOLEAN, request : Requests \cup {None}, ok : BOOLEAN,
                redirected : BOOLEAN, ambiguous : BOOLEAN,
                lifecycle : {"NONE", "ACTIVE", "FINISHED", "FAILED"}]
  /\ stream \in [lifecycle : {"PENDING", "STREAMING", "COMPLETED", "FAILED"},
                 call : {"none", "sent", "tapped", "answered"}, tapped : Nat,
                 activation : {"none", "pending", "done"}, early : BOOLEAN,
                 live : Seq(Positions), queue : Seq(Positions),
                 held : BOOLEAN, disposed : BOOLEAN]
  /\ Len(stream.live) <= MaxLive
  /\ Len(stream.queue) <= MaxQueued
  /\ taken \in Seq(Positions)

(* A write reported as FINISHED is the only one since the observation was   *)
(* armed, and the browser loaded its 2xx response without redirection: what *)
(* the executor calls a settled turn really was accepted by the service.    *)
FinishedIsTheWrite ==
  Readable /\ write.lifecycle = "FINISHED" =>
    /\ sent = {write.request}
    /\ net[write.request] = [phase |-> "loaded", ok |-> TRUE, redirected |-> FALSE]

(* A settled write leaves no response open: once the answer to the           *)
(* activation is there, the stream has completed or failed, whichever of the *)
(* two came first, so a turn that waits for either never waits for nothing.  *)
SettledWriteClosesTheStream ==
  Readable /\ write.lifecycle \in {"FINISHED", "FAILED"} =>
    Terminal(stream) \/ stream.activation = "pending"

(* q names, in their order, the texts among the first n records of b. *)
ListsTexts(q, b, n) ==
  /\ {q[j] : j \in DOMAIN q} = {i \in 1..n : b[i] = "text"}
  /\ \A j, k \in DOMAIN q : j < k => q[j] < q[k]

(* What the owner drained and what is queued for it is the body's text from  *)
(* its beginning, without a gap and in order, whether it came buffered or    *)
(* live.                                                                     *)
TextIsInOrder ==
  Readable /\ write.request # None =>
    LET b == body[write.request]
    IN \E n \in 0..Len(b) : ListsTexts(taken \o stream.queue, b, n)

(* A response reported as COMPLETED ended with a done, and unless its owner  *)
(* discarded it, all its text was drained or is queued.                      *)
CompletedIsWhole ==
  Readable /\ stream.lifecycle = "COMPLETED" =>
    LET b == body[write.request]
    IN \E i \in DOMAIN b :
         /\ b[i] \in {"done", "half"}
         /\ ListsTexts(taken \o stream.queue, b, i) \/ stream.activation = "none"

=============================================================================

------------------------ MODULE ThreadwireHttpServer ------------------------
(***************************************************************************)
(* The HTTP server (api/ThreadwireHttpServer.ts) over the controller: the  *)
(* handlers of turns, Project creations and recoveries, and the response   *)
(* each of them writes to a client that may go away or stop reading.       *)
(*                                                                         *)
(* Every step of a handler that calls the controller is one step of the    *)
(* controller; the others leave it alone.  A handler whose turn has        *)
(* returned goes on before its client can be heard again: nothing but      *)
(* promises is between the last event of the turn and its result.          *)
(*                                                                         *)
(* Reading the health and the known threads changes nothing and is left    *)
(* out, and so are the boundary checks and the answers they give.          *)
(***************************************************************************)
EXTENDS ThreadwireController, FiniteSets

CONSTANT MaxInflight   \* maxInflightTurns

ASSUME MaxInflightAssumption == MaxInflight \in Nat \ {0}

VARIABLES
  http,      \* each request at its handler: see NewExchange
  inflight   \* inflightTurns

httpVars == <<http, inflight>>

Steps == {"new", "body", "called", "result", "ending", "done"}

Exchange == [step : Steps,
             here : BOOLEAN,        \* ~ response.destroyed
             open : BOOLEAN,        \* transportOpen
             completed : BOOLEAN,   \* domainCompleted
             whole : BOOLEAN]       \* COMPLETED was written

NewExchange ==
  [step |-> "new", here |-> TRUE, open |-> TRUE, completed |-> FALSE, whole |-> FALSE]

HttpInit ==
  /\ Init
  /\ http = [r \in Reqs |-> NewExchange]
  /\ inflight = 0

IsTurn(t) == t \in {"FRESH", "PROJECT"} \cup Handles

(* What is left of an exchange without COMPLETED, whatever its answer was. *)
Over == [NewExchange EXCEPT !.step = "done"]

(* The handler of r returns, with the finally blocks that lead out of it. *)
Return(r, exchange) ==
  /\ http' = [http EXCEPT ![r] = exchange]
  /\ inflight' = inflight - 1

-----------------------------------------------------------------------------
(* An event of the outside is heard when no handler has a result at hand:  *)
(* the promises that lead from a turn to its handler run before it.        *)
Quiet == \A r \in Reqs : http[r].step # "result"

(* Turns, Project creations and recoveries share the requests in flight.   *)
Reject(r) ==
  /\ Quiet
  /\ http[r].step = "new" /\ inflight >= MaxInflight
  /\ http' = [http EXCEPT ![r] = Over]
  /\ UNCHANGED <<inflight, vars>>

Admit(r) ==
  /\ Quiet
  /\ http[r].step = "new" /\ inflight < MaxInflight
  /\ http' = [http EXCEPT ![r].step = "body"]
  /\ inflight' = inflight + 1
  /\ UNCHANGED vars

(* Mutant of BodyRefused: the early return gives no slot back. *)
BodyRefusedForGood(r) ==
  /\ http[r].step = "body"
  /\ http' = [http EXCEPT ![r] = Over]
  /\ UNCHANGED <<inflight, vars>>

(* The wrong type of content, a body that is too large, malformed or cut   *)
(* off by its client.                                                      *)
BodyRefused(r) ==
  /\ Quiet
  /\ http[r].step = "body"
  /\ Return(r, Over)
  /\ UNCHANGED vars

(* The controller takes the request, and the stream of a turn is opened;   *)
(* or it throws at once.                                                   *)
Call(r) ==
  /\ Quiet
  /\ http[r].step = "body"
  /\ \/ /\ Submit(r)
        /\ http' = [http EXCEPT ![r].step = "called"]
        /\ UNCHANGED inflight
     \/ SubmitRefused(r) /\ Return(r, Over)

(* The promise of the controller has rejected, or a Project creation or a  *)
(* recovery has succeeded: one answer, and the handler returns.            *)
Respond(r, exchange) ==
  IF pc'[r] = "answered"
    THEN Return(r, Over)
    ELSE http' = [http EXCEPT ![r] = exchange] /\ UNCHANGED inflight

(* The controller serves the request. *)
Serve(r) ==
  /\ http[r].step = "called"
  /\ \/ Quiet /\ Advance(r)
     \/ ~ Quiet /\ Start(r)
  /\ Respond(r, http[r])

(* The signal of r is aborted, if it was not before. *)
AbortSignal(r) == IF r \notin aborted THEN ClientGone(r) ELSE UNCHANGED vars

(* request 'aborted', response 'close': nothing is aborted any more once   *)
(* the response has ended.                                                 *)
ClientCloses(r) ==
  /\ Quiet
  /\ http[r].here
  /\ \/ /\ http[r].step = "called"
        /\ AbortSignal(r)
        /\ Respond(r, [http[r] EXCEPT !.here = FALSE])
     \/ /\ http[r].step = "ending"
        /\ http' = [http EXCEPT ![r].here = FALSE]
        /\ UNCHANGED <<inflight, vars>>

(* The listener of a turn finds the buffer of the response full.           *)
BufferOverflows(r) ==
  /\ Quiet
  /\ http[r].step = "called" /\ pc[r] = "working" /\ IsTurn(target[r])
  /\ http[r].open /\ http[r].here
  /\ AbortSignal(r)
  /\ http' = [http EXCEPT ![r].open = FALSE]
  /\ UNCHANGED inflight

-----------------------------------------------------------------------------
(* The listener takes COMPLETED only while the response can be written. *)
HearsCompleted(r) == http[r].open /\ http[r].here

TurnReturns(r) ==
  /\ Quiet
  /\ http[r].step = "called"
  /\ TurnDone(r) \/ ProjectTurnDone(r)
  /\ http' = [http EXCEPT ![r].step = "result", ![r].completed = HearsCompleted(r)]
  /\ UNCHANGED inflight

Writable(r) == http[r].completed /\ http[r].open /\ http[r].here

WriteCompleted(r) ==
  /\ http[r].step = "result" /\ Writable(r)
  /\ http' = [http EXCEPT ![r].step = "ending", ![r].whole = TRUE]
  /\ UNCHANGED <<inflight, vars>>

(* Mutant of CompletedOverflows: nobody looks at what the write returned. *)
CompletedOverflowsUnseen(r) ==
  /\ http[r].step = "result" /\ Writable(r)
  /\ http' = [http EXCEPT ![r].step = "ending"]
  /\ UNCHANGED <<inflight, vars>>

(* COMPLETED does not fit in the buffer of the response. *)
CompletedOverflows(r) ==
  /\ http[r].step = "result" /\ Writable(r)
  /\ Undelivered(r)
  /\ Return(r, Over)

(* The last test of the handler is of transportOpen alone: it relies on    *)
(* the listener for a response that was destroyed before COMPLETED.        *)
NotWritten(r) ==
  /\ http[r].step = "result" /\ ~ Writable(r)
  /\ IF http[r].completed /\ http[r].open THEN Delivered(r) ELSE Undelivered(r)
  /\ Return(r, Over)

(* finishSseResponse(): 'finish' comes before 'close', or 'close' does.    *)
Finish(r) ==
  /\ Quiet
  /\ http[r].step = "ending" /\ http[r].here
  /\ Delivered(r)
  /\ Return(r, [http[r] EXCEPT !.step = "done"])

Lost(r) ==
  /\ Quiet
  /\ http[r].step = "ending" /\ ~ http[r].here
  /\ Undelivered(r)
  /\ Return(r, [http[r] EXCEPT !.step = "done"])

-----------------------------------------------------------------------------
HandlerNext(r) ==
  \/ Reject(r) \/ Admit(r) \/ BodyRefused(r) \/ Call(r) \/ Serve(r) \/ ClientCloses(r)
  \/ BufferOverflows(r) \/ TurnReturns(r) \/ WriteCompleted(r) \/ CompletedOverflows(r)
  \/ NotWritten(r) \/ Finish(r) \/ Lost(r)

HttpNext ==
  \/ \E r \in Reqs : HandlerNext(r)
  \/ \E id \in Identities \cup {NoIdentity} : Quiet /\ RuntimeObserved(id) /\ UNCHANGED httpVars

HttpSpec == HttpInit /\ [][HttpNext]_<<vars, httpVars>>

-----------------------------------------------------------------------------
(* The types of the state, and the count of the requests in flight is that *)
(* of the handlers that run, within its limit: every way out of a handler  *)
(* gives its slot back, and none gives it back twice.                      *)
HttpTypeOK ==
  /\ TypeOK
  /\ http \in [Reqs -> Exchange]
  /\ inflight = Cardinality({r \in Reqs : http[r].step \notin {"new", "done"}})
  /\ inflight <= MaxInflight

(* ThreadwireHttpServer.ts:643: a Project turn is committed exactly when   *)
(* its client was there until the whole response, with COMPLETED, had been *)
(* taken; and when its handler returns it has been decided.                *)
CommittedMeansDelivered ==
  \A r \in Reqs :
    /\ settlement[r] = "committed" =>
         http[r].step = "done" /\ http[r].whole /\ http[r].here
    /\ http[r].step = "done" =>
         settlement[r] \in {"unused",
           IF http[r].whole /\ http[r].here THEN "committed" ELSE "rolledBack"}

=============================================================================

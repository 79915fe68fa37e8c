------------------------ MODULE TurnObservationProofs ------------------------
(***************************************************************************)
(* What a turn may believe of its write and of the response to it, for any *)
(* number of requests, any bodies and any bounds.                          *)
(*                                                                         *)
(* WriteInv relates the tracker's ActiveTurnObservation to what the        *)
(* requests really are: the write reported as finished is the one write    *)
(* the browser sent and loaded.  The response stream takes no part in it.  *)
(*                                                                         *)
(* ResponseInv relates the stream to the body of that write.  Until the    *)
(* streaming call is answered, its tap and the live data are a suffix of   *)
(* what has arrived (CatchesUp); from then on, what was drained and what   *)
(* is queued list the texts of the body from its start (Reads), up to its  *)
(* end when the stream says it is complete.                                *)
(*                                                                         *)
(* ConsumeAll folds over a set of positions, which no installed prover     *)
(* unfolds by itself.  NatInductionOnSets, a least-number argument, gives  *)
(* the run of the parser over a batch step by step (ConsumeAllRuns).       *)
(***************************************************************************)
EXTENDS TurnObservation, WellFoundedInduction, TLAPS

Phases == {"unsent", "sent", "responded", "loaded", "failed"}

NetTyped ==
  /\ net \in [Requests -> [phase : Phases, ok : BOOLEAN, redirected : BOOLEAN]]
  /\ \A r \in Requests : net[r].phase = "unsent" => net[r] = Unsent

WriteRecord ==
  [armed : BOOLEAN, request : Requests \cup {None}, ok : BOOLEAN, redirected : BOOLEAN,
   ambiguous : BOOLEAN, lifecycle : {"NONE", "ACTIVE", "FINISHED", "FAILED"}]

WriteTyped ==
  /\ sent \subseteq Requests
  /\ write \in WriteRecord

(* Nothing is selected: nothing was sent since the observation was armed. *)
UnselectedIsFresh ==
  write.armed /\ write.request = None =>
    /\ sent = {}
    /\ ~ write.ok /\ ~ write.redirected /\ ~ write.ambiguous
    /\ write.lifecycle = "NONE"

(* What the tracker knows of the selected request, unless it gave up on it. *)
SelectedIsTrue ==
  write.armed /\ write.request # None /\ ~ write.ambiguous =>
    LET n == net[write.request]
    IN /\ sent = {write.request}
       /\ write.redirected = n.redirected
       /\ write.lifecycle \in {"ACTIVE", "FINISHED", "FAILED"}
       /\ write.lifecycle = "ACTIVE" =>
            /\ n.phase \in {"sent", "responded"}
            /\ write.ok => n.phase = "responded" /\ n.ok
       /\ write.lifecycle = "FINISHED" => n = [phase |-> "loaded", ok |-> TRUE, redirected |-> FALSE]
       /\ write.lifecycle = "FAILED" => n.phase \in {"loaded", "failed"}

WriteInv == NetTyped /\ WriteTyped /\ UnselectedIsFresh /\ SelectedIsTrue

Fresh(w) ==
  /\ w \in WriteRecord
  /\ w.request = None /\ w.lifecycle = "NONE"
  /\ ~ w.ok /\ ~ w.redirected /\ ~ w.ambiguous

(* An observation starts, and ends, without a selected write. *)
LEMMA NoWriteIsFresh == Fresh(NoWrite) /\ ~ NoWrite.armed
BY DEF Fresh, NoWrite, WriteRecord

LEMMA ArmedIsFresh ==
  ASSUME NEW w, w = [NoWrite EXCEPT !.armed = TRUE]
  PROVE  Fresh(w) /\ w.armed
BY NoWriteIsFresh DEF Fresh, WriteRecord

LEMMA InitWrite == Init => WriteInv
<1>. SUFFICES ASSUME Init PROVE WriteInv
  OBVIOUS
<1>1. WriteTyped /\ ~ write.armed
  BY NoWriteIsFresh DEF WriteTyped, Init, Fresh
<1>2. NetTyped
  BY DEF NetTyped, Init, Unsent, Phases
<1>. QED
  BY <1>1, <1>2 DEF WriteInv, UnselectedIsFresh, SelectedIsTrue

-----------------------------------------------------------------------------
(* The steps of WriteInv, one lemma per kind of step.                       *)

(* The response stream and its owner leave the write alone. *)
LEMMA StreamKeepsWrite ==
  ASSUME WriteInv, UNCHANGED <<net, sent, write>>
  PROVE  WriteInv'
BY DEF WriteInv, NetTyped, WriteTyped, UnselectedIsFresh, SelectedIsTrue

LEMMA ArmKeepsWrite ==
  ASSUME WriteInv, ArmObservation
  PROVE  WriteInv'
<1>1. Fresh(write') /\ sent' = {} /\ net' = net
  BY ArmedIsFresh DEF ArmObservation
<1>. QED
  BY <1>1 DEF WriteInv, NetTyped, WriteTyped, UnselectedIsFresh, SelectedIsTrue, Fresh

LEMMA ReleaseKeepsWrite ==
  ASSUME WriteInv, ReleaseObservation
  PROVE  WriteInv'
<1>1. Fresh(write') /\ ~ write'.armed /\ UNCHANGED <<net, sent>>
  BY NoWriteIsFresh DEF ReleaseObservation, networkVars
<1>. QED
  BY <1>1 DEF WriteInv, NetTyped, WriteTyped, UnselectedIsFresh, SelectedIsTrue, Fresh

(* A write that was selected and has become ambiguous claims nothing. *)
LEMMA AmbiguousClaimsNothing ==
  ASSUME WriteInv, write.request # None, Ambiguous, NetTyped', sent' \subseteq Requests
  PROVE  WriteInv'
BY DEF WriteInv, WriteTyped, WriteRecord, UnselectedIsFresh, SelectedIsTrue, Ambiguous

(* A request starts, or is redirected to, a WRITE: the first one is selected. *)
LEMMA NewWriteIsSelected ==
  ASSUME WriteInv, NEW r \in Requests, write.armed, NewWrite(r), NetTyped',
         sent' = sent \cup {r}, net'[r].phase = "sent", ~ net'[r].redirected
  PROVE  WriteInv'
<1>1. CASE write.request # None
  <2>1. Ambiguous
    BY <1>1 DEF NewWrite
  <2>2. sent' \subseteq Requests
    BY DEF WriteInv, WriteTyped
  <2>. QED
    BY <1>1, <2>1, <2>2, AmbiguousClaimsNothing
<1>2. CASE write.request = None
  <2>1. write' = [write EXCEPT !.request = r, !.lifecycle = "ACTIVE"]
    BY <1>2 DEF NewWrite
  <2>2. r # None
    BY RequestsAssumption
  <2>3. sent = {} /\ ~ write.ok /\ ~ write.redirected /\ write \in WriteRecord
    BY <1>2 DEF WriteInv, UnselectedIsFresh, WriteTyped
  <2>4. /\ write' \in WriteRecord /\ write'.request = r /\ write'.lifecycle = "ACTIVE"
        /\ write'.ok = write.ok /\ write'.redirected = write.redirected
    BY <2>1, <2>3 DEF WriteRecord
  <2>. QED
    BY <2>2, <2>3, <2>4
       DEF WriteInv, NetTyped, WriteTyped, UnselectedIsFresh, SelectedIsTrue, WriteRecord
<1>. QED
  BY <1>1, <1>2

(* Only the phase, ok and redirected of one request change. *)
LEMMA NetStaysTyped ==
  ASSUME NetTyped, NEW r \in Requests, NEW n \in [phase : Phases, ok : BOOLEAN, redirected : BOOLEAN],
         n.phase # "unsent", net' = [net EXCEPT ![r] = n]
  PROVE  NetTyped' /\ net'[r] = n /\ \A q \in Requests \ {r} : net'[q] = net[q]
BY DEF NetTyped

LEMMA SentKeepsWrite ==
  ASSUME WriteInv, NEW r \in Requests, RequestSent(r)
  PROVE  WriteInv'
<1>1. NetTyped' /\ net'[r].phase = "sent" /\ ~ net'[r].redirected
      /\ \A q \in Requests \ {r} : net'[q] = net[q]
  <2>1. net[r] = Unsent /\ net[r] \in [phase : Phases, ok : BOOLEAN, redirected : BOOLEAN]
    BY DEF WriteInv, NetTyped, RequestSent
  <2>2. net' = [net EXCEPT ![r] = [net[r] EXCEPT !.phase = "sent"]]
    BY DEF WriteInv, NetTyped, RequestSent
  <2>3. ~ net[r].redirected
    BY <2>1 DEF Unsent
  <2>4. /\ [net[r] EXCEPT !.phase = "sent"] \in [phase : Phases, ok : BOOLEAN, redirected : BOOLEAN]
        /\ [net[r] EXCEPT !.phase = "sent"].phase = "sent"
        /\ ~ [net[r] EXCEPT !.phase = "sent"].redirected
    BY <2>1, <2>3 DEF Phases
  <2>. QED
    BY <2>2, <2>4, NetStaysTyped DEF WriteInv
<1>2. CASE write.armed
  <2>1. NewWrite(r) /\ sent' = sent \cup {r}
    BY <1>2 DEF RequestSent
  <2>. QED
    BY <1>1, <1>2, <2>1, NewWriteIsSelected
<1>3. CASE ~ write.armed
  <2>1. write' = write /\ sent' \subseteq Requests
    BY <1>3 DEF RequestSent, trackerVars, WriteInv, WriteTyped
  <2>. QED
    BY <1>1, <1>3, <2>1 DEF WriteInv, WriteTyped, UnselectedIsFresh, SelectedIsTrue
<1>. QED
  BY <1>2, <1>3 DEF WriteInv, WriteTyped, WriteRecord

LEMMA RedirectedKeepsWrite ==
  ASSUME WriteInv, NEW r \in Requests, RequestRedirected(r)
  PROVE  WriteInv'
<1>1. net[r].phase = "sent" /\ net[r] \in [phase : Phases, ok : BOOLEAN, redirected : BOOLEAN]
  BY DEF RequestRedirected, WriteInv, NetTyped
<1>2. CASE Selected(r) /\ net' = [net EXCEPT ![r].redirected = TRUE] /\ UNCHANGED sent
           /\ write' = [write EXCEPT !.redirected = TRUE, !.ok = FALSE]
  <2>1. NetTyped' /\ net'[r] = [net[r] EXCEPT !.redirected = TRUE]
    <3>1. net' = [net EXCEPT ![r] = [net[r] EXCEPT !.redirected = TRUE]]
      BY <1>2 DEF WriteInv, NetTyped
    <3>. QED
      BY <3>1, <1>1, NetStaysTyped DEF WriteInv
  <2>2. /\ write' \in WriteRecord /\ write'.redirected /\ ~ write'.ok
        /\ write'.armed = write.armed /\ write'.request = write.request
        /\ write'.ambiguous = write.ambiguous /\ write'.lifecycle = write.lifecycle
    BY <1>2 DEF WriteInv, WriteTyped, WriteRecord
  <2>3. net'[r].phase = "sent" /\ net'[r].redirected
    BY <2>1, <1>1
  <2>4. write.request = r /\ r # None
    BY <1>2, RequestsAssumption DEF Selected
  <2>5. ~ write.ambiguous => write.lifecycle = "ACTIVE"
    BY <1>1, <1>2, <2>4 DEF WriteInv, SelectedIsTrue, Selected
  <2>6. WriteTyped' /\ UnselectedIsFresh'
    BY <1>2, <2>2, <2>4 DEF WriteInv, WriteTyped, UnselectedIsFresh
  <2>7. SelectedIsTrue'
    BY <1>2, <2>2, <2>3, <2>4, <2>5 DEF WriteInv, SelectedIsTrue
  <2>. QED
    BY <2>1, <2>6, <2>7 DEF WriteInv
<1>3. CASE write.armed /\ NewWrite(r) /\ sent' = sent \cup {r}
           /\ net' = [net EXCEPT ![r].redirected = FALSE]
  <2>1. NetTyped' /\ net'[r] = [net[r] EXCEPT !.redirected = FALSE]
    <3>1. net' = [net EXCEPT ![r] = [net[r] EXCEPT !.redirected = FALSE]]
      BY <1>3 DEF WriteInv, NetTyped
    <3>. QED
      BY <3>1, <1>1, NetStaysTyped DEF WriteInv
  <2>2. net'[r].phase = "sent" /\ ~ net'[r].redirected
    BY <2>1, <1>1
  <2>. QED
    BY <1>3, <2>1, <2>2, NewWriteIsSelected
<1>. QED
  BY <1>2, <1>3 DEF RequestRedirected

LEMMA SentAgainKeepsWrite ==
  ASSUME WriteInv, NEW r \in Requests, RequestSentAgain(r)
  PROVE  WriteInv'
<1>1. write.request # None /\ Ambiguous /\ UNCHANGED <<net, sent>>
  BY RequestsAssumption DEF RequestSentAgain, Selected, networkVars
<1>2. NetTyped' /\ sent' \subseteq Requests
  BY <1>1 DEF WriteInv, NetTyped, WriteTyped
<1>. QED
  BY <1>1, <1>2, AmbiguousClaimsNothing

LEMMA ResponseKeepsWrite ==
  ASSUME WriteInv, NEW r \in Requests, NEW ok \in BOOLEAN, NEW available \in BOOLEAN,
         ResponseReceived(r, ok, available)
  PROVE  WriteInv'
<1>1. /\ net[r].phase = "sent" /\ net[r] \in [phase : Phases, ok : BOOLEAN, redirected : BOOLEAN]
      /\ net' = [net EXCEPT ![r] = [net[r] EXCEPT !.phase = "responded", !.ok = ok]]
  BY DEF ResponseReceived, WriteInv, NetTyped
<1>2. /\ NetTyped'
      /\ net'[r].phase = "responded" /\ net'[r].ok = ok /\ net'[r].redirected = net[r].redirected
      /\ \A q \in Requests \ {r} : net'[q] = net[q]
  <2>1. LET n == [net[r] EXCEPT !.phase = "responded", !.ok = ok]
        IN /\ n \in [phase : Phases, ok : BOOLEAN, redirected : BOOLEAN]
           /\ n.phase = "responded" /\ n.ok = ok /\ n.redirected = net[r].redirected
    BY <1>1 DEF Phases
  <2>2. NetTyped' /\ net'[r] = [net[r] EXCEPT !.phase = "responded", !.ok = ok]
        /\ \A q \in Requests \ {r} : net'[q] = net[q]
    BY <1>1, <2>1, NetStaysTyped DEF WriteInv
  <2>. QED
    BY <2>1, <2>2
<1>3. sent' = sent
  BY DEF ResponseReceived
<1>4. CASE Selected(r) /\ write' = [write EXCEPT !.ok = ok]
  <2>1. /\ write' \in WriteRecord /\ write'.ok = ok /\ write'.redirected = write.redirected
        /\ write'.armed = write.armed /\ write'.request = write.request
        /\ write'.ambiguous = write.ambiguous /\ write'.lifecycle = write.lifecycle
    BY <1>4 DEF WriteInv, WriteTyped, WriteRecord
  <2>2. write.request = r /\ r # None
    BY <1>4, RequestsAssumption DEF Selected
  <2>. QED
    BY <1>1, <1>2, <1>3, <2>1, <2>2
       DEF WriteInv, WriteTyped, UnselectedIsFresh, SelectedIsTrue
<1>5. CASE /\ write' = write
           /\ Selected(r) => write.lifecycle # "ACTIVE" \/ write.redirected
  <2>1. CASE Selected(r) /\ ~ write.ambiguous
    <3>1. write.request = r /\ r # None /\ write.armed
      BY <2>1, RequestsAssumption DEF Selected
    <3>2. write.lifecycle = "ACTIVE" /\ write.redirected /\ ~ write.ok
      BY <1>1, <1>5, <2>1, <3>1 DEF WriteInv, SelectedIsTrue
    <3>. QED
      BY <1>1, <1>2, <1>3, <1>5, <3>1, <3>2
         DEF WriteInv, WriteTyped, UnselectedIsFresh, SelectedIsTrue
  <2>2. CASE ~ (Selected(r) /\ ~ write.ambiguous)
    BY <1>2, <1>3, <1>5, <2>2
       DEF WriteInv, WriteTyped, WriteRecord, UnselectedIsFresh, SelectedIsTrue, Selected
  <2>. QED
    BY <2>1, <2>2
<1>. QED
  BY <1>4, <1>5 DEF ResponseReceived, trackerVars

LEMMA SettledKeepsWrite ==
  ASSUME WriteInv, NEW r \in Requests, NEW failed \in BOOLEAN, RequestSettled(r, failed)
  PROVE  WriteInv'
<1>. DEFINE after == IF failed THEN "failed" ELSE "loaded"
<1>1. /\ net[r].phase \in {"sent", "responded"}
      /\ net[r] \in [phase : Phases, ok : BOOLEAN, redirected : BOOLEAN]
      /\ net' = [net EXCEPT ![r] = [net[r] EXCEPT !.phase = after]]
  BY DEF RequestSettled, WriteInv, NetTyped
<1>2. /\ NetTyped'
      /\ net'[r] \in [phase : Phases, ok : BOOLEAN, redirected : BOOLEAN]
      /\ net'[r].phase = after /\ net'[r].ok = net[r].ok /\ net'[r].redirected = net[r].redirected
      /\ \A q \in Requests \ {r} : net'[q] = net[q]
  <2>1. PICK n : n = [net[r] EXCEPT !.phase = after]
    OBVIOUS
  <2>2. /\ n \in [phase : Phases, ok : BOOLEAN, redirected : BOOLEAN] /\ n.phase # "unsent"
        /\ n.phase = after /\ n.ok = net[r].ok /\ n.redirected = net[r].redirected
    BY <1>1, <2>1 DEF Phases
  <2>3. NetTyped /\ net' = [net EXCEPT ![r] = n]
    BY <1>1, <2>1 DEF WriteInv
  <2>4. NetTyped' /\ net'[r] = n /\ \A q \in Requests \ {r} : net'[q] = net[q]
    BY <2>2, <2>3, NetStaysTyped
  <2>. QED
    BY <2>2, <2>4
<1>3. sent' = sent
  BY DEF RequestSettled
<1>4. CASE /\ Selected(r) /\ write.lifecycle = "ACTIVE"
           /\ write' = [write EXCEPT !.lifecycle = WriteVerdict(failed)]
  <2>1. /\ write' \in WriteRecord /\ write'.ok = write.ok /\ write'.redirected = write.redirected
        /\ write'.armed = write.armed /\ write'.request = write.request
        /\ write'.ambiguous = write.ambiguous /\ write'.lifecycle = WriteVerdict(failed)
    BY <1>4 DEF WriteInv, WriteTyped, WriteRecord, WriteVerdict
  <2>2. write.request = r /\ r # None
    BY <1>4, RequestsAssumption DEF Selected
  <2>3. CASE write.ambiguous
    BY <1>2, <1>3, <2>1, <2>2, <2>3
       DEF WriteInv, WriteTyped, UnselectedIsFresh, SelectedIsTrue
  <2>4. CASE ~ write.ambiguous
    <3>1. /\ sent = {r} /\ write.redirected = net[r].redirected
          /\ write.ok => net[r].ok
      BY <1>4, <2>2, <2>4 DEF WriteInv, SelectedIsTrue, Selected
    <3>2. WriteVerdict(failed) = "FINISHED" =>
            /\ ~ failed /\ net[r].ok /\ ~ net[r].redirected
      BY <3>1 DEF WriteVerdict
    <3>3. WriteVerdict(failed) = "FINISHED" =>
            net'[r] = [phase |-> "loaded", ok |-> TRUE, redirected |-> FALSE]
      BY <1>1, <1>2, <3>2
    <3>4. WriteVerdict(failed) \in {"FINISHED", "FAILED"} /\ after \in {"loaded", "failed"}
      BY DEF WriteVerdict
    <3>. QED
      BY <1>2, <1>3, <2>1, <2>2, <3>1, <3>3, <3>4
         DEF WriteInv, WriteTyped, UnselectedIsFresh, SelectedIsTrue
  <2>. QED
    BY <2>3, <2>4
<1>5. CASE write' = write /\ ~ (Selected(r) /\ write.lifecycle = "ACTIVE")
  <2>1. ~ (Selected(r) /\ ~ write.ambiguous)
    BY <1>1, <1>5, RequestsAssumption DEF WriteInv, SelectedIsTrue, Selected
  <2>. QED
    BY <1>2, <1>3, <1>5, <2>1
       DEF WriteInv, WriteTyped, WriteRecord, UnselectedIsFresh, SelectedIsTrue, Selected
<1>. QED
  BY <1>4, <1>5 DEF RequestSettled, trackerVars

-----------------------------------------------------------------------------

LEMMA NetworkKeepsWrite ==
  ASSUME WriteInv, Network
  PROVE  WriteInv'
<1>1. CASE \E r \in Requests : RequestSent(r)
  BY <1>1, SentKeepsWrite
<1>2. CASE \E r \in Requests : RequestRedirected(r)
  BY <1>2, RedirectedKeepsWrite
<1>3. CASE \E r \in Requests : RequestSentAgain(r)
  BY <1>3, SentAgainKeepsWrite
<1>4. CASE \E r \in Requests, ok, available \in BOOLEAN : ResponseReceived(r, ok, available)
  BY <1>4, ResponseKeepsWrite
<1>5. CASE \E r \in Requests, record \in Records : DataReceived(r, record)
  BY <1>5, StreamKeepsWrite DEF DataReceived
<1>6. CASE \E r \in Requests, failed \in BOOLEAN : RequestSettled(r, failed)
  BY <1>6, SettledKeepsWrite
<1>7. CASE StreamTapped \/ ActivationAnswered \/ ActivationFailed
  BY <1>7, StreamKeepsWrite DEF StreamTapped, ActivationAnswered, ActivationFailed, networkVars
<1>. QED
  BY <1>1, <1>2, <1>3, <1>4, <1>5, <1>6, <1>7 DEF Network

LEMMA StepKeepsWrite == WriteInv /\ [Next]_vars => WriteInv'
<1>. SUFFICES ASSUME WriteInv, [Next]_vars PROVE WriteInv'
  OBVIOUS
<1>1. CASE Network
  BY <1>1, NetworkKeepsWrite
<1>2. CASE ArmObservation
  BY <1>2, ArmKeepsWrite
<1>3. CASE ReleaseObservation
  BY <1>3, ReleaseKeepsWrite
<1>4. CASE Take \/ DiscardResponse \/ UNCHANGED vars
  BY <1>4, StreamKeepsWrite DEF Take, DiscardResponse, vars, networkVars, trackerVars
<1>. QED
  BY <1>1, <1>2, <1>3, <1>4 DEF Next

(* What the tracker reports as FINISHED is the only write since it was armed, *)
(* and the browser loaded its successful response without a redirection.      *)
THEOREM FinishedWriteIsReal == Spec => []FinishedIsTheWrite
<1>1. WriteInv => FinishedIsTheWrite
  BY DEF WriteInv, WriteTyped, WriteRecord, UnselectedIsFresh, SelectedIsTrue,
         FinishedIsTheWrite, Readable
<1>. QED
  BY <1>1, InitWrite, StepKeepsWrite, PTL DEF Spec


-----------------------------------------------------------------------------
(* Recursion: the least-number principle, and from it that ConsumeAll reads *)
(* its positions one after the other.                                       *)

Below == {ss \in Nat \X Nat : ss[1] < ss[2]}

LEMMA LeastNat ==
  ASSUME NEW T, T \subseteq Nat, T # {}
  PROVE  \E x \in T : \A y \in T : x <= y
<1>1. IsWellFoundedOn(Below, Nat)
  BY NatLessThanWellFounded DEF OpToRel, Below
<1>2. PICK x \in T : \A y \in T : ~ (<<y, x>> \in Below)
  BY <1>1, WFMin
<1>3. \A y, z \in Nat : <<y, z>> \in Below <=> y < z
  BY DEF Below
<1>4. \A y \in T : ~ (y < x)
  BY <1>2, <1>3
<1>. QED
  BY <1>2, <1>4

(* What holds of zero, and of each successor, holds of every number. *)
LEMMA NatInductionOnSets ==
  ASSUME NEW T, 0 \in T, \A n \in Nat : n \in T => n + 1 \in T
  PROVE  Nat \subseteq T
<1>. SUFFICES ASSUME Nat \ T # {} PROVE FALSE
  OBVIOUS
<1>1. PICK x \in Nat \ T : \A y \in Nat \ T : x <= y
  BY LeastNat
<1>2. x - 1 \in Nat /\ x - 1 \in T
  BY <1>1
<1>. QED
  BY <1>1, <1>2

(* Max chooses the greatest of finitely many numbers. *)
LEMMA MaxOfNats ==
  ASSUME NEW m \in Nat, NEW t \in SUBSET (1..m), t # {}
  PROVE  Max(t) \in t /\ \A y \in t : y <= Max(t)
<1>. DEFINE D == {m - x : x \in t}
<1>1. PICK d \in D : \A e \in D : d <= e
  <2>1. \A x \in t : m - x \in Nat
    OBVIOUS
  <2>2. D \subseteq Nat /\ D # {}
    BY <2>1
  <2>. HIDE DEF D
  <2>. QED
    BY <2>2, LeastNat
<1>2. PICK x \in t : d = m - x
  OBVIOUS
<1>3. \A y \in t : y <= x
  BY <1>1, <1>2
<1>. QED
  BY <1>3 DEF Max

(* A batch is consumed one record after the other, in its order. *)
LEMMA ConsumeAllRuns ==
  ASSUME NEW b, NEW s, NEW p \in Seq(Nat)
  PROVE  \E F : /\ F[0] = s
                /\ \A k \in 1..Len(p) : F[k] = Consume(b, F[k - 1], p[k])
                /\ ConsumeAll(b, s, p) = F[Len(p)]
<1>. DEFINE Folds(f, D) ==
       f = [t \in SUBSET D |-> IF t = {} THEN s ELSE Consume(b, f[t \ {Max(t)}], p[Max(t)])]
            T == {m \in Nat : \E f : Folds(f, 1..m)}
<1>1. 0 \in T
  <2>1. Folds([t \in SUBSET (1..0) |-> s], 1..0)
    OBVIOUS
  <2>. QED
    BY <2>1
<1>2. ASSUME NEW m \in Nat, m \in T PROVE m + 1 \in T
  <2>1. PICK f : Folds(f, 1..m)
    BY <1>2
  <2>. DEFINE g == [t \in SUBSET (1..(m + 1)) |->
                     IF m + 1 \in t THEN Consume(b, f[t \ {m + 1}], p[m + 1]) ELSE f[t]]
  <2>2. ASSUME NEW t \in SUBSET (1..(m + 1))
        PROVE  g[t] = IF t = {} THEN s ELSE Consume(b, g[t \ {Max(t)}], p[Max(t)])
    <3>1. CASE m + 1 \in t
      <4>1. Max(t) = m + 1
        <5>. HIDE DEF g, Folds
        <5>1. m + 1 \in Nat /\ t # {} /\ t \subseteq 1..(m + 1)
          BY <3>1
        <5>2. Max(t) \in t /\ \A y \in t : y <= Max(t)
          BY ONLY <5>1, MaxOfNats
        <5>3. m + 1 <= Max(t) /\ Max(t) \in 1..(m + 1)
          BY <3>1, <5>1, <5>2
        <5>. QED
          BY <5>3
      <4>. HIDE DEF Folds
      <4>2. g[t \ {m + 1}] = f[t \ {m + 1}]
        OBVIOUS
      <4>. QED
        BY <3>1, <4>1, <4>2
    <3>2. CASE m + 1 \notin t
      <4>1. t \in SUBSET (1..m) /\ g[t] = f[t]
        BY <3>2
      <4>2. f[t] = IF t = {} THEN s ELSE Consume(b, f[t \ {Max(t)}], p[Max(t)])
        BY <2>1, <4>1
      <4>3. t # {} => g[t \ {Max(t)}] = f[t \ {Max(t)}]
        BY <4>1
      <4>. HIDE DEF g, Folds
      <4>. QED
        BY <4>1, <4>2, <4>3
    <3>. QED
      BY <3>1, <3>2
  <2>3. Folds(g, 1..(m + 1))
    <3>. DEFINE h == [t \in SUBSET (1..(m + 1)) |->
                       IF t = {} THEN s ELSE Consume(b, g[t \ {Max(t)}], p[Max(t)])]
    <3>1. \A t \in SUBSET (1..(m+1)) : g[t] = h[t]
      BY <2>2
    <3>2. g = h
      <4>1. g = [t \in SUBSET (1..(m+1)) |-> g[t]]
        OBVIOUS
      <4>. HIDE DEF g
      <4>. QED BY <3>1, <4>1
    <3>. QED
      BY <3>2
  <2>. HIDE DEF g, Folds
  <2>. QED
    BY <2>3
<1>. HIDE DEF T
<1>3. Nat \subseteq T
  BY <1>1, <1>2, NatInductionOnSets
<1>. DEFINE n == Len(p)
            iter == CHOOSE f : Folds(f, DOMAIN p)
<1>4. n \in Nat /\ DOMAIN p = 1..n
  OBVIOUS
<1>5. Folds(iter, 1..n)
  BY <1>3, <1>4 DEF T
<1>6. ConsumeAll(b, s, p) = iter[1..n]
  BY <1>4 DEF ConsumeAll, FoldLeft, MapThenFoldSet
<1>. DEFINE F == [k \in 0..n |-> iter[1..k]]
<1>. HIDE DEF iter
<1>7. ASSUME NEW k \in 1..n PROVE F[k] = Consume(b, F[k - 1], p[k])
  <2>1. 1..k \in SUBSET (1..n) /\ k \in 1..k
    BY <1>4
  <2>2. Max(1..k) = k
    <3>1. Max(1..k) \in 1..k /\ k <= Max(1..k)
      BY <1>4, <2>1, MaxOfNats
    <3>. QED
      BY <3>1
  <2>3a. (1..k) \ {k} = 1..(k - 1)
    BY <1>4
  <2>3. iter[1..k] = Consume(b, iter[1..(k - 1)], p[k])
    BY <1>5, <2>1, <2>2, <2>3a
  <2>. HIDE DEF Folds
  <2>. QED
    BY <2>3
<1>8. F[0] = s
  <2>1. 1..0 = {} /\ {} \in SUBSET (1..n)
    OBVIOUS
  <2>. QED BY <1>5, <2>1
<1>9. F[n] = iter[1..n]
  BY <1>4
<1>. HIDE DEF F
<1>. QED
  BY <1>6, <1>7, <1>8, <1>9

-----------------------------------------------------------------------------
(* Lists of texts.                                                          *)

LEMMA EmptyListsNothing == \A b : ListsTexts(<<>>, b, 0)
BY DEF ListsTexts

(* The same, element by element. *)
LEMMA ListByElement ==
  ASSUME NEW q, NEW b, NEW n
  PROVE  ListsTexts(q, b, n) <=>
           /\ \A j \in DOMAIN q : q[j] \in 1..n /\ b[q[j]] = "text"
           /\ \A i \in 1..n : b[i] = "text" => \E j \in DOMAIN q : q[j] = i
           /\ \A i, j \in DOMAIN q : i < j => q[i] < q[j]
BY DEF ListsTexts

(* Only the first n records matter. *)
LEMMA ListOfPrefix ==
  ASSUME NEW q, NEW b, NEW c, NEW n \in Nat, \A i \in 1..n : b[i] = c[i]
  PROVE  ListsTexts(q, b, n) => ListsTexts(q, c, n)
BY DEF ListsTexts

LEMMA ListPassesOver ==
  ASSUME NEW q, NEW b, NEW k \in Nat \ {0}, ListsTexts(q, b, k - 1), b[k] # "text"
  PROVE  ListsTexts(q, b, k)
<1>1. {i \in 1..k : b[i] = "text"} = {i \in 1..(k - 1) : b[i] = "text"}
  OBVIOUS
<1>. QED
  BY <1>1 DEF ListsTexts

LEMMA ListGrows ==
  ASSUME NEW q \in Seq(Nat), NEW b, NEW k \in Nat \ {0}, ListsTexts(q, b, k - 1), b[k] = "text"
  PROVE  ListsTexts(Append(q, k), b, k)
<1>. DEFINE a == Append(q, k)
            n == Len(q)
<1>1. /\ n \in Nat /\ DOMAIN q = 1..n /\ DOMAIN a = 1..(n + 1)
      /\ \A j \in 1..n : a[j] = q[j]
      /\ a[n + 1] = k
  OBVIOUS
<1>. HIDE DEF a, n
<1>2. \A j \in 1..n : q[j] \in 1..(k - 1) /\ b[q[j]] = "text"
  BY <1>1 DEF ListsTexts
<1>3. \A i \in 1..(k - 1) : b[i] = "text" => \E j \in 1..n : q[j] = i
  BY <1>1 DEF ListsTexts
<1>4. \A i \in 1..k : b[i] = "text" => \E j \in 1..(n + 1) : a[j] = i
  <2>. TAKE i \in 1..k
  <2>1. CASE i = k
    BY <1>1, <2>1
  <2>2. CASE i \in 1..(k - 1)
    <3>1. b[i] = "text" => \E j \in 1..n : a[j] = i
      BY <1>1, <1>3, <2>2
    <3>2. 1..n \subseteq 1..(n + 1)
      BY <1>1
    <3>. QED
      BY <3>1, <3>2
  <2>. QED
    BY <2>1, <2>2
<1>5. \A j \in 1..(n + 1) : a[j] \in 1..k /\ b[a[j]] = "text"
  <2>. TAKE j \in 1..(n + 1)
  <2>1. CASE j = n + 1
    BY <1>1, <2>1
  <2>2. CASE j \in 1..n
    BY <1>1, <1>2, <2>2
  <2>. QED
    BY <1>1, <2>1, <2>2
<1>6. \A i, j \in 1..(n + 1) : i < j => a[i] < a[j]
  <2>. TAKE i, j \in 1..(n + 1)
  <2>1. CASE j \in 1..n /\ i < j
    <3>1. i \in 1..n /\ q[i] < q[j]
      BY <1>1, <2>1 DEF ListsTexts
    <3>. QED
      BY <1>1, <2>1, <3>1
  <2>2. CASE j = n + 1 /\ i < j
    <3>1. i \in 1..n
      BY <1>1, <2>2
    <3>2. a[i] = q[i] /\ q[i] \in 1..(k - 1) /\ a[j] = k
      BY <1>1, <1>2, <2>2, <3>1
    <3>. QED
      BY <3>2
  <2>. QED
    BY <1>1, <2>1, <2>2
<1>7. ListsTexts(a, b, k)
  BY <1>1, <1>4, <1>5, <1>6, ListByElement
<1>. QED
  BY <1>7 DEF a

(* What was drained of a list is a list of its own. *)
LEMMA ListStopsEarlier ==
  ASSUME NEW t \in Seq(Nat), NEW q \in Seq(Nat), NEW b, NEW n \in Nat, ListsTexts(t \o q, b, n)
  PROVE  \E m \in 0..n : ListsTexts(t, b, m)
<1>1. CASE q = <<>>
  <2>1. t \o q = t
    BY <1>1
  <2>. QED
    BY <2>1
<1>2. CASE q # <<>>
  <2>. DEFINE l == t \o q
              c == Len(t)
              m == q[1] - 1
  <2>1. /\ c \in Nat /\ Len(q) \in Nat \ {0} /\ DOMAIN t = 1..c
        /\ DOMAIN l = 1..(c + Len(q))
        /\ \A j \in 1..c : l[j] = t[j]
        /\ l[c + 1] = q[1]
    BY <1>2
  <2>. HIDE DEF l, c
  <2>2. \A j \in DOMAIN l : l[j] \in 1..n /\ b[l[j]] = "text"
    BY DEF ListsTexts, l
  <2>3. m \in 0..(n - 1) /\ l[c + 1] = m + 1
    <3>1. c + 1 \in DOMAIN l
      BY <2>1
    <3>2. q[1] \in 1..n
      BY <2>1, <2>2, <3>1
    <3>. QED
      BY <2>1, <3>2
  <2>4. \A i, j \in DOMAIN l : i < j => l[i] < l[j]
    BY DEF ListsTexts, l
  <2>5. \A j \in 1..c : t[j] \in 1..m /\ b[t[j]] = "text"
    <3>. TAKE j \in 1..c
    <3>1. j \in DOMAIN l /\ c + 1 \in DOMAIN l /\ j < c + 1
      BY <2>1
    <3>2. l[j] < l[c + 1] /\ l[j] \in 1..n /\ b[l[j]] = "text" /\ l[c + 1] \in 1..n
      BY <2>2, <2>4, <3>1
    <3>. QED
      BY <2>1, <3>2
  <2>6. ASSUME NEW i \in 1..m, b[i] = "text" PROVE \E j \in 1..c : t[j] = i
    <3>1. PICK j \in DOMAIN l : l[j] = i
      <4>1. i \in 1..n
        BY <2>3
      <4>. QED
        BY <2>6, <4>1, ListByElement DEF l
    <3>2. CASE j \in 1..c
      BY <2>1, <3>1, <3>2
    <3>3. CASE j = c + 1
      BY <2>1, <2>3, <3>1, <3>3
    <3>4. CASE c + 1 < j
      <4>1. c + 1 \in DOMAIN l
        BY <2>1
      <4>2. l[c + 1] < l[j]
        BY <2>4, <3>1, <3>4, <4>1
      <4>. QED
        BY <2>3, <3>1, <4>2
    <3>. QED
      BY <2>1, <3>1, <3>2, <3>3, <3>4
  <2>7. \A i, j \in 1..c : i < j => t[i] < t[j]
    <3>1. 1..c \subseteq DOMAIN l
      BY <2>1
    <3>. QED
      BY <2>1, <2>4, <3>1
  <2>8. ListsTexts(t, b, m)
    <3>. HIDE DEF m
    <3>. QED
      BY <2>1, <2>5, <2>6, <2>7, ListByElement
  <2>. QED
    BY <2>3, <2>8
<1>. QED
  BY <1>1, <1>2

LEMMA AppendToConcat ==
  ASSUME NEW t \in Seq(Nat), NEW q \in Seq(Nat), NEW e \in Nat
  PROVE  t \o Append(q, e) = Append(t \o q, e)
OBVIOUS

LEMMA ConcatEmpty ==
  ASSUME NEW t \in Seq(Nat)
  PROVE  t \o <<>> = t /\ <<>> \o t = t
OBVIOUS

LEMMA ConcatAssociates ==
  ASSUME NEW t \in Seq(Nat), NEW p \in Seq(Nat), NEW q \in Seq(Nat)
  PROVE  t \o (p \o q) = (t \o p) \o q
OBVIOUS

LEMMA ConcatElement ==
  ASSUME NEW t \in Seq(Nat), NEW q \in Seq(Nat), NEW i \in 1..(Len(t) + Len(q))
  PROVE  (t \o q)[i] = IF i <= Len(t) THEN t[i] ELSE q[i - Len(t)]
OBVIOUS

-----------------------------------------------------------------------------
(* The response stream and what has arrived of its body.                    *)

StreamRecord ==
  [lifecycle : {"PENDING", "STREAMING", "COMPLETED", "FAILED"},
   call : {"none", "sent", "tapped", "answered"}, tapped : Nat,
   activation : {"none", "pending", "done"}, early : BOOLEAN,
   live : Seq(Positions), queue : Seq(Positions), held : BOOLEAN, disposed : BOOLEAN]

TypedStream(s) ==
  /\ s \in StreamRecord
  /\ Len(s.live) <= MaxLive
  /\ Len(s.queue) <= MaxQueued
  /\ s.tapped <= MaxBody

(* A body ends at its first done. *)
TypedBody(b) ==
  /\ b \in Seq(Records)
  /\ Len(b) <= MaxBody
  /\ \A i \in DOMAIN b : b[i] \in {"done", "half"} => i = Len(b)

(* The answer to the activation and what came since are the first k records. *)
CatchesUp(s, k) ==
  /\ s.tapped + Len(s.live) = k
  /\ \A j \in DOMAIN s.live : s.live[j] = s.tapped + j

(* The stream s of a body b, of which k records have arrived and t is drained. *)
Waits(s, k) ==
  /\ s.activation = "pending" =>
       /\ s.lifecycle = "PENDING"
       /\ s.call \in {"sent", "tapped"}
       /\ s.call = "tapped" => CatchesUp(s, k)
  /\ s.call \in {"none", "sent"} => s.live = <<>>
  /\ s.lifecycle = "PENDING" /\ s.call # "none" => s.activation = "pending"

Reads(s, b, k, t) ==
  /\ s.activation = "done" => s.lifecycle \in {"STREAMING", "COMPLETED"} /\ s.call = "answered"
  /\ s.activation = "none" => s.lifecycle # "STREAMING"
  /\ s.lifecycle = "PENDING" => t = <<>> /\ s.queue = <<>> /\ ~ s.held
  /\ s.lifecycle = "STREAMING" =>
       /\ ListsTexts(t \o s.queue, b, k)
       /\ s.held => k > 0 /\ b[k] = "half"
       /\ \A i \in 1..k : b[i] # "done"
  /\ s.lifecycle = "COMPLETED" =>
       /\ s.call = "answered"
       /\ \E i \in 1..k : /\ b[i] \in {"done", "half"}
                          /\ ListsTexts(t \o s.queue, b, i) \/ s.activation = "none"
  /\ \E n \in 0..k : ListsTexts(t \o s.queue, b, n)

(* The owner gave up a response that was complete. *)
Discarded(s) == s.lifecycle = "COMPLETED" /\ s.activation = "none"

Sound(s, b, k, t) == Waits(s, k) /\ Reads(s, b, k, t)

SelectedBody == IF write.request = None THEN <<>> ELSE body[write.request]

ResponseTyped ==
  /\ TypedStream(stream)
  /\ taken \in Seq(Positions)
  /\ body \in [Requests -> Seq(Records)]
  /\ \A r \in Requests : TypedBody(body[r])

(* The stream is of the selected write, and given up with it. *)
ResponseOwned ==
  /\ stream.disposed = write.ambiguous
  /\ stream.call # "none" => write.armed /\ write.request # None

ResponseSound == Readable => Sound(stream, SelectedBody, Len(SelectedBody), taken)

ResponseEnds ==
  Readable /\ write.lifecycle \in {"FINISHED", "FAILED"} =>
    Terminal(stream) \/ (stream.activation = "pending" /\ stream.early)

ResponseInv == ResponseTyped /\ ResponseOwned /\ ResponseSound /\ ResponseEnds

-----------------------------------------------------------------------------
(* The stream's own operations.  Each keeps the types and what Sound says.  *)

LEMMA PositionsAreNat == Positions \subseteq Nat /\ \A q \in Seq(Positions) : q \in Seq(Nat)
BY BoundsAssumption DEF Positions

(* What is listed so far stays listed when more records arrive or are looked at. *)
LEMMA FailIs ==
  ASSUME NEW s, TypedStream(s)
  PROVE  /\ TypedStream(Fail(s))
         /\ s.disposed \/ s.lifecycle = "COMPLETED" => Fail(s) = s
         /\ ~ (s.disposed \/ s.lifecycle = "COMPLETED") =>
              Fail(s).lifecycle = "FAILED" /\ Fail(s).activation = "none"
         /\ Fail(s).queue = s.queue /\ Fail(s).disposed = s.disposed
         /\ Fail(s).early = s.early /\ Fail(s).call = s.call
         /\ Fail(s).live \in {s.live, <<>>}
<1>1. <<>> \in Seq(Positions) /\ Len(<<>>) = 0 /\ MaxLive \in Nat
  BY BoundsAssumption
<1>2. CASE s.disposed \/ s.lifecycle = "COMPLETED"
  BY <1>2 DEF Fail
<1>3. CASE ~ (s.disposed \/ s.lifecycle = "COMPLETED")
  <2>1. Fail(s) = [s EXCEPT !.lifecycle = "FAILED", !.activation = "none", !.live = <<>>]
    BY <1>3 DEF Fail
  <2>2. /\ Fail(s) \in StreamRecord /\ Fail(s).lifecycle = "FAILED" /\ Fail(s).activation = "none"
        /\ Fail(s).live = <<>> /\ Fail(s).queue = s.queue /\ Fail(s).disposed = s.disposed
        /\ Fail(s).early = s.early /\ Fail(s).call = s.call /\ Fail(s).tapped = s.tapped
    BY <1>1, <2>1 DEF TypedStream, StreamRecord
  <2>. QED
    BY <1>1, <1>3, <2>2 DEF TypedStream
<1>. QED
  BY <1>2, <1>3

LEMMA FailReads ==
  ASSUME NEW s, TypedStream(s), ~ s.disposed, NEW b, NEW k, NEW t, Sound(s, b, k, t)
  PROVE  Sound(Fail(s), b, k, t) /\ Terminal(Fail(s))
BY FailIs DEF Sound, Waits, Reads, Terminal

LEMMA CompleteIs ==
  ASSUME NEW s, TypedStream(s), ~ s.disposed, s.lifecycle = "STREAMING"
  PROVE  LET c == Complete(s)
         IN /\ TypedStream(c) /\ c.queue = s.queue /\ c.early = s.early /\ c.call = s.call
            /\ ~ c.disposed
            /\ \/ c.lifecycle = "FAILED" /\ c.activation = "none"
               \/ c.lifecycle = "COMPLETED" /\ c.activation = s.activation
<1>1. CASE Len(s.queue) >= MaxQueued
  BY <1>1, FailIs DEF Complete
<1>2. CASE ~ (Len(s.queue) >= MaxQueued)
  <2>1. Complete(s) = [s EXCEPT !.lifecycle = "COMPLETED"]
    BY <1>2 DEF Complete
  <2>. QED
    BY <2>1 DEF TypedStream, StreamRecord
<1>. QED
  BY <1>1, <1>2

(* The end of a text that is streaming, at its record k. *)
LEMMA CompleteReads ==
  ASSUME NEW b, NEW k \in Nat \ {0}, b[k] \in {"done", "half"},
         NEW s, TypedStream(s), ~ s.disposed, s.lifecycle = "STREAMING",
         NEW t, ListsTexts(t \o s.queue, b, k), s.activation = "done", s.call = "answered"
  PROVE  LET c == Complete(s)
         IN Sound(c, b, k, t) /\ Terminal(c)
<1>. DEFINE c == Complete(s)
<1>1. /\ TypedStream(c) /\ c.queue = s.queue /\ c.call = s.call
      /\ \/ c.lifecycle = "FAILED" /\ c.activation = "none"
         \/ c.lifecycle = "COMPLETED" /\ c.activation = "done"
  BY CompleteIs
<1>. HIDE DEF c
<1>2. k \in 0..k /\ k \in 1..k
  OBVIOUS
<1>3. ListsTexts(t \o c.queue, b, k)
  BY <1>1
<1>. QED
  BY <1>1, <1>2, <1>3 DEF Sound, Waits, Reads, Terminal, c

(* A stream that has started, or ended. *)
Running(s, b, k, t) ==
  /\ TypedStream(s) /\ ~ s.disposed
  /\ s.lifecycle # "PENDING"
  /\ s.activation # "pending"
  /\ s.call = "answered"
  /\ Reads(s, b, k, t)

LEMMA ReadsMore ==
  ASSUME NEW s, NEW b, NEW k \in Nat, NEW t, Reads(s, b, k, t), s.lifecycle # "STREAMING"
  PROVE  Reads(s, b, k + 1, t)
<1>1. 1..k \subseteq 1..(k + 1) /\ 0..k \subseteq 0..(k + 1)
  OBVIOUS
<1>. QED
  BY <1>1 DEF Reads

LEMMA ConsumeReads ==
  ASSUME NEW b, TypedBody(b), NEW k \in 1..Len(b), NEW t \in Seq(Positions),
         NEW s, Running(s, b, k - 1, t)
  PROVE  LET c == Consume(b, s, k)
         IN Running(c, b, k, t) /\ c.early = s.early /\ (Discarded(c) => Discarded(s))
<1>. DEFINE c == Consume(b, s, k)
<1>. SUFFICES Running(c, b, k, t) /\ c.early = s.early /\ (Discarded(c) => Discarded(s))
  OBVIOUS
<1>1. /\ k \in Nat \ {0} /\ k - 1 \in Nat /\ k = (k - 1) + 1
      /\ k \in Positions /\ b[k] \in {"text", "done", "half", "bad"}
      /\ \A i \in 1..(k - 1) : b[i] \notin {"done", "half"}
  <2>1. b \in Seq(Records) /\ Len(b) \in Nat /\ DOMAIN b = 1..Len(b) /\ Len(b) <= MaxBody
        /\ MaxBody \in Nat
    BY BoundsAssumption DEF TypedBody
  <2>2. b[k] \in Records
    BY <2>1
  <2>3. k \in Nat \ {0} /\ k <= Len(b) /\ Len(b) \in Nat
    BY <2>1
  <2>4. k \in Positions
    BY <2>1, <2>3 DEF Positions
  <2>5. ASSUME NEW i \in 1..(k - 1) PROVE b[i] \notin {"done", "half"}
    <3>1. i \in Nat /\ 1 <= i /\ i < k
      BY <2>3
    <3>2. i \in 1..Len(b) /\ i # Len(b)
      BY ONLY <2>3, <3>1
    <3>. QED
      BY <2>1, <3>2 DEF TypedBody
  <2>6. k - 1 \in Nat /\ k = (k - 1) + 1
    BY <2>3
  <2>. QED
    BY <2>2, <2>3, <2>4, <2>5, <2>6, RecordsAssumption DEF AllRecords
<1>2. TypedStream(s) /\ ~ s.disposed /\ Reads(s, b, k - 1, t)
      /\ s.lifecycle # "PENDING" /\ s.activation # "pending" /\ s.call = "answered"
  BY DEF Running, Discarded
<1>3. CASE Terminal(s)
  <2>1. c = s
    BY <1>3 DEF Consume
  <2>2. Reads(s, b, k, t)
    BY <1>1, <1>2, <1>3, ReadsMore DEF Terminal
  <2>. QED
    BY <1>2, <2>1, <2>2 DEF Running, Discarded
<1>4. CASE ~ Terminal(s)
  <2>1. /\ s.lifecycle = "STREAMING" /\ s.activation = "done" /\ s.call = "answered"
        /\ ListsTexts(t \o s.queue, b, k - 1)
        /\ ~ s.held
        /\ \A i \in 1..(k - 1) : b[i] # "done"
    <3>1. s.lifecycle = "STREAMING" /\ s.activation = "done"
      BY <1>2, <1>4 DEF Terminal, TypedStream, StreamRecord, Reads
    <3>. QED
      BY <1>1, <1>2, <3>1 DEF Reads, TypedStream, StreamRecord
  <2>2. CASE Fail(s) = c
    <3>1. Sound(s, b, k - 1, t)
      BY <1>2 DEF Sound, Waits
    <3>2. Sound(c, b, k - 1, t) /\ c.lifecycle = "FAILED" /\ c.activation = "none"
          /\ TypedStream(c) /\ ~ c.disposed /\ c.early = s.early /\ c.call = "answered"
      BY <1>2, <2>1, <2>2, <3>1, FailReads, FailIs
    <3>. HIDE DEF c
    <3>3. Reads(c, b, k, t)
      BY <1>1, <3>2, ReadsMore DEF Sound
    <3>. QED
      BY <3>2, <3>3 DEF Running, Discarded
  <2>3. CASE b[k] = "done" /\ c = Complete(s)
    <3>1. ListsTexts(t \o s.queue, b, k)
      BY <1>1, <2>1, <2>3, ListPassesOver
    <3>2. Sound(c, b, k, t) /\ Terminal(c)
      BY <1>1, <1>2, <2>1, <2>3, <3>1, CompleteReads
    <3>3. TypedStream(c) /\ ~ c.disposed /\ c.early = s.early /\ c.activation # "pending"
          /\ ~ Discarded(c) /\ c.call = "answered"
      BY <1>2, <2>1, <2>3, CompleteIs DEF Discarded
    <3>. QED
      BY <3>2, <3>3 DEF Running, Sound, Terminal, Discarded, Reads
  <2>4. CASE b[k] = "half" /\ c = [s EXCEPT !.held = TRUE]
    <3>1. ListsTexts(t \o s.queue, b, k)
      BY <1>1, <2>1, <2>4, ListPassesOver
    <3>2. /\ TypedStream(c) /\ c.held /\ c.lifecycle = s.lifecycle /\ c.activation = s.activation
          /\ c.queue = s.queue /\ c.call = s.call /\ c.disposed = s.disposed /\ c.early = s.early
      BY <1>2, <2>4 DEF TypedStream, StreamRecord
    <3>. HIDE DEF c
    <3>3. \A i \in 1..k : b[i] # "done"
      BY <1>1, <2>1, <2>4
    <3>4. Reads(c, b, k, t)
      <4>1. k \in 0..k /\ k > 0
        BY <1>1
      <4>. QED
        BY <2>1, <2>4, <3>1, <3>2, <3>3, <4>1 DEF Reads
    <3>. QED
      BY <1>2, <3>2, <3>4 DEF Running, Discarded
  <2>5. CASE b[k] = "text" /\ Len(s.queue) < MaxQueued /\ c = [s EXCEPT !.queue = Append(@, k)]
    <3>1. s.queue \in Seq(Positions) /\ s.queue \in Seq(Nat) /\ t \in Seq(Nat) /\ k \in Nat
      BY <1>1, <1>2, PositionsAreNat DEF TypedStream, StreamRecord
    <3>2. ListsTexts(Append(t \o s.queue, k), b, k)
      <4>1. t \o s.queue \in Seq(Nat)
        BY <3>1
      <4>. QED
        BY <1>1, <2>1, <2>5, <4>1, ListGrows
    <3>3. Append(t \o s.queue, k) = t \o Append(s.queue, k)
      BY <3>1, AppendToConcat
    <3>4. Append(s.queue, k) \in Seq(Positions) /\ Len(Append(s.queue, k)) <= MaxQueued
      BY <1>1, <2>5, <3>1, BoundsAssumption
    <3>5. /\ TypedStream(c) /\ c.held = s.held /\ c.lifecycle = s.lifecycle /\ c.activation = s.activation
          /\ c.queue = Append(s.queue, k) /\ c.call = s.call /\ c.disposed = s.disposed
          /\ c.early = s.early
      BY <1>2, <2>5, <3>4 DEF TypedStream, StreamRecord
    <3>. HIDE DEF c
    <3>6. \A i \in 1..k : b[i] # "done"
      BY <1>1, <2>1, <2>5
    <3>7. Reads(c, b, k, t)
      <4>1. k \in 0..k
        BY <1>1
      <4>. QED
        BY <2>1, <3>2, <3>3, <3>5, <3>6, <4>1 DEF Reads
    <3>. QED
      BY <1>2, <3>5, <3>7 DEF Running, Discarded
  <2>6. Len(s.queue) \in Nat /\ MaxQueued \in Nat
    BY <1>2, BoundsAssumption DEF TypedStream, StreamRecord
  <2>. QED
    BY <1>1, <1>4, <2>1, <2>2, <2>3, <2>4, <2>5, <2>6 DEF Consume
<1>. QED
  BY <1>3, <1>4

(* Reading a whole body, record after record. *)
LEMMA ConsumeAllReads ==
  ASSUME NEW b, TypedBody(b), NEW p \in Seq(Nat), Len(p) = Len(b),
         \A k \in 1..Len(b) : p[k] = k,
         NEW t \in Seq(Positions), NEW s, Running(s, b, 0, t)
  PROVE  LET c == ConsumeAll(b, s, p)
         IN Running(c, b, Len(b), t) /\ c.early = s.early /\ (Discarded(c) => Discarded(s))
<1>1. PICK F : /\ F[0] = s
               /\ \A k \in 1..Len(p) : F[k] = Consume(b, F[k - 1], p[k])
               /\ ConsumeAll(b, s, p) = F[Len(p)]
  BY ConsumeAllRuns
<1>. DEFINE Good(k) == /\ Running(F[k], b, k, t) /\ F[k].early = s.early
                       /\ Discarded(F[k]) => Discarded(s)
            T == {k \in Nat : k <= Len(b) => Good(k)}
<1>2. Len(b) \in Nat
  BY DEF TypedBody
<1>3. 0 \in T
  BY <1>1
<1>4. ASSUME NEW k \in Nat, k \in T PROVE k + 1 \in T
  <2>. SUFFICES ASSUME k + 1 <= Len(b) PROVE Good(k + 1)
    OBVIOUS
  <2>1. k + 1 \in 1..Len(b) /\ (k + 1) - 1 = k /\ Good(k)
    BY <1>2, <1>4
  <2>2. F[k + 1] = Consume(b, F[k], k + 1)
    BY <1>1, <2>1
  <2>3. Running(F[k], b, (k + 1) - 1, t)
    BY <2>1
  <2>4. LET c == Consume(b, F[k], k + 1)
        IN Running(c, b, k + 1, t) /\ c.early = F[k].early /\ (Discarded(c) => Discarded(F[k]))
    BY <2>1, <2>3, ConsumeReads
  <2>. QED
    BY <2>1, <2>2, <2>4
<1>. HIDE DEF T
<1>5. Len(b) \in T
  BY <1>2, <1>3, <1>4, NatInductionOnSets
<1>6. Good(Len(b))
  BY <1>2, <1>5 DEF T
<1>. QED
  BY <1>1, <1>6

(* The end of a body that has been read. *)
LEMMA FinishReads ==
  ASSUME NEW b, TypedBody(b), NEW t, NEW s, Running(s, b, Len(b), t), s.lifecycle = "STREAMING"
  PROVE  LET c == FinishConsumer(s)
         IN Running(c, b, Len(b), t) /\ Terminal(c) /\ ~ Discarded(c) /\ c.early = s.early
<1>. DEFINE c == FinishConsumer(s)
            k == Len(b)
<1>. SUFFICES Running(c, b, k, t) /\ Terminal(c) /\ ~ Discarded(c) /\ c.early = s.early
  OBVIOUS
<1>1. /\ k \in Nat /\ TypedStream(s) /\ ~ s.disposed /\ Reads(s, b, k, t)
      /\ s.activation = "done" /\ s.call = "answered"
      /\ ListsTexts(t \o s.queue, b, k)
      /\ s.held => k > 0 /\ b[k] = "half"
  BY DEF TypedBody, Running, Reads, TypedStream, StreamRecord
<1>2. CASE s.held
  <2>1. c = Complete(s) /\ k \in Nat \ {0} /\ b[k] \in {"done", "half"}
    BY <1>1, <1>2 DEF FinishConsumer
  <2>2. Sound(c, b, k, t) /\ Terminal(c)
    BY <1>1, <2>1, CompleteReads
  <2>3. /\ TypedStream(c) /\ ~ c.disposed /\ c.early = s.early /\ c.call = "answered"
        /\ \/ c.lifecycle = "FAILED" /\ c.activation = "none"
           \/ c.lifecycle = "COMPLETED" /\ c.activation = "done"
    BY <1>1, <2>1, CompleteIs
  <2>. QED
    BY <2>2, <2>3 DEF Running, Sound, Discarded
<1>3. CASE ~ s.held
  <2>1. c = Fail(s)
    BY <1>3 DEF FinishConsumer
  <2>2. Sound(s, b, k, t)
    BY <1>1 DEF Sound, Waits
  <2>3. Sound(c, b, k, t) /\ TypedStream(c) /\ c.lifecycle = "FAILED" /\ c.activation = "none"
        /\ ~ c.disposed /\ c.early = s.early
    BY <1>1, <2>1, <2>2, FailReads, FailIs
  <2>4. c.call = "answered"
    BY <1>1, <2>1, FailIs
  <2>. QED
    BY <2>3, <2>4 DEF Running, Sound, Discarded, Terminal
<1>. QED
  BY <1>2, <1>3

(* A stream that runs is sound. *)
LEMMA RunningIsSound ==
  ASSUME NEW s, NEW b, NEW k, NEW t, Running(s, b, k, t)
  PROVE  Sound(s, b, k, t) /\ TypedStream(s) /\ ~ s.disposed
BY DEF Running, Sound, Waits

(* The answer to the activation: what it carried and what came since. *)
LEMMA CompleteActivationReads ==
  ASSUME NEW b, TypedBody(b), NEW t \in Seq(Positions), NEW s, TypedStream(s), ~ s.disposed,
         s.call = "answered", s.lifecycle \in {"PENDING", "FAILED"}, Reads(s, b, Len(b), t),
         s.lifecycle = "PENDING" => CatchesUp(s, Len(b))
  PROVE  LET c == CompleteActivation(b, s)
         IN /\ Running(c, b, Len(b), t)
            /\ s.early => Terminal(c)
            /\ Discarded(c) => Discarded(s)
<1>. DEFINE k == Len(b)
            c == CompleteActivation(b, s)
<1>. SUFFICES Running(c, b, k, t) /\ (s.early => Terminal(c)) /\ (Discarded(c) => Discarded(s))
  OBVIOUS
<1>1. k \in Nat
  BY DEF TypedBody
<1>2. CASE s.lifecycle = "FAILED"
  <2>1. c = [s EXCEPT !.activation = "none"]
    BY <1>2 DEF CompleteActivation
  <2>2. TypedStream(c) /\ c.activation = "none" /\ c.lifecycle = "FAILED" /\ c.queue = s.queue
        /\ ~ c.disposed /\ c.call = "answered"
    BY <1>2, <2>1 DEF TypedStream, StreamRecord
  <2>. HIDE DEF c
  <2>3. Reads(c, b, k, t)
    BY <1>2, <2>2 DEF Reads
  <2>. QED
    BY <2>2, <2>3 DEF Running, Terminal, Discarded
<1>3. CASE s.lifecycle = "PENDING"
  <2>. DEFINE started == [s EXCEPT !.activation = "done", !.lifecycle = "STREAMING", !.live = <<>>]
              p == [i \in 1..s.tapped |-> i] \o s.live
              u == ConsumeAll(b, started, p)
  <2>1. /\ s.tapped \in Nat /\ s.live \in Seq(Nat) /\ Len(s.live) \in Nat
        /\ s.tapped + Len(s.live) = k
        /\ \A j \in 1..Len(s.live) : s.live[j] = s.tapped + j
    BY <1>3, PositionsAreNat DEF TypedStream, StreamRecord, CatchesUp
  <2>2. p \in Seq(Nat) /\ Len(p) = k /\ \A i \in 1..k : p[i] = i
    <3>. DEFINE h == [i \in 1..s.tapped |-> i]
    <3>1. h \in Seq(Nat) /\ Len(h) = s.tapped /\ \A i \in 1..s.tapped : h[i] = i
      BY <2>1
    <3>. HIDE DEF h
    <3>2. h \o s.live \in Seq(Nat) /\ Len(h \o s.live) = k
      BY <2>1, <3>1
    <3>3. ASSUME NEW i \in 1..k PROVE (h \o s.live)[i] = i
      <4>1. (h \o s.live)[i] = IF i <= s.tapped THEN h[i] ELSE s.live[i - s.tapped]
        <5>1. i \in 1..(Len(h) + Len(s.live))
          BY <2>1, <3>1
        <5>. QED
          BY <2>1, <3>1, <5>1, ConcatElement
      <4>2. ~ (i <= s.tapped) => i - s.tapped \in 1..Len(s.live)
        BY <1>1, <2>1
      <4>3. CASE i <= s.tapped
        BY <3>1, <4>1, <4>3
      <4>4. CASE ~ (i <= s.tapped)
        <5>1. s.live[i - s.tapped] = s.tapped + (i - s.tapped)
          BY <2>1, <4>2, <4>4
        <5>. QED
          BY <2>1, <4>1, <4>4, <5>1
      <4>. QED
        BY <4>3, <4>4
    <3>. QED
      BY <3>2, <3>3 DEF h
  <2>3. /\ TypedStream(started) /\ started.lifecycle = "STREAMING" /\ started.activation = "done"
        /\ started.queue = s.queue /\ started.held = s.held /\ started.call = "answered"
        /\ started.early = s.early /\ ~ started.disposed
    <3>1. <<>> \in Seq(Positions) /\ Len(<<>>) <= MaxLive
      BY BoundsAssumption
    <3>. QED
      BY <1>3, <3>1 DEF TypedStream, StreamRecord
  <2>4. t = <<>> /\ s.queue = <<>> /\ ~ s.held
    BY <1>3 DEF Reads
  <2>5. Running(started, b, 0, t)
    <3>. HIDE DEF started
    <3>1. ListsTexts(t \o started.queue, b, 0)
      BY <2>3, <2>4, EmptyListsNothing, ConcatEmpty
    <3>. QED
      BY <2>3, <2>4, <3>1 DEF Running, Reads
  <2>. HIDE DEF started, p
  <2>6. Running(u, b, k, t) /\ u.early = s.early /\ ~ Discarded(u)
    BY <2>2, <2>3, <2>5, ConsumeAllReads DEF Discarded
  <2>7. c = IF s.early /\ ~ Terminal(u) THEN FinishConsumer(u) ELSE u
    BY <1>3 DEF CompleteActivation, started, p
  <2>. HIDE DEF u, c
  <2>8. ~ Terminal(u) => u.lifecycle = "STREAMING"
    BY <2>6 DEF Running, Terminal, TypedStream, StreamRecord
  <2>. QED
    BY <2>6, <2>7, <2>8, FinishReads
<1>. QED
  BY <1>2, <1>3

(* The request settles. *)
LEMMA SettledReads ==
  ASSUME NEW b, TypedBody(b), NEW t, NEW s, TypedStream(s), ~ s.disposed,
         Sound(s, b, Len(b), t), NEW failed \in BOOLEAN
  PROVE  LET c == OnTransportSettled(s, failed)
         IN /\ TypedStream(c) /\ ~ c.disposed /\ Sound(c, b, Len(b), t) /\ c.call = s.call
            /\ Terminal(c) \/ (c.activation = "pending" /\ c.early)
            /\ Discarded(c) => Discarded(s)
<1>. DEFINE k == Len(b)
            c == OnTransportSettled(s, failed)
<1>. SUFFICES /\ TypedStream(c) /\ ~ c.disposed /\ Sound(c, b, k, t) /\ c.call = s.call
              /\ Terminal(c) \/ (c.activation = "pending" /\ c.early)
              /\ Discarded(c) => Discarded(s)
  OBVIOUS
<1>1. CASE c = s /\ s.lifecycle = "COMPLETED"
  BY <1>1 DEF Terminal
<1>2. CASE c = Fail(s) /\ s.lifecycle # "COMPLETED"
  BY <1>2, FailIs, FailReads DEF Discarded
<1>3. CASE s.activation = "pending" /\ c = [s EXCEPT !.early = TRUE]
  BY <1>3 DEF TypedStream, StreamRecord, Sound, Waits, Reads, CatchesUp, Discarded
<1>4. CASE s.lifecycle = "STREAMING" /\ s.activation # "pending" /\ c = FinishConsumer(s)
  <2>1. Running(s, b, k, t)
    BY <1>4 DEF Running, Sound, Reads, TypedStream, StreamRecord
  <2>2. Running(c, b, k, t) /\ Terminal(c) /\ ~ Discarded(c)
    BY <1>4, <2>1, FinishReads
  <2>3. c.call = s.call
    <3>1. c = Complete(s) \/ c = Fail(s)
      BY <1>4 DEF FinishConsumer
    <3>. QED
      BY <1>4, <3>1, FailIs, CompleteIs
  <2>. QED
    BY <2>2, <2>3, RunningIsSound
<1>. QED
  BY <1>1, <1>2, <1>3, <1>4 DEF OnTransportSettled

(* Fewer records are a prefix of more. *)
LEMMA MoreIsSound ==
  ASSUME NEW s, NEW b, NEW c, NEW k \in Nat, NEW t, Sound(s, b, k, t),
         \A i \in 1..k : c[i] = b[i], s.lifecycle # "STREAMING", s.call \in {"none", "sent"} \/ Terminal(s)
  PROVE  Sound(s, c, k + 1, t)
<1>1. 1..k \subseteq 1..(k + 1) /\ 0..k \subseteq 0..(k + 1)
  OBVIOUS
<1>2. \E n \in 0..(k + 1) : ListsTexts(t \o s.queue, c, n)
  <2>1. PICK n \in 0..k : ListsTexts(t \o s.queue, b, n)
    BY DEF Sound, Reads
  <2>2. n \in Nat /\ \A i \in 1..n : b[i] = c[i]
    BY <2>1
  <2>3. ListsTexts(t \o s.queue, c, n)
    BY <2>1, <2>2, ListOfPrefix
  <2>. QED
    BY <1>1, <2>3
<1>3. s.lifecycle = "COMPLETED" =>
        \E i \in 1..(k + 1) : /\ c[i] \in {"done", "half"}
                              /\ ListsTexts(t \o s.queue, c, i) \/ s.activation = "none"
  <2>. SUFFICES ASSUME s.lifecycle = "COMPLETED"
                PROVE  \E i \in 1..(k + 1) : /\ c[i] \in {"done", "half"}
                                             /\ ListsTexts(t \o s.queue, c, i) \/ s.activation = "none"
    OBVIOUS
  <2>1. PICK i \in 1..k : /\ b[i] \in {"done", "half"}
                          /\ ListsTexts(t \o s.queue, b, i) \/ s.activation = "none"
    BY DEF Sound, Reads
  <2>2. i \in Nat /\ (\A j \in 1..i : b[j] = c[j]) /\ c[i] = b[i]
    BY <2>1
  <2>3. ListsTexts(t \o s.queue, b, i) => ListsTexts(t \o s.queue, c, i)
    BY <2>2, ListOfPrefix
  <2>. QED
    BY <1>1, <2>1, <2>2, <2>3
<1>. QED
  BY <1>2, <1>3 DEF Sound, Waits, Reads, Terminal

(* The same, when the browser streams the body: the event carries the record. *)
LEMMA DataReads ==
  ASSUME NEW b, NEW c, TypedBody(b), TypedBody(c), NEW k \in Nat, Len(b) = k, Len(c) = k + 1,
         \A i \in 1..k : c[i] = b[i],
         NEW t \in Seq(Positions), NEW s, TypedStream(s), ~ s.disposed, Sound(s, b, k, t),
         s.call \in {"tapped", "answered"}
  PROVE  LET d == OnData(c, s, k + 1)
         IN /\ TypedStream(d) /\ ~ d.disposed /\ Sound(d, c, k + 1, t)
            /\ d.early = s.early /\ d.call = s.call
            /\ Terminal(s) => d = s
            /\ s.activation = "pending" => Terminal(d) \/ d.activation = "pending"
            /\ Discarded(d) => Discarded(s)
<1>. DEFINE d == OnData(c, s, k + 1)
<1>. SUFFICES /\ TypedStream(d) /\ ~ d.disposed /\ Sound(d, c, k + 1, t)
              /\ d.early = s.early /\ d.call = s.call
              /\ Terminal(s) => d = s
              /\ s.activation = "pending" => Terminal(d) \/ d.activation = "pending"
              /\ Discarded(d) => Discarded(s)
  OBVIOUS
<1>1. CASE Terminal(s)
  <2>1. d = s /\ s.lifecycle # "STREAMING"
    BY <1>1 DEF OnData, Terminal
  <2>. QED
    BY <1>1, <2>1, MoreIsSound
<1>2. CASE ~ Terminal(s) /\ s.activation = "pending" /\ Len(s.live) >= MaxLive
  <2>1. d = Fail(s)
    BY <1>2 DEF OnData
  <2>2. /\ Sound(d, b, k, t) /\ TypedStream(d) /\ ~ d.disposed /\ d.early = s.early /\ d.call = s.call
        /\ d.lifecycle = "FAILED"
    BY <1>2, <2>1, FailIs, FailReads DEF Terminal
  <2>. HIDE DEF d
  <2>3. Sound(d, c, k + 1, t)
    BY <2>2, MoreIsSound DEF Terminal
  <2>. QED
    BY <1>2, <2>2, <2>3 DEF Terminal, Discarded
<1>3. CASE ~ Terminal(s) /\ s.activation = "pending" /\ ~ (Len(s.live) >= MaxLive)
  <2>1. d = [s EXCEPT !.live = Append(@, k + 1)]
    BY <1>3 DEF OnData
  <2>2. k + 1 \in Positions
    BY BoundsAssumption DEF Positions, TypedBody
  <2>3. /\ s.lifecycle = "PENDING" /\ s.call = "tapped"
        /\ s.tapped + Len(s.live) = k
        /\ \A j \in DOMAIN s.live : s.live[j] = s.tapped + j
        /\ s.live \in Seq(Positions) /\ s.tapped \in Nat
        /\ t = <<>> /\ s.queue = <<>> /\ ~ s.held
    BY <1>3 DEF Sound, Waits, Reads, CatchesUp, TypedStream, StreamRecord
  <2>4. /\ TypedStream(d) /\ d.live = Append(s.live, k + 1) /\ d.tapped = s.tapped /\ d.call = s.call
        /\ d.lifecycle = "PENDING" /\ d.queue = <<>> /\ d.activation = "pending" /\ ~ d.held
        /\ d.early = s.early /\ ~ d.disposed
    <3>1. Append(s.live, k + 1) \in Seq(Positions) /\ Len(Append(s.live, k + 1)) = Len(s.live) + 1
      BY <2>2, <2>3
    <3>2. Len(s.live) + 1 <= MaxLive
      BY <1>3, <2>3, BoundsAssumption
    <3>. QED
      BY <1>3, <2>1, <2>3, <3>1, <3>2 DEF TypedStream, StreamRecord
  <2>. HIDE DEF d
  <2>5. CatchesUp(d, k + 1)
    <3>. DEFINE l == Append(s.live, k + 1)
                n == Len(s.live)
    <3>1. /\ n \in Nat /\ Len(l) = n + 1 /\ DOMAIN l = 1..(n + 1) /\ l[n + 1] = k + 1
          /\ \A j \in 1..n : l[j] = s.live[j] /\ j \in DOMAIN s.live
      BY <2>3
    <3>. HIDE DEF l, n
    <3>2. s.tapped + n = k
      BY <2>3 DEF n
    <3>3. ASSUME NEW j \in 1..(n + 1) PROVE l[j] = s.tapped + j
      <4>1. CASE j = n + 1
        BY <2>3, <3>1, <3>2, <4>1
      <4>2. CASE j \in 1..n
        BY <2>3, <3>1, <4>2
      <4>. QED
        BY <3>1, <4>1, <4>2
    <3>4. s.tapped + (n + 1) = k + 1
      BY <2>3, <3>1, <3>2
    <3>. QED
      BY <2>4, <3>1, <3>3, <3>4 DEF CatchesUp, l
  <2>6. ListsTexts(t \o d.queue, c, 0)
    BY <2>3, <2>4, EmptyListsNothing, ConcatEmpty
  <2>7. Sound(d, c, k + 1, t)
    BY <2>3, <2>4, <2>5, <2>6 DEF Sound, Waits, Reads
  <2>. QED
    BY <1>3, <2>4, <2>7 DEF Discarded
<1>4. CASE ~ Terminal(s) /\ s.activation = "done"
  <2>1. d = Consume(c, s, k + 1) /\ s.lifecycle = "STREAMING"
    BY <1>4 DEF OnData, Sound, Reads, Terminal
  <2>2. Running(s, c, k, t)
    <3>1. ListsTexts(t \o s.queue, b, k) /\ (s.held => k > 0 /\ b[k] = "half")
          /\ \A i \in 1..k : b[i] # "done"
      BY <2>1 DEF Sound, Reads
    <3>2. ListsTexts(t \o s.queue, c, k)
      BY <3>1, ListOfPrefix
    <3>3. s.held => k > 0 /\ c[k] = "half"
      BY <3>1
    <3>. QED
      BY <1>4, <2>1, <3>1, <3>2, <3>3 DEF Running, Sound, Reads
  <2>3. Running(d, c, k + 1, t) /\ d.early = s.early /\ (Discarded(d) => Discarded(s))
    <3>1. k + 1 \in 1..Len(c) /\ (k + 1) - 1 = k
      OBVIOUS
    <3>. HIDE DEF d
    <3>2. Running(s, c, (k + 1) - 1, t)
      BY <2>2, <3>1
    <3>3. LET e == Consume(c, s, k + 1)
          IN Running(e, c, k + 1, t) /\ e.early = s.early /\ (Discarded(e) => Discarded(s))
      BY <3>1, <3>2, ConsumeReads
    <3>. QED
      BY <2>1, <3>3
  <2>4. d.call = s.call
    <3>1. \/ d = s \/ d = Fail(s) \/ d = Complete(s)
          \/ d = [s EXCEPT !.held = TRUE] \/ d = [s EXCEPT !.queue = Append(@, k + 1)]
      BY <2>1 DEF Consume
    <3>2. Complete(s).call = s.call /\ Fail(s).call = s.call
      BY <2>1, CompleteIs, FailIs
    <3>3. [s EXCEPT !.held = TRUE].call = s.call
      BY DEF TypedStream, StreamRecord
    <3>4. [s EXCEPT !.queue = Append(@, k + 1)].call = s.call
      BY DEF TypedStream, StreamRecord
    <3>. HIDE DEF d
    <3>. QED
      BY <3>1, <3>2, <3>3, <3>4
  <2>. QED
    BY <1>4, <2>3, <2>4, RunningIsSound
<1>5. s.activation # "none" \/ Terminal(s)
  BY DEF Sound, Waits, Reads, TypedStream, StreamRecord, Terminal
<1>. QED
  BY <1>1, <1>2, <1>3, <1>4, <1>5 DEF TypedStream, StreamRecord

(* The tracker asks for the body. *)
LEMMA BeginReads ==
  ASSUME NEW s, TypedStream(s), ~ s.disposed, NEW b, NEW k, NEW t, Sound(s, b, k, t),
         NEW available \in BOOLEAN
  PROVE  LET c == Begin(s, available)
         IN /\ TypedStream(c) /\ ~ c.disposed /\ Sound(c, b, k, t)
            /\ Discarded(c) => Discarded(s)
            /\ c.call # s.call => c.call = "sent"
<1>1. CASE s.lifecycle # "PENDING" \/ s.activation # "none"
  BY <1>1 DEF Begin
<1>2. CASE s.lifecycle = "PENDING" /\ s.activation = "none" /\ available
  <2>. DEFINE c == Begin(s, available)
  <2>1. c = [s EXCEPT !.activation = "pending", !.call = "sent"]
    BY <1>2 DEF Begin
  <2>2. s.call = "none" /\ s.live = <<>>
    BY <1>2 DEF Sound, Waits
  <2>3. /\ TypedStream(c) /\ c.activation = "pending" /\ c.call = "sent" /\ c.lifecycle = "PENDING"
        /\ c.live = s.live /\ c.queue = s.queue /\ c.held = s.held /\ ~ c.disposed
    BY <1>2, <2>1 DEF TypedStream, StreamRecord
  <2>. HIDE DEF c
  <2>4. Sound(c, b, k, t)
    BY <1>2, <2>2, <2>3 DEF Sound, Waits, Reads
  <2>. QED
    BY <2>3, <2>4 DEF c, Discarded
<1>3. CASE s.lifecycle = "PENDING" /\ s.activation = "none" /\ ~ available
  <2>1. Begin(s, available) = Fail(s)
    BY <1>3 DEF Begin
  <2>. QED
    BY <1>3, <2>1, FailIs, FailReads DEF Discarded
<1>. QED
  BY <1>1, <1>2, <1>3

(* The browser takes the call when it has the k records there are. *)
LEMMA TappedReads ==
  ASSUME NEW s, TypedStream(s), ~ s.disposed, NEW b, TypedBody(b), NEW t,
         Sound(s, b, Len(b), t), s.call = "sent"
  PROVE  LET c == [s EXCEPT !.call = "tapped", !.tapped = Len(b)]
         IN /\ TypedStream(c) /\ ~ c.disposed /\ Sound(c, b, Len(b), t)
            /\ c.early = s.early /\ c.activation = s.activation /\ c.lifecycle = s.lifecycle
<1>. DEFINE c == [s EXCEPT !.call = "tapped", !.tapped = Len(b)]
<1>. SUFFICES /\ TypedStream(c) /\ ~ c.disposed /\ Sound(c, b, Len(b), t)
              /\ c.early = s.early /\ c.activation = s.activation /\ c.lifecycle = s.lifecycle
  OBVIOUS
<1>1. Len(b) \in Nat /\ Len(b) <= MaxBody /\ s.live = <<>> /\ s.lifecycle # "COMPLETED"
  BY DEF TypedBody, Sound, Waits, Reads
<1>2. /\ TypedStream(c) /\ ~ c.disposed
      /\ c.early = s.early /\ c.activation = s.activation /\ c.lifecycle = s.lifecycle
      /\ c.live = <<>> /\ c.queue = s.queue /\ c.held = s.held
      /\ c.call = "tapped" /\ c.tapped = Len(b)
  BY <1>1 DEF TypedStream, StreamRecord
<1>. HIDE DEF c
<1>3. CatchesUp(c, Len(b))
  BY <1>1, <1>2 DEF CatchesUp
<1>4. Sound(c, b, Len(b), t)
  BY <1>1, <1>2, <1>3 DEF Sound, Waits, Reads
<1>. QED
  BY <1>2, <1>4

(* The owner wants no more of it, when it has drained p of what is queued. *)
LEMMA DiscardReads ==
  ASSUME NEW s, TypedStream(s), NEW b, NEW k \in Nat, NEW t \in Seq(Positions),
         NEW p \in Seq(Positions), NEW q \in Seq(Positions), s.queue = p \o q
  PROVE  LET c == Discard(s)
         IN /\ TypedStream(c) /\ c.disposed = s.disposed /\ c.call = s.call
            /\ ~ s.disposed => Terminal(c) /\ (Sound(s, b, k, t) => Sound(c, b, k, t \o p))
<1>1. CASE s.disposed
  BY <1>1 DEF Discard
<1>2. CASE ~ s.disposed
  <2>. DEFINE c == Discard(s)
              u == t \o p
  <2>. SUFFICES /\ TypedStream(c) /\ c.disposed = s.disposed /\ c.call = s.call
                /\ Terminal(c) /\ (Sound(s, b, k, t) => Sound(c, b, k, u))
    OBVIOUS
  <2>1. c = [s EXCEPT !.activation = "none", !.live = <<>>, !.queue = <<>>,
                      !.lifecycle = IF @ = "COMPLETED" THEN @ ELSE "FAILED"]
    BY <1>2 DEF Discard
  <2>2. <<>> \in Seq(Positions) /\ Len(<<>>) <= MaxLive /\ Len(<<>>) <= MaxQueued
    BY BoundsAssumption
  <2>3. /\ TypedStream(c) /\ c.disposed = s.disposed /\ c.call = s.call /\ c.activation = "none"
        /\ c.queue = <<>> /\ c.live = <<>> /\ c.held = s.held
        /\ c.lifecycle = IF s.lifecycle = "COMPLETED" THEN "COMPLETED" ELSE "FAILED"
    BY <2>1, <2>2 DEF TypedStream, StreamRecord
  <2>. HIDE DEF c
  <2>4. ASSUME Sound(s, b, k, t) PROVE Sound(c, b, k, u)
    <3>1. q \in Seq(Nat) /\ p \in Seq(Nat) /\ t \in Seq(Nat)
      BY PositionsAreNat
    <3>2. u \in Seq(Nat) /\ t \o s.queue = u \o q
      <4>1. t \o (p \o q) = (t \o p) \o q
        BY <3>1, ConcatAssociates
      <4>. QED
        BY <3>1, <4>1
    <3>3. PICK n \in 0..k : ListsTexts(u \o q, b, n)
      BY <2>4, <3>2 DEF Sound, Reads
    <3>. HIDE DEF u
    <3>4. PICK m \in 0..n : ListsTexts(u, b, m)
      <4>1. n \in Nat
        BY <3>3
      <4>. QED
        BY <3>1, <3>2, <3>3, <4>1, ListStopsEarlier
    <3>5. m \in 0..k /\ u \o c.queue = u
      BY <2>3, <3>2, <3>3, <3>4, ConcatEmpty
    <3>6. c.lifecycle = "COMPLETED" =>
            c.call = "answered" /\ \E i \in 1..k : b[i] \in {"done", "half"}
      BY <2>3, <2>4 DEF Sound, Reads
    <3>. QED
      BY <2>3, <3>4, <3>5, <3>6 DEF Sound, Waits, Reads
  <2>. QED
    BY <2>3, <2>4 DEF Terminal
<1>. QED
  BY <1>1, <1>2

LEMMA DisposeIs ==
  ASSUME NEW s, TypedStream(s)
  PROVE  TypedStream(Dispose(s)) /\ Dispose(s).disposed /\ Dispose(s).call = s.call
<1>1. TypedStream(Discard(s)) /\ Discard(s).call = s.call
  <2>1. /\ 0 \in Nat /\ <<>> \in Seq(Positions) /\ s.queue \in Seq(Positions)
        /\ s.queue = <<>> \o s.queue
    BY DEF TypedStream, StreamRecord
  <2>. QED
    BY <2>1, DiscardReads
<1>. QED
  BY <1>1 DEF Dispose, TypedStream, StreamRecord

(* The owner drains what is queued. *)
LEMMA DrainReads ==
  ASSUME NEW s, TypedStream(s), NEW b, NEW k \in Nat, NEW t \in Seq(Positions)
  PROVE  /\ TypedStream(Drain(s)) /\ t \o s.queue \in Seq(Positions)
         /\ Drain(s).disposed = s.disposed /\ Drain(s).call = s.call
         /\ Drain(s).lifecycle = s.lifecycle /\ Drain(s).activation = s.activation
         /\ Drain(s).early = s.early
         /\ Sound(s, b, k, t) => Sound(Drain(s), b, k, t \o s.queue)
<1>. DEFINE c == Drain(s)
            u == t \o s.queue
<1>1. <<>> \in Seq(Positions) /\ Len(<<>>) <= MaxQueued
  BY BoundsAssumption
<1>2. /\ TypedStream(c) /\ c.disposed = s.disposed /\ c.call = s.call /\ c.queue = <<>>
      /\ c.lifecycle = s.lifecycle /\ c.activation = s.activation /\ c.early = s.early
      /\ c.live = s.live /\ c.tapped = s.tapped /\ c.held = s.held
  BY <1>1 DEF Drain, TypedStream, StreamRecord
<1>3. u \in Seq(Positions) /\ s.queue \in Seq(Nat) /\ t \in Seq(Nat)
  BY PositionsAreNat DEF TypedStream, StreamRecord
<1>4. u \o c.queue = t \o s.queue
  <2>1. u \in Seq(Nat)
    BY <1>3
  <2>. QED
    BY <1>2, <2>1, ConcatEmpty
<1>5. t = <<>> /\ s.queue = <<>> => u = <<>>
  BY <1>3, ConcatEmpty
<1>. HIDE DEF c, u
<1>6. Sound(s, b, k, t) => Sound(c, b, k, u)
  BY <1>2, <1>4, <1>5 DEF Sound, Waits, Reads, CatchesUp, u
<1>. QED
  BY <1>2, <1>3, <1>6 DEF c, u

-----------------------------------------------------------------------------
(* The steps of ResponseInv.                                                *)

LEMMA NewStreamIsSound ==
  /\ TypedStream(NewStream) /\ ~ NewStream.disposed /\ NewStream.call = "none"
  /\ \A b : Sound(NewStream, b, 0, <<>>)
<1>1. <<>> \in Seq(Positions) /\ Len(<<>>) = 0 /\ <<>> \o <<>> = <<>>
  OBVIOUS
<1>2. /\ TypedStream(NewStream) /\ ~ NewStream.disposed /\ NewStream.call = "none"
      /\ NewStream.activation = "none" /\ NewStream.lifecycle = "PENDING"
      /\ NewStream.queue = <<>> /\ NewStream.live = <<>> /\ ~ NewStream.held
  BY <1>1, BoundsAssumption DEF NewStream, TypedStream, StreamRecord
<1>3. ASSUME NEW b PROVE Sound(NewStream, b, 0, <<>>)
  BY <1>1, <1>2, EmptyListsNothing DEF Sound, Waits, Reads
<1>. QED
  BY <1>2, <1>3

LEMMA EmptyBodyIsTyped == TypedBody(<<>>) /\ Len(<<>>) = 0
BY BoundsAssumption DEF TypedBody

(* What is selected is a request, with a body. *)
LEMMA SelectedBodyIsTyped ==
  ASSUME WriteInv, ResponseTyped
  PROVE  TypedBody(SelectedBody) /\ Len(SelectedBody) \in Nat
<1>1. write.request \in Requests \cup {None}
  BY DEF WriteInv, WriteTyped, WriteRecord
<1>2. TypedBody(SelectedBody)
  BY <1>1, EmptyBodyIsTyped DEF SelectedBody, ResponseTyped
<1>. QED
  BY <1>2 DEF TypedBody

(* Without a write there is nothing to say of the stream. *)
LEMMA UnarmedResponse ==
  ASSUME ResponseTyped, ~ write.armed, ~ write.ambiguous, ~ stream.disposed, stream.call = "none",
         write \in WriteRecord
  PROVE  ResponseInv
<1>1. stream.disposed = write.ambiguous
  BY DEF ResponseTyped, TypedStream, StreamRecord, WriteRecord
<1>2. ~ Readable
  BY DEF Readable
<1>. QED
  BY <1>1, <1>2 DEF ResponseInv, ResponseOwned, ResponseSound, ResponseEnds

LEMMA InitResponse == Init => ResponseInv
<1>. SUFFICES ASSUME Init PROVE ResponseInv
  OBVIOUS
<1>1. /\ TypedStream(stream) /\ ~ stream.disposed /\ stream.call = "none"
      /\ ~ write.armed /\ ~ write.ambiguous /\ write \in WriteRecord
  BY NewStreamIsSound, NoWriteIsFresh DEF Init, Fresh
<1>2. body \in [Requests -> Seq(Records)] /\ \A r \in Requests : TypedBody(body[r])
  BY EmptyBodyIsTyped DEF Init
<1>3. taken \in Seq(Positions)
  BY DEF Init
<1>. QED
  BY <1>1, <1>2, <1>3, UnarmedResponse DEF ResponseTyped

LEMMA ArmKeepsResponse ==
  ASSUME ResponseInv, ArmObservation, taken' = <<>>
  PROVE  ResponseInv'
<1>1. Fresh(write') /\ write'.armed /\ stream' = NewStream /\ body' = body
  BY ArmedIsFresh DEF ArmObservation
<1>2. SelectedBody' = <<>>
  BY <1>1 DEF SelectedBody, Fresh
<1>3. Sound(stream', SelectedBody', Len(SelectedBody'), taken')
  BY <1>1, <1>2, NewStreamIsSound, EmptyBodyIsTyped
<1>4. <<>> \in Seq(Positions)
  OBVIOUS
<1>5. ResponseSound'
  BY <1>3 DEF ResponseSound
<1>6. /\ TypedStream(stream') /\ stream'.disposed = FALSE /\ stream'.call = "none"
      /\ write'.ambiguous = FALSE /\ write'.lifecycle = "NONE"
  BY <1>1, NewStreamIsSound DEF Fresh, WriteRecord, TypedStream, StreamRecord
<1>7. ResponseTyped'
  BY <1>1, <1>4, <1>6 DEF ResponseInv, ResponseTyped
<1>8. ResponseOwned' /\ ResponseEnds'
  BY <1>6 DEF ResponseOwned, ResponseEnds
<1>. QED
  BY <1>5, <1>7, <1>8 DEF ResponseInv

LEMMA ReleaseKeepsResponse ==
  ASSUME ResponseTyped, stream' = NewStream, write' = NoWrite, UNCHANGED body, taken' \in Seq(Positions)
  PROVE  ResponseInv'
<1>1. /\ TypedStream(stream') /\ stream'.disposed = FALSE /\ stream'.call = "none"
      /\ write'.ambiguous = FALSE /\ write'.armed = FALSE
  BY NewStreamIsSound, NoWriteIsFresh DEF Fresh, WriteRecord, TypedStream, StreamRecord
<1>2. ResponseTyped'
  BY <1>1 DEF ResponseTyped
<1>3. ResponseOwned' /\ ~ Readable'
  BY <1>1 DEF ResponseOwned, Readable
<1>. QED
  BY <1>2, <1>3 DEF ResponseInv, ResponseSound, ResponseEnds

(* A write that is given up takes its stream with it. *)
LEMMA AmbiguousKeepsResponse ==
  ASSUME ResponseInv, Ambiguous, write \in WriteRecord, UNCHANGED body, taken' \in Seq(Positions)
  PROVE  ResponseInv' /\ write'.ambiguous
<1>1. /\ TypedStream(stream') /\ stream'.disposed /\ stream'.call = stream.call
  BY DisposeIs DEF ResponseInv, ResponseTyped, Ambiguous
<1>2. /\ write'.ambiguous = TRUE /\ write'.armed = write.armed /\ write'.request = write.request
  BY DEF Ambiguous, WriteRecord
<1>. QED
  BY <1>1, <1>2
     DEF ResponseInv, ResponseTyped, ResponseOwned, ResponseSound, ResponseEnds, Readable

(* Only the stream, what was drained and what is known of the write change. *)
LEMMA StreamStep ==
  ASSUME ResponseInv, UNCHANGED body, taken' \in Seq(Positions),
         write'.armed = write.armed, write'.request = write.request,
         write'.ambiguous = write.ambiguous,
         TypedStream(stream'), stream'.disposed = stream.disposed,
         stream'.call = stream.call \/ (write.armed /\ write.request # None),
         Readable => Sound(stream', SelectedBody, Len(SelectedBody), taken'),
         Readable /\ write'.lifecycle \in {"FINISHED", "FAILED"} =>
           Terminal(stream') \/ (stream'.activation = "pending" /\ stream'.early)
  PROVE  ResponseInv'
<1>1. SelectedBody' = SelectedBody /\ Readable' = Readable
  BY DEF SelectedBody, Readable
<1>2. ResponseSound'
  BY <1>1 DEF ResponseSound
<1>3. ResponseEnds'
  BY <1>1 DEF ResponseEnds, Terminal
<1>. QED
  BY <1>2, <1>3 DEF ResponseInv, ResponseTyped, ResponseOwned

(* A readable observation has a stream that is not disposed of. *)
LEMMA ReadableStream ==
  ASSUME WriteInv, ResponseInv, Readable
  PROVE  /\ TypedStream(stream) /\ ~ stream.disposed /\ taken \in Seq(Positions)
         /\ TypedBody(SelectedBody) /\ Len(SelectedBody) \in Nat
         /\ Sound(stream, SelectedBody, Len(SelectedBody), taken)
BY SelectedBodyIsTyped DEF ResponseInv, ResponseTyped, ResponseOwned, ResponseSound, Readable

(* The observation of a request that is selected, and not given up. *)
LEMMA SelectedStream ==
  ASSUME WriteInv, NEW r \in Requests, Selected(r)
  PROVE  /\ write.armed /\ write.request = r /\ r # None /\ SelectedBody = body[r]
         /\ write \in WriteRecord
         /\ Readable <=> ~ write.ambiguous
BY RequestsAssumption DEF Selected, SelectedBody, Readable, WriteInv, WriteTyped

LEMMA TakeKeepsResponse ==
  ASSUME WriteInv, ResponseInv, UNCHANGED <<body, write>>, Readable,
         stream' = Drain(stream), taken' = taken \o stream.queue
  PROVE  ResponseInv'
<1>1. /\ TypedStream(stream') /\ taken' \in Seq(Positions)
      /\ stream'.disposed = stream.disposed /\ stream'.call = stream.call
      /\ stream'.lifecycle = stream.lifecycle /\ stream'.activation = stream.activation
      /\ stream'.early = stream.early
      /\ Sound(stream', SelectedBody, Len(SelectedBody), taken')
  BY ReadableStream, DrainReads
<1>. QED
  BY <1>1, StreamStep DEF ResponseInv, ResponseEnds, Terminal

(* The owner drains p, the first of what is queued, and wants no more. *)
LEMMA TakeAndDiscardKeepsResponse ==
  ASSUME WriteInv, ResponseInv, UNCHANGED <<body, write>>, stream' = Discard(stream),
         NEW p \in Seq(Positions), NEW q \in Seq(Positions), stream.queue = p \o q,
         taken' = taken \o p
  PROVE  ResponseInv'
<1>. DEFINE k == Len(SelectedBody)
<1>1. taken \in Seq(Positions) /\ TypedStream(stream) /\ taken' \in Seq(Positions)
  BY DEF ResponseInv, ResponseTyped
<1>2. k \in Nat
  BY SelectedBodyIsTyped DEF ResponseInv
<1>. HIDE DEF k
<1>3. /\ TypedStream(stream') /\ stream'.disposed = stream.disposed /\ stream'.call = stream.call
      /\ ~ stream.disposed =>
           /\ Terminal(stream')
           /\ Sound(stream, SelectedBody, k, taken) => Sound(stream', SelectedBody, k, taken')
  BY <1>1, <1>2, DiscardReads
<1>4. Readable => Terminal(stream') /\ Sound(stream', SelectedBody, k, taken')
  BY <1>3, ReadableStream DEF k
<1>. QED
  BY <1>1, <1>3, <1>4, StreamStep DEF k

LEMMA DiscardKeepsResponse ==
  ASSUME WriteInv, ResponseInv, UNCHANGED <<body, write, taken>>, stream' = Discard(stream)
  PROVE  ResponseInv'
<1>1. /\ <<>> \in Seq(Positions) /\ stream.queue \in Seq(Positions) /\ taken \in Seq(Positions)
      /\ stream.queue = <<>> \o stream.queue /\ taken = taken \o <<>>
  BY DEF ResponseInv, ResponseTyped, TypedStream, StreamRecord
<1>. QED
  BY <1>1, TakeAndDiscardKeepsResponse

-----------------------------------------------------------------------------
(* The events of the browser.                                               *)

(* The browser neither revives an observation, nor gives up a response that *)
(* was complete, nor takes back that it was.                                *)
Onwards ==
  Readable' => /\ Readable
               /\ Discarded(stream') => Discarded(stream)
               /\ stream.lifecycle = "COMPLETED" => stream'.lifecycle = "COMPLETED"

LEMMA UnchangedKeepsResponse ==
  ASSUME ResponseInv, UNCHANGED <<body, taken, trackerVars>>
  PROVE  ResponseInv' /\ Onwards
BY DEF ResponseInv, ResponseTyped, ResponseOwned, ResponseSound, ResponseEnds, Readable,
       SelectedBody, Terminal, trackerVars, Onwards

(* A stream nobody asked for tells as little of any other body. *)
LEMMA UnaskedIsSound ==
  ASSUME NEW s, TypedStream(s), s.call = "none", NEW t, Sound(s, <<>>, 0, t),
         NEW b, NEW k \in Nat
  PROVE  Sound(s, b, k, t)
<1>1. /\ s.activation = "none" /\ s.lifecycle \in {"PENDING", "FAILED"}
  BY DEF Sound, Waits, Reads, TypedStream, StreamRecord
<1>2. ListsTexts(t \o s.queue, b, 0)
  <2>1. PICK n \in 0..0 : ListsTexts(t \o s.queue, <<>>, n)
    BY DEF Sound, Reads
  <2>2. ListsTexts(t \o s.queue, <<>>, 0)
    BY <2>1
  <2>3. 0 \in Nat /\ \A i \in 1..0 : <<>>[i] = b[i]
    OBVIOUS
  <2>. QED
    BY <2>2, <2>3, ListOfPrefix
<1>3. 0 \in 0..k
  OBVIOUS
<1>. QED
  BY <1>1, <1>2, <1>3 DEF Sound, Waits, Reads

LEMMA NewWriteKeepsResponse ==
  ASSUME WriteInv, ResponseInv, NEW r \in Requests, write.armed, NewWrite(r), UNCHANGED <<body, taken>>
  PROVE  ResponseInv' /\ Onwards
<1>0. write \in WriteRecord /\ taken \in Seq(Positions)
  BY DEF WriteInv, WriteTyped, ResponseInv, ResponseTyped
<1>1. CASE write.request # None
  <2>1. Ambiguous
    BY <1>1 DEF NewWrite
  <2>. QED
    BY <1>0, <2>1, AmbiguousKeepsResponse DEF Onwards, Readable
<1>2. CASE write.request = None
  <2>1. write' = [write EXCEPT !.request = r, !.lifecycle = "ACTIVE"] /\ stream' = stream
    BY <1>2 DEF NewWrite
  <2>2. /\ write'.request = r /\ write'.lifecycle = "ACTIVE" /\ r # None
        /\ write'.armed = write.armed /\ write'.ambiguous = write.ambiguous
    BY <1>0, <2>1, RequestsAssumption DEF WriteRecord
  <2>3. stream.call = "none" /\ TypedStream(stream)
    BY <1>2 DEF ResponseInv, ResponseOwned, ResponseTyped, TypedStream, StreamRecord
  <2>4. Readable /\ SelectedBody = <<>>
    BY <1>2 DEF Readable, WriteInv, UnselectedIsFresh, SelectedBody
  <2>5. Sound(stream, <<>>, 0, taken)
    BY <2>4, EmptyBodyIsTyped DEF ResponseInv, ResponseSound
  <2>6. SelectedBody' = body[r] /\ Len(body[r]) \in Nat
    BY <2>2 DEF SelectedBody, ResponseInv, ResponseTyped
  <2>7. ResponseSound'
    BY <2>1, <2>3, <2>5, <2>6, UnaskedIsSound DEF ResponseSound
  <2>8. ResponseTyped' /\ ResponseOwned' /\ ResponseEnds'
    BY <2>1, <2>2, <2>3 DEF ResponseInv, ResponseTyped, ResponseOwned, ResponseEnds
  <2>. QED
    BY <2>1, <2>4, <2>7, <2>8 DEF ResponseInv, Onwards
<1>. QED
  BY <1>1, <1>2

LEMMA SentKeepsResponse ==
  ASSUME WriteInv, ResponseInv, NEW r \in Requests, RequestSent(r), UNCHANGED taken
  PROVE  ResponseInv' /\ Onwards
<1>1. CASE write.armed
  BY <1>1, NewWriteKeepsResponse DEF RequestSent
<1>2. CASE ~ write.armed
  BY <1>2, UnchangedKeepsResponse DEF RequestSent
<1>. QED
  BY <1>1, <1>2

LEMMA RedirectedKeepsResponse ==
  ASSUME WriteInv, ResponseInv, NEW r \in Requests, RequestRedirected(r), UNCHANGED taken
  PROVE  ResponseInv' /\ Onwards
<1>1. CASE /\ Selected(r) /\ stream' = Fail(stream)
           /\ write' = [write EXCEPT !.redirected = TRUE, !.ok = FALSE]
  <2>1. /\ write'.armed = write.armed /\ write'.request = write.request
        /\ write'.ambiguous = write.ambiguous /\ write'.lifecycle = write.lifecycle
    BY <1>1, SelectedStream DEF WriteRecord
  <2>2. /\ TypedStream(stream') /\ stream'.disposed = stream.disposed
        /\ stream'.call = stream.call /\ taken \in Seq(Positions)
    BY <1>1, FailIs DEF ResponseInv, ResponseTyped
  <2>3. Readable => Sound(stream', SelectedBody, Len(SelectedBody), taken) /\ Terminal(stream')
    BY <1>1, ReadableStream, FailReads
  <2>4. Readable => (Discarded(stream') => Discarded(stream))
                    /\ (stream.lifecycle = "COMPLETED" => stream'.lifecycle = "COMPLETED")
    BY <1>1, ReadableStream, FailIs DEF Discarded
  <2>. QED
    BY <2>1, <2>2, <2>3, <2>4, StreamStep DEF RequestRedirected, Onwards, Readable
<1>2. CASE write.armed /\ NewWrite(r)
  BY <1>2, NewWriteKeepsResponse DEF RequestRedirected
<1>. QED
  BY <1>1, <1>2 DEF RequestRedirected

LEMMA SentAgainKeepsResponse ==
  ASSUME WriteInv, ResponseInv, NEW r \in Requests, RequestSentAgain(r), UNCHANGED taken
  PROVE  ResponseInv' /\ Onwards
<1>1. write \in WriteRecord /\ taken \in Seq(Positions)
  BY DEF WriteInv, WriteTyped, ResponseInv, ResponseTyped
<1>. QED
  BY <1>1, AmbiguousKeepsResponse DEF RequestSentAgain, networkVars, Onwards, Readable

LEMMA ReceivedKeepsResponse ==
  ASSUME WriteInv, ResponseInv, NEW r \in Requests, NEW ok \in BOOLEAN, NEW available \in BOOLEAN,
         ResponseReceived(r, ok, available), UNCHANGED taken
  PROVE  ResponseInv' /\ Onwards
<1>1. CASE UNCHANGED trackerVars
  BY <1>1, UnchangedKeepsResponse DEF ResponseReceived
<1>2. CASE /\ Selected(r) /\ write.lifecycle = "ACTIVE"
           /\ write' = [write EXCEPT !.ok = ok]
           /\ stream' = IF ok /\ ~ stream.disposed THEN Begin(stream, available) ELSE stream
  <2>1. /\ write'.armed = write.armed /\ write'.request = write.request
        /\ write'.ambiguous = write.ambiguous /\ write'.lifecycle = "ACTIVE"
        /\ write.armed /\ write.request # None
    BY <1>2, SelectedStream DEF WriteRecord
  <2>2. /\ stream.disposed = write.ambiguous /\ TypedStream(stream) /\ taken \in Seq(Positions)
        /\ Readable <=> ~ write.ambiguous
    BY <2>1 DEF ResponseInv, ResponseOwned, ResponseTyped, Readable
  <2>3. CASE stream' = stream
    BY <2>1, <2>2, <2>3, StreamStep DEF ResponseReceived, ResponseInv, ResponseSound, Onwards, Readable
  <2>4. CASE ~ stream.disposed /\ stream' = Begin(stream, available)
    <3>1. /\ TypedStream(stream') /\ ~ stream'.disposed
          /\ Sound(stream', SelectedBody, Len(SelectedBody), taken)
          /\ Discarded(stream') => Discarded(stream)
      BY <2>2, <2>4, ReadableStream, BeginReads
    <3>2. stream'.disposed = stream.disposed
      BY <2>2, <2>4, <3>1 DEF TypedStream, StreamRecord
    <3>3. stream.lifecycle = "COMPLETED" => stream' = stream
      BY <2>4 DEF Begin
    <3>. QED
      BY <2>1, <2>2, <3>1, <3>2, <3>3, StreamStep DEF ResponseReceived, Onwards, Readable
  <2>. QED
    BY <1>2, <2>3, <2>4
<1>. QED
  BY <1>1, <1>2 DEF ResponseReceived

LEMMA SettlementKeepsResponse ==
  ASSUME WriteInv, ResponseInv, NEW r \in Requests, NEW failed \in BOOLEAN,
         RequestSettled(r, failed), UNCHANGED taken
  PROVE  ResponseInv' /\ Onwards
<1>1. CASE UNCHANGED trackerVars
  BY <1>1, UnchangedKeepsResponse DEF RequestSettled
<1>2. CASE /\ Selected(r)
           /\ write' = [write EXCEPT !.lifecycle = WriteVerdict(failed)]
           /\ stream' = OnTransportSettled(stream, WriteVerdict(failed) = "FAILED")
  <2>1. /\ write'.armed = write.armed /\ write'.request = write.request
        /\ write'.ambiguous = write.ambiguous
        /\ write.armed /\ write.request # None
    BY <1>2, SelectedStream DEF WriteRecord
  <2>2. /\ stream.disposed = write.ambiguous /\ TypedStream(stream) /\ taken \in Seq(Positions)
        /\ Readable <=> ~ write.ambiguous
    BY <2>1 DEF ResponseInv, ResponseOwned, ResponseTyped, Readable
  <2>3. CASE stream.disposed
    <3>1. stream' = stream
      BY <1>2, <2>3 DEF OnTransportSettled
    <3>. QED
      BY <2>1, <2>2, <2>3, <3>1, StreamStep DEF RequestSettled, Onwards, Readable
  <2>4. CASE ~ stream.disposed
    <3>1. /\ TypedStream(stream') /\ ~ stream'.disposed /\ stream'.call = stream.call
          /\ Sound(stream', SelectedBody, Len(SelectedBody), taken)
          /\ Terminal(stream') \/ (stream'.activation = "pending" /\ stream'.early)
          /\ Discarded(stream') => Discarded(stream)
      <4>. DEFINE f == WriteVerdict(failed) = "FAILED"
      <4>1. f \in BOOLEAN /\ stream' = OnTransportSettled(stream, f)
        BY <1>2
      <4>2. /\ TypedBody(SelectedBody) /\ Sound(stream, SelectedBody, Len(SelectedBody), taken)
        BY <2>2, <2>4, ReadableStream
      <4>. HIDE DEF f
      <4>. QED
        BY <2>2, <2>4, <4>1, <4>2, SettledReads
    <3>2. stream'.disposed = stream.disposed
      BY <2>2, <2>4, <3>1 DEF TypedStream, StreamRecord
    <3>3. stream.lifecycle = "COMPLETED" => stream' = stream
      BY <1>2 DEF OnTransportSettled
    <3>. QED
      BY <2>1, <2>2, <3>1, <3>2, <3>3, StreamStep DEF RequestSettled, Onwards, Readable
  <2>. QED
    BY <2>3, <2>4
<1>. QED
  BY <1>1, <1>2 DEF RequestSettled

(* A call to the browser is of the selected request, whose body it streams. *)
LEMMA CalledStream ==
  ASSUME WriteInv, ResponseInv, stream.call # "none"
  PROVE  /\ write.armed /\ write.request \in Requests /\ write.request # None
         /\ SelectedBody = body[write.request]
         /\ TypedBody(SelectedBody) /\ Len(SelectedBody) \in Nat
         /\ stream.disposed = write.ambiguous /\ (Readable <=> ~ stream.disposed)
         /\ TypedStream(stream) /\ taken \in Seq(Positions)
<1>1. write.armed /\ write.request \in Requests /\ write.request # None
  BY DEF ResponseInv, ResponseOwned, WriteInv, WriteTyped, WriteRecord
<1>. QED
  BY <1>1, SelectedBodyIsTyped DEF ResponseInv, ResponseOwned, ResponseTyped, SelectedBody, Readable

LEMMA TappedKeepsResponse ==
  ASSUME WriteInv, ResponseInv, StreamTapped, UNCHANGED taken
  PROVE  ResponseInv' /\ Onwards
<1>1. stream.call = "sent" /\ UNCHANGED <<body, write>>
  BY DEF StreamTapped, networkVars
<1>2. stream' = [stream EXCEPT !.call = "tapped", !.tapped = Len(SelectedBody)]
  BY <1>1, CalledStream DEF StreamTapped
<1>3. TypedStream(stream') /\ stream'.disposed = stream.disposed
  BY <1>1, <1>2, CalledStream DEF TypedStream, StreamRecord, TypedBody
<1>4. Readable => /\ Sound(stream', SelectedBody, Len(SelectedBody), taken)
                  /\ stream'.early = stream.early /\ stream'.activation = stream.activation
                  /\ stream'.lifecycle = stream.lifecycle
  BY <1>1, <1>2, ReadableStream, TappedReads
<1>5. Readable /\ write'.lifecycle \in {"FINISHED", "FAILED"} =>
        Terminal(stream') \/ (stream'.activation = "pending" /\ stream'.early)
  BY <1>1, <1>4 DEF ResponseInv, ResponseEnds, Terminal
<1>. QED
  BY <1>1, <1>3, <1>4, <1>5, CalledStream, StreamStep DEF Onwards, Readable, Discarded

LEMMA AnsweredKeepsResponse ==
  ASSUME WriteInv, ResponseInv, ActivationAnswered, UNCHANGED taken
  PROVE  ResponseInv' /\ Onwards
<1>. DEFINE a == [stream EXCEPT !.call = "answered"]
<1>1. stream.call = "tapped" /\ UNCHANGED <<body, write>>
  BY DEF ActivationAnswered, networkVars
<1>2. stream' = IF stream.disposed THEN a ELSE CompleteActivation(SelectedBody, a)
  BY <1>1, CalledStream DEF ActivationAnswered
<1>3. /\ TypedStream(a) /\ a.disposed = stream.disposed /\ a.call = "answered"
      /\ a.lifecycle = stream.lifecycle /\ a.activation = stream.activation
      /\ a.early = stream.early /\ a.held = stream.held /\ a.queue = stream.queue
      /\ a.live = stream.live /\ a.tapped = stream.tapped
  BY <1>1, CalledStream DEF TypedStream, StreamRecord
<1>. HIDE DEF a
<1>4. CASE stream.disposed
  BY <1>1, <1>2, <1>3, <1>4, CalledStream, StreamStep DEF Onwards, Readable
<1>5. CASE ~ stream.disposed
  <2>1. Sound(stream, SelectedBody, Len(SelectedBody), taken) /\ Readable
    BY <1>1, <1>5, CalledStream, ReadableStream
  <2>2. stream.lifecycle \in {"PENDING", "FAILED"}
    BY <1>1, <2>1, CalledStream DEF Sound, Waits, Reads, TypedStream, StreamRecord
  <2>3. a.lifecycle = "PENDING" => CatchesUp(a, Len(SelectedBody))
    BY <1>1, <1>3, <2>1 DEF Sound, Waits, CatchesUp
  <2>4. Reads(a, SelectedBody, Len(SelectedBody), taken)
    BY <1>1, <1>3, <2>1, <2>2 DEF Sound, Reads
  <2>5. /\ Running(stream', SelectedBody, Len(SelectedBody), taken)
        /\ a.early => Terminal(stream')
        /\ Discarded(stream') => Discarded(a)
    BY <1>1, <1>2, <1>3, <1>5, <2>2, <2>3, <2>4, CalledStream, CompleteActivationReads
  <2>6. stream.lifecycle = "FAILED" => Terminal(stream')
    <3>1. stream.lifecycle = "FAILED" => stream' = [a EXCEPT !.activation = "none"]
      BY <1>2, <1>3, <1>5 DEF CompleteActivation
    <3>2. [a EXCEPT !.activation = "none"].lifecycle = a.lifecycle
      BY <1>3 DEF TypedStream, StreamRecord
    <3>. QED
      BY <1>3, <3>1, <3>2 DEF Terminal
  <2>7. write'.lifecycle \in {"FINISHED", "FAILED"} => Terminal(stream')
    BY <1>1, <1>3, <2>1, <2>2, <2>5, <2>6 DEF ResponseInv, ResponseEnds, Terminal
  <2>8. /\ TypedStream(stream') /\ stream'.disposed = stream.disposed
        /\ Sound(stream', SelectedBody, Len(SelectedBody), taken)
    BY <1>1, <1>5, <2>5, CalledStream, RunningIsSound DEF TypedStream, StreamRecord
  <2>9. ~ Discarded(stream') /\ stream.lifecycle # "COMPLETED"
    BY <1>3, <2>2, <2>5 DEF Discarded
  <2>. QED
    BY <1>1, <2>1, <2>7, <2>8, <2>9, CalledStream, StreamStep DEF Onwards, Readable
<1>. QED
  BY <1>4, <1>5

LEMMA RefusedKeepsResponse ==
  ASSUME WriteInv, ResponseInv, ActivationFailed, UNCHANGED taken
  PROVE  ResponseInv' /\ Onwards
<1>. DEFINE a == [stream EXCEPT !.call = "answered"]
<1>1. stream.call = "sent" /\ UNCHANGED <<body, write>> /\ stream' = Fail(a)
  BY DEF ActivationFailed, networkVars
<1>2. /\ TypedStream(a) /\ a.disposed = stream.disposed /\ a.call = "answered"
      /\ a.lifecycle = stream.lifecycle /\ a.queue = stream.queue
  BY <1>1, CalledStream DEF TypedStream, StreamRecord
<1>. HIDE DEF a
<1>3. /\ TypedStream(stream') /\ stream'.disposed = stream.disposed
      /\ stream'.call = "answered" /\ stream'.queue = stream.queue
  BY <1>1, <1>2, FailIs
<1>4. CASE stream.disposed
  BY <1>1, <1>3, <1>4, CalledStream, StreamStep DEF Onwards, Readable
<1>5. CASE ~ stream.disposed
  <2>1. Sound(stream, SelectedBody, Len(SelectedBody), taken) /\ Readable
    BY <1>1, <1>5, CalledStream, ReadableStream
  <2>2. stream.lifecycle # "COMPLETED"
    BY <1>1, <2>1 DEF Sound, Reads
  <2>3. stream'.lifecycle = "FAILED" /\ stream'.activation = "none"
    BY <1>1, <1>2, <1>5, <2>2, FailIs
  <2>4. Sound(stream', SelectedBody, Len(SelectedBody), taken)
    BY <1>3, <2>1, <2>3 DEF Sound, Waits, Reads
  <2>. QED
    BY <1>1, <1>3, <2>1, <2>2, <2>3, <2>4, CalledStream, StreamStep
       DEF Onwards, Readable, Discarded, Terminal
<1>. QED
  BY <1>4, <1>5

LEMMA BodyGrows ==
  ASSUME ResponseTyped, NEW r \in Requests, NEW record \in Records, DataReceived(r, record)
  PROVE  /\ body' \in [Requests -> Seq(Records)]
         /\ \A q \in Requests : TypedBody(body'[q])
         /\ \A q \in Requests \ {r} : body'[q] = body[q]
         /\ Len(body[r]) \in Nat /\ Len(body'[r]) = Len(body[r]) + 1
         /\ \A i \in 1..Len(body[r]) : body'[r][i] = body[r][i]
<1>. DEFINE b == body[r]
            c == Append(b, record)
<1>1. body \in [Requests -> Seq(Records)] /\ TypedBody(b) /\ b \in Seq(Records)
      /\ body' = [body EXCEPT ![r] = c] /\ Len(b) < MaxBody
      /\ \A i \in DOMAIN b : b[i] \notin {"done", "half"}
  BY DEF ResponseTyped, DataReceived
<1>2. /\ c \in Seq(Records) /\ Len(b) \in Nat /\ Len(c) = Len(b) + 1
      /\ DOMAIN b = 1..Len(b) /\ DOMAIN c = 1..(Len(b) + 1)
      /\ \A i \in 1..Len(b) : c[i] = b[i]
  BY <1>1
<1>. HIDE DEF c, b
<1>3. TypedBody(c)
  <2>1. Len(c) <= MaxBody
    BY <1>1, <1>2, BoundsAssumption
  <2>2. ASSUME NEW i \in DOMAIN c, c[i] \in {"done", "half"} PROVE i = Len(c)
    <3>1. i \notin 1..Len(b)
      BY <1>1, <1>2, <2>2
    <3>. QED
      BY <1>2, <3>1
  <2>. QED
    BY <1>2, <2>1, <2>2 DEF TypedBody
<1>. QED
  BY <1>1, <1>2, <1>3 DEF ResponseTyped, b

LEMMA DataKeepsResponse ==
  ASSUME WriteInv, ResponseInv, NEW r \in Requests, NEW record \in Records,
         DataReceived(r, record), UNCHANGED taken
  PROVE  ResponseInv' /\ Onwards
<1>. DEFINE n == Len(body[r])
<1>1. UNCHANGED <<net, write>>
  BY DEF DataReceived
<1>2. /\ body' \in [Requests -> Seq(Records)] /\ \A q \in Requests : TypedBody(body'[q])
      /\ \A q \in Requests \ {r} : body'[q] = body[q]
      /\ n \in Nat /\ Len(body'[r]) = n + 1
      /\ \A i \in 1..n : body'[r][i] = body[r][i]
  BY BodyGrows DEF ResponseInv
<1>. HIDE DEF n
<1>3. Readable' = Readable /\ stream.disposed = write.ambiguous /\ TypedStream(stream)
      /\ taken \in Seq(Positions)
  BY <1>1 DEF Readable, ResponseInv, ResponseOwned, ResponseTyped
<1>4. CASE ~ (Selected(r) /\ ~ stream.disposed)
  <2>1. stream' = stream
    BY <1>4 DEF DataReceived
  <2>2. Readable => SelectedBody' = SelectedBody
    BY <1>1, <1>2, <1>3, <1>4 DEF Readable, Selected, SelectedBody, WriteInv, WriteTyped, WriteRecord
  <2>3. ResponseSound'
    BY <1>3, <2>1, <2>2 DEF ResponseInv, ResponseSound
  <2>4. ResponseTyped' /\ ResponseOwned' /\ ResponseEnds'
    BY <1>1, <1>2, <1>3, <2>1 DEF ResponseInv, ResponseTyped, ResponseOwned, ResponseEnds, Terminal
  <2>. QED
    BY <1>3, <2>1, <2>3, <2>4 DEF ResponseInv, Onwards
<1>5. CASE Selected(r) /\ ~ stream.disposed
  <2>1. /\ Readable /\ SelectedBody = body[r] /\ SelectedBody' = body'[r] /\ r # None
        /\ write.armed /\ write.request = r
        /\ Sound(stream, body[r], n, taken) /\ TypedBody(body[r])
    BY <1>1, <1>3, <1>5, SelectedStream, ReadableStream, RequestsAssumption DEF SelectedBody, n
  <2>2. CASE stream.call \in {"tapped", "answered"}
    <3>1. stream' = OnData(body'[r], stream, n + 1)
      BY <1>2, <1>5, <2>2 DEF DataReceived
    <3>2. /\ TypedStream(stream') /\ ~ stream'.disposed /\ Sound(stream', body'[r], n + 1, taken)
          /\ stream'.early = stream.early /\ stream'.call = stream.call
          /\ Terminal(stream) => stream' = stream
          /\ stream.activation = "pending" => Terminal(stream') \/ stream'.activation = "pending"
          /\ Discarded(stream') => Discarded(stream)
      <4>1. /\ TypedBody(body[r]) /\ TypedBody(body'[r]) /\ n \in Nat
            /\ Len(body[r]) = n /\ Len(body'[r]) = n + 1
            /\ \A i \in 1..n : body'[r][i] = body[r][i]
        BY <1>2, <2>1 DEF n
      <4>2. /\ TypedStream(stream) /\ ~ stream.disposed /\ Sound(stream, body[r], n, taken)
        BY <1>3, <1>5, <2>1
      <4>. QED
        BY <1>3, <2>2, <3>1, <4>1, <4>2, DataReads
    <3>3. stream'.disposed = stream.disposed
      BY <1>3, <1>5, <3>2 DEF TypedStream, StreamRecord
    <3>4. ResponseSound'
      BY <1>2, <2>1, <3>2 DEF ResponseSound
    <3>5. ResponseEnds'
      BY <1>1, <1>3, <3>2 DEF ResponseInv, ResponseEnds, Terminal
    <3>6. ResponseTyped' /\ ResponseOwned'
      BY <1>1, <1>2, <1>3, <2>1, <3>2, <3>3 DEF ResponseInv, ResponseTyped, ResponseOwned
    <3>. QED
      BY <1>3, <3>2, <3>4, <3>5, <3>6 DEF ResponseInv, Onwards, Terminal
  <2>3. CASE stream.call \notin {"tapped", "answered"}
    <3>1. stream' = stream /\ stream.call \in {"none", "sent"}
      BY <1>3, <2>3 DEF DataReceived, TypedStream, StreamRecord
    <3>2. stream.lifecycle # "STREAMING"
      BY <1>3, <2>1, <3>1 DEF Sound, Waits, Reads, TypedStream, StreamRecord
    <3>3. Sound(stream, body'[r], n + 1, taken)
      BY <1>2, <2>1, <3>1, <3>2, MoreIsSound
    <3>4. ResponseSound'
      BY <1>2, <2>1, <3>1, <3>3 DEF ResponseSound
    <3>5. ResponseTyped' /\ ResponseOwned' /\ ResponseEnds'
      BY <1>1, <1>2, <1>3, <3>1 DEF ResponseInv, ResponseTyped, ResponseOwned, ResponseEnds, Terminal
    <3>. QED
      BY <1>3, <3>1, <3>4, <3>5 DEF ResponseInv, Onwards
  <2>. QED
    BY <2>2, <2>3
<1>. QED
  BY <1>4, <1>5

LEMMA NetworkKeepsResponse ==
  ASSUME WriteInv, ResponseInv, Network, UNCHANGED taken
  PROVE  ResponseInv' /\ Onwards
<1>1. CASE \E r \in Requests : RequestSent(r)
  BY <1>1, SentKeepsResponse
<1>2. CASE \E r \in Requests : RequestRedirected(r)
  BY <1>2, RedirectedKeepsResponse
<1>3. CASE \E r \in Requests : RequestSentAgain(r)
  BY <1>3, SentAgainKeepsResponse
<1>4. CASE \E r \in Requests, ok, available \in BOOLEAN : ResponseReceived(r, ok, available)
  BY <1>4, ReceivedKeepsResponse
<1>5. CASE \E r \in Requests, record \in Records : DataReceived(r, record)
  BY <1>5, DataKeepsResponse
<1>6. CASE \E r \in Requests, failed \in BOOLEAN : RequestSettled(r, failed)
  BY <1>6, SettlementKeepsResponse
<1>7. CASE StreamTapped
  BY <1>7, TappedKeepsResponse
<1>8. CASE ActivationAnswered
  BY <1>8, AnsweredKeepsResponse
<1>9. CASE ActivationFailed
  BY <1>9, RefusedKeepsResponse
<1>. QED
  BY <1>1, <1>2, <1>3, <1>4, <1>5, <1>6, <1>7, <1>8, <1>9 DEF Network

LEMMA StepKeepsResponse == WriteInv /\ ResponseInv /\ [Next]_vars => ResponseInv'
<1>. SUFFICES ASSUME WriteInv, ResponseInv, [Next]_vars PROVE ResponseInv'
  OBVIOUS
<1>1. CASE Network /\ UNCHANGED taken
  BY <1>1, NetworkKeepsResponse
<1>2. CASE ArmObservation /\ taken' = <<>>
  BY <1>2, ArmKeepsResponse
<1>3. CASE ReleaseObservation /\ UNCHANGED taken
  BY <1>3, ReleaseKeepsResponse DEF ReleaseObservation, networkVars, ResponseInv, ResponseTyped
<1>4. CASE Take
  BY <1>4, TakeKeepsResponse DEF Take, networkVars, Readable
<1>5. CASE DiscardResponse
  BY <1>5, DiscardKeepsResponse DEF DiscardResponse, networkVars
<1>6. CASE UNCHANGED vars
  BY <1>6, UnchangedKeepsResponse DEF vars, networkVars
<1>. QED
  BY <1>1, <1>2, <1>3, <1>4, <1>5, <1>6 DEF Next

LEMMA ResponseAlways == Spec => [](WriteInv /\ ResponseInv)
BY InitWrite, InitResponse, StepKeepsWrite, StepKeepsResponse, PTL DEF Spec

-----------------------------------------------------------------------------
(* What the invariant says.                                                 *)

LEMMA ResponseTypes == WriteInv /\ ResponseInv => TypeOK
<1>. SUFFICES ASSUME WriteInv, ResponseInv PROVE TypeOK
  OBVIOUS
<1>1. stream \in StreamRecord /\ Len(stream.live) <= MaxLive /\ Len(stream.queue) <= MaxQueued
  BY DEF ResponseInv, ResponseTyped, TypedStream
<1>2. /\ body \in [Requests -> Seq(Records)] /\ taken \in Seq(Positions)
  BY DEF ResponseInv, ResponseTyped
<1>3. sent \subseteq Requests /\ write \in WriteRecord
  BY DEF WriteInv, WriteTyped
<1>4. net \in [Requests -> [phase : Phases, ok : BOOLEAN, redirected : BOOLEAN]]
  BY DEF WriteInv, NetTyped
<1>. QED
  BY <1>1, <1>2, <1>3, <1>4 DEF TypeOK, StreamRecord, WriteRecord, Phases

LEMMA ResponseIsInOrder == WriteInv /\ ResponseInv => TextIsInOrder
<1>. SUFFICES ASSUME WriteInv, ResponseInv, Readable, write.request # None
              PROVE  \E n \in 0..Len(body[write.request]) :
                       ListsTexts(taken \o stream.queue, body[write.request], n)
  BY DEF TextIsInOrder
<1>. QED
  BY ReadableStream DEF Sound, Reads, SelectedBody

LEMMA ResponseIsWhole == WriteInv /\ ResponseInv => CompletedIsWhole
<1>. SUFFICES ASSUME WriteInv, ResponseInv, Readable, stream.lifecycle = "COMPLETED"
              PROVE  \E i \in DOMAIN body[write.request] :
                       /\ body[write.request][i] \in {"done", "half"}
                       /\ ListsTexts(taken \o stream.queue, body[write.request], i)
                            \/ stream.activation = "none"
  BY DEF CompletedIsWhole
<1>1. Sound(stream, SelectedBody, Len(SelectedBody), taken)
  BY ReadableStream
<1>2. stream.call # "none"
  BY <1>1 DEF Sound, Reads
<1>3. SelectedBody = body[write.request] /\ DOMAIN SelectedBody = 1..Len(SelectedBody)
  BY <1>2, CalledStream DEF TypedBody
<1>. QED
  BY <1>1, <1>3 DEF Sound, Reads

(* The types, and the bounds on the two buffers of a response, whatever the  *)
(* browser sends and in whatever order.                                      *)
THEOREM BuffersStayBounded == Spec => []TypeOK
BY ResponseAlways, ResponseTypes, PTL

(* Once the write has settled and the call is answered, the response has     *)
(* ended: the turn never waits for a stream that nobody will close.          *)
THEOREM SettledResponseEnds == Spec => []SettledWriteClosesTheStream
<1>1. ResponseInv => SettledWriteClosesTheStream
  BY DEF ResponseInv, ResponseEnds, SettledWriteClosesTheStream
<1>. QED
  BY <1>1, ResponseAlways, PTL

(* However the buffered answer, the live data and the settlement interleave, *)
(* the owner reads the body's text from its start, without gap or repetition. *)
THEOREM TextIsReadInOrder == Spec => []TextIsInOrder
BY ResponseAlways, ResponseIsInOrder, PTL

(* A response that is reported as complete ended with its done, and nothing  *)
(* of its text was lost unless its owner gave it up.                          *)
THEOREM CompletedResponseIsWhole == Spec => []CompletedIsWhole
BY ResponseAlways, ResponseIsWhole, PTL

=============================================================================

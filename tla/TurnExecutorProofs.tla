-------------------------- MODULE TurnExecutorProofs --------------------------
(***************************************************************************)
(* How a turn ends, whatever the network, its caller and the runtime do,   *)
(* for any number of requests and conversations and any bounds.            *)
(*                                                                         *)
(* A turn settles without a mark only when nothing it sent is under way,   *)
(* and succeeds only with all the text of the one response.  It knows both *)
(* from its observation, so the argument rests on what the observation's   *)
(* own proofs say of it (Writes!WriteInv, Writes!ResponseInv), and on what *)
(* each await of the turn has already seen: a turn that reads the route    *)
(* has seen a write, one that reads it again has seen the write finish     *)
(* (SeenInv), and what it concluded from the stream still holds (ReadInv). *)
(*                                                                         *)
(* Each step of the turn either Ends it, by failing or by succeeding, or   *)
(* GoesOn to another await.  What the two say of the page, of the mark and *)
(* of what the caller has heard carries the invariant and all theorems.    *)
(***************************************************************************)
EXTENDS TurnExecutor, SequenceTheorems, TLAPS

Writes == INSTANCE TurnObservationProofs WITH taken <- delivery.text

Awaiting == {"inserting", "sending", "releasing", "polling", "locating", "revalidating"}

(* What the turn has seen before it reached each of its awaits. *)
SeenInv ==
  /\ pc \in Awaiting \cup {"preflight", "done"}
  /\ pc = "preflight" => write = Obs!NoWrite /\ sent = {}
  /\ pc \in Awaiting => write.armed
  /\ pc = "done" => ~ write.armed
  /\ pc = "locating" /\ ~ write.ambiguous => write.lifecycle # "NONE"
  /\ pc = "revalidating" /\ ~ write.ambiguous => write.lifecycle = "FINISHED"

Event == [type : EventTypes, text : Seq(Obs!Positions), left : BOOLEAN]

DeliveryRecord ==
  [deferred : BOOLEAN, semantic : BOOLEAN, failed : BOOLEAN, discarded : BOOLEAN,
   text : Seq(Obs!Positions), heard : Seq(Event)]

IsDelivery(d) == d \in DeliveryRecord /\ Len(d.text) <= MaxText

Texts(h) == [i \in 1..Len(h) |-> h[i].text]

(* The listener has heard the accumulated text, piece by piece, or, of a    *)
(* deferred delivery, nothing.                                              *)
Concatenates(d) ==
  /\ \A i \in 1..Len(d.heard) : d.heard[i].type = "TEXT_DELTA"
  /\ IF d.deferred THEN d.heard = <<>> ELSE FlattenSeq(Texts(d.heard)) = d.text

DeliveryInv ==
  /\ IsDelivery(delivery)
  /\ pc # "done" => delivery.deferred = (kind = "PROJECT") /\ Concatenates(delivery)
  /\ pc = "preflight" => delivery = NewDelivery(kind)

(* What the turn has concluded from the response stream is still so. *)
ReadInv ==
  pc \in Awaiting =>
    /\ delivery.discarded => aborted \/ delivery.failed
    /\ ~ write.ambiguous =>
         /\ Writes!Discarded(stream) => delivery.discarded
         /\ delivery.semantic => stream.lifecycle = "COMPLETED"

(* Before the first request there is no text. *)
StreamIdle(s) == s.queue = <<>> /\ s.call = "none"

StreamInv == pc \in Awaiting /\ sent = {} => StreamIdle(stream)

OutcomeInv ==
  /\ pc # "done" => outcome = "pending" /\ marked = FALSE /\ reserved = {}
  /\ pc = "done" => outcome # "pending"
  /\ reserved # {} => outcome = "created" /\ marked = FALSE /\ kind = "PROJECT"

IInv ==
  /\ Writes!WriteInv
  /\ Writes!ResponseInv
  /\ SeenInv
  /\ DeliveryInv
  /\ ReadInv
  /\ StreamInv
  /\ OutcomeInv
  /\ SettlesAfterTheWrite
  /\ SuccessIsWhole

-----------------------------------------------------------------------------
(* Sequences of texts.                                                      *)

LEMMA NatInductionOnSets ==
  ASSUME NEW T, 0 \in T, \A n \in Nat : n \in T => n + 1 \in T
  PROVE  Nat \subseteq T
BY Writes!NatInductionOnSets, ObservationAssumption DEF Writes!AllRecords

(* FlattenSeq joins its sequences one after the other. *)
LEMMA FlattenSeqRuns ==
  ASSUME NEW S, NEW ss \in Seq(S), ss # <<>>
  PROVE  \E F : /\ F[1] = ss[1]
                /\ \A k \in 2..Len(ss) : F[k] = F[k - 1] \o ss[k]
                /\ FlattenSeq(ss) = F[Len(ss)]
<1>. DEFINE Joins(f, D) == f = [i \in D |-> IF i = 1 THEN ss[i] ELSE f[i - 1] \o ss[i]]
            T == {m \in Nat : \E f : Joins(f, 1..m)}
<1>1. 0 \in T
  <2>1. Joins([i \in 1..0 |-> ss[i]], 1..0)
    OBVIOUS
  <2>. QED
    BY <2>1
<1>2. ASSUME NEW m \in Nat, m \in T PROVE m + 1 \in T
  <2>1. PICK f : Joins(f, 1..m)
    BY <1>2
  <2>5. \A i \in 1..m : f[i] = IF i = 1 THEN ss[i] ELSE f[i - 1] \o ss[i]
    BY <2>1
  <2>. DEFINE e == IF m + 1 = 1 THEN ss[m + 1] ELSE f[m] \o ss[m + 1]
              g == [i \in 1..(m + 1) |-> IF i = m + 1 THEN e ELSE f[i]]
              h == [i \in 1..(m + 1) |-> IF i = 1 THEN ss[i] ELSE g[i - 1] \o ss[i]]
  <2>2. ASSUME NEW i \in 1..(m + 1) PROVE g[i] = IF i = 1 THEN ss[i] ELSE g[i - 1] \o ss[i]
    <3>1. CASE i = m + 1
      BY <3>1
    <3>2. CASE i \in 1..m
      <4>1. g[i] = f[i]
        BY <3>2
      <4>2. i # 1 => g[i - 1] = f[i - 1]
        BY <3>2
      <4>. HIDE DEF g
      <4>. QED
        BY <2>5, <3>2, <4>1, <4>2
    <3>. QED
      BY <3>1, <3>2
  <2>3. g = h
    <3>1. g = [i \in 1..(m + 1) |-> g[i]]
      OBVIOUS
    <3>. HIDE DEF g
    <3>. QED
      BY <2>2, <3>1
  <2>4. Joins(g, 1..(m + 1))
    BY <2>3
  <2>. HIDE DEF g, Joins
  <2>. QED
    BY <2>4
<1>. HIDE DEF T
<1>3. Nat \subseteq T
  BY <1>1, <1>2, NatInductionOnSets
<1>. DEFINE n == Len(ss)
            F == CHOOSE f : Joins(f, 1..n)
<1>4. n \in Nat /\ n # 0
  OBVIOUS
<1>5. Joins(F, 1..n)
  BY <1>3, <1>4 DEF T
<1>6. FlattenSeq(ss) = F[n]
  BY <1>4 DEF FlattenSeq
<1>. HIDE DEF F
<1>7. \A k \in 1..n : F[k] = IF k = 1 THEN ss[k] ELSE F[k - 1] \o ss[k]
  BY <1>5
<1>8. F[1] = ss[1] /\ \A k \in 2..n : F[k] = F[k - 1] \o ss[k]
  <2>. HIDE DEF n
  <2>1. 1 \in 1..n /\ \A k \in 2..n : k \in 1..n /\ k # 1
    BY <1>4
  <2>. QED
    BY <1>7, <2>1
<1>. QED
  BY <1>6, <1>8

LEMMA FlattenNothing == FlattenSeq(<<>>) = <<>>
BY DEF FlattenSeq

LEMMA FlattenAppend ==
  ASSUME NEW S, NEW ss \in Seq(Seq(S)), NEW t \in Seq(S)
  PROVE  FlattenSeq(Append(ss, t)) = FlattenSeq(ss) \o t
<1>. DEFINE n == Len(ss)
            all == Append(ss, t)
<1>. DEFINE U == Seq(S)
<1>. HIDE DEF U
<1>0. ss \in Seq(U) /\ t \in U
  BY DEF U
<1>1. /\ n \in Nat /\ Len(all) = n + 1 /\ all \in Seq(U) /\ all # <<>>
      /\ all[n + 1] = t /\ \A k \in 1..n : all[k] = ss[k]
  BY <1>0
<1>. HIDE DEF all
<1>2. PICK G : /\ G[1] = all[1]
               /\ \A k \in 2..(n + 1) : G[k] = G[k - 1] \o all[k]
               /\ FlattenSeq(all) = G[n + 1]
  <2>1. \E G : /\ G[1] = all[1]
               /\ \A k \in 2..Len(all) : G[k] = G[k - 1] \o all[k]
               /\ FlattenSeq(all) = G[Len(all)]
    BY <1>1, FlattenSeqRuns
  <2>. QED
    BY <1>1, <2>1
<1>3. CASE ss = <<>>
  <2>1. FlattenSeq(all) = t /\ FlattenSeq(ss) = <<>> /\ <<>> \o t = t
    BY <1>1, <1>2, <1>3, FlattenNothing
  <2>. QED
    BY <2>1 DEF all
<1>4. CASE ss # <<>>
  <2>1. PICK F : /\ F[1] = ss[1]
                 /\ \A k \in 2..n : F[k] = F[k - 1] \o ss[k]
                 /\ FlattenSeq(ss) = F[n]
    BY <1>4, FlattenSeqRuns
  <2>. DEFINE T == {k \in Nat : k \in 1..n => F[k] = G[k]}
  <2>2. 0 \in T
    OBVIOUS
  <2>3. ASSUME NEW k \in Nat, k \in T PROVE k + 1 \in T
    <3>. SUFFICES ASSUME k + 1 \in 1..n PROVE F[k + 1] = G[k + 1]
      OBVIOUS
    <3>. HIDE DEF n
    <3>1. CASE k + 1 = 1
      <4>1. 1 \in 1..n
        BY <3>1
      <4>. QED
        BY <1>1, <1>2, <2>1, <3>1, <4>1
    <3>2. CASE k + 1 \in 2..n
      <4>1. F[k] = G[k] /\ F[k + 1] = F[k] \o ss[k + 1] /\ G[k + 1] = G[k] \o all[k + 1]
        <5>1. k \in 1..n /\ k + 1 \in 2..n /\ k + 1 \in 2..(n + 1) /\ (k + 1) - 1 = k
          BY <1>1, <2>3, <3>2
        <5>2. F[k] = G[k]
          BY <2>3, <5>1
        <5>3. F[k + 1] = F[(k + 1) - 1] \o ss[k + 1]
          BY <2>1, <5>1
        <5>4. G[k + 1] = G[(k + 1) - 1] \o all[k + 1]
          BY <1>2, <5>1
        <5>. QED
          BY <5>1, <5>2, <5>3, <5>4
      <4>. QED
        BY <1>1, <3>2, <4>1
    <3>3. k + 1 = 1 \/ k + 1 \in 2..n
      BY <1>1
    <3>. QED
      BY <3>1, <3>2, <3>3
  <2>. HIDE DEF T
  <2>4. n \in T
    BY <1>1, <2>2, <2>3, NatInductionOnSets
  <2>5. n \in 1..n /\ n + 1 \in 2..(n + 1)
    BY <1>1, <1>4
  <2>6. F[n] = G[n]
    BY <1>1, <2>4, <2>5 DEF T
  <2>7. G[n + 1] = G[n] \o t
    <3>. HIDE DEF n
    <3>1. (n + 1) - 1 = n
      BY <1>1
    <3>2. G[n + 1] = G[(n + 1) - 1] \o all[n + 1]
      BY <1>2, <2>5
    <3>. QED
      BY <1>1, <3>1, <3>2
  <2>. QED
    BY <1>2, <2>1, <2>6, <2>7 DEF all
<1>. QED
  BY <1>3, <1>4
-----------------------------------------------------------------------------
(* The delivery of the response.                                            *)

LEMMA TextsAppend ==
  ASSUME NEW h \in Seq(Event), NEW e \in Event
  PROVE  /\ Texts(h) \in Seq(Seq(Obs!Positions))
         /\ Texts(Append(h, e)) = Append(Texts(h), e.text)
         /\ FlattenSeq(Texts(Append(h, e))) = FlattenSeq(Texts(h)) \o e.text
<1>. DEFINE U == Seq(Obs!Positions)
<1>. HIDE DEF U
<1>1. Event = [type : EventTypes, text : U, left : BOOLEAN] /\ e.text \in U
  BY DEF Event, U
<1>2. Texts(h) \in Seq(U)
  <2>1. Len(h) \in Nat /\ \A i \in 1..Len(h) : h[i] \in Event
    OBVIOUS
  <2>2. \A x \in Event : x.text \in U
    BY <1>1
  <2>. QED
    BY <2>1, <2>2 DEF Texts
<1>3. Texts(Append(h, e)) = Append(Texts(h), e.text)
  <2>. DEFINE a == Append(h, e)
              n == Len(h)
              l == Texts(a)
              m == Append(Texts(h), e.text)
  <2>1. /\ n \in Nat /\ Len(a) = n + 1 /\ a[n + 1] = e
        /\ \A i \in 1..n : a[i] = h[i]
    OBVIOUS
  <2>2. /\ Len(Texts(h)) = n /\ \A i \in 1..n : Texts(h)[i] = h[i].text
    BY <2>1 DEF Texts
  <2>. HIDE DEF a, n
  <2>3. /\ l = [i \in 1..(n + 1) |-> a[i].text]
    BY <2>1 DEF Texts
  <2>4. /\ m = [i \in 1..(n + 1) |-> m[i]]
        /\ m[n + 1] = e.text
        /\ \A i \in 1..n : m[i] = h[i].text
    BY <1>1, <1>2, <2>1, <2>2
  <2>. HIDE DEF l, m
  <2>5. \A i \in 1..(n + 1) : m[i] = a[i].text
    <3>1. \A i \in 1..(n + 1) : i \in 1..n \/ i = n + 1
      BY <2>1
    <3>. QED
      BY <2>1, <2>4, <3>1
  <2>6. l = m
    BY <2>3, <2>4, <2>5
  <2>. QED
    BY <2>6 DEF l, m, a
<1>4. FlattenSeq(Append(Texts(h), e.text)) = FlattenSeq(Texts(h)) \o e.text
  BY <1>1, <1>2, FlattenAppend DEF U
<1>. QED
  BY <1>2, <1>3, <1>4 DEF U

(* One more event is heard. *)
LEMMA HearIsHeard ==
  ASSUME NEW d, IsDelivery(d), NEW type \in EventTypes, NEW text \in Seq(Obs!Positions), NEW reply
  PROVE  LET h == Hear(d, type, text, reply)
         IN \E e \in Event :
              /\ e.type = type /\ e.text = text
              /\ IsDelivery(h) /\ h.heard = Append(d.heard, e)
              /\ h.deferred = d.deferred /\ h.failed = d.failed /\ h.text = d.text
              /\ h.semantic = d.semantic /\ h.discarded = d.discarded
              /\ h.heard # <<>> /\ Last(h.heard) = e
<1>. DEFINE e == [type |-> type, text |-> text, left |-> reply.aborts = Nth(d)]
            h == Hear(d, type, text, reply)
<1>1. e \in Event /\ e.type = type /\ e.text = text /\ d.heard \in Seq(Event)
  BY DEF Event, IsDelivery, DeliveryRecord
<1>2. h = [d EXCEPT !.heard = Append(d.heard, e)]
  BY DEF Hear, IsDelivery, DeliveryRecord
<1>. HIDE DEF e
<1>3. Append(d.heard, e) \in Seq(Event) /\ Append(d.heard, e) # <<>> /\ Last(Append(d.heard, e)) = e
  BY <1>1 DEF Last
<1>4. /\ IsDelivery(h) /\ h.heard = Append(d.heard, e)
      /\ h.deferred = d.deferred /\ h.failed = d.failed /\ h.text = d.text
      /\ h.semantic = d.semantic /\ h.discarded = d.discarded
  BY <1>2, <1>3 DEF IsDelivery, DeliveryRecord
<1>. HIDE DEF h
<1>. QED
  BY <1>1, <1>3, <1>4 DEF h

LEMMA AppendToConcat ==
  ASSUME NEW t \in Seq(Obs!Positions), NEW q \in Seq(Obs!Positions), NEW e \in Obs!Positions
  PROVE  t \o Append(q, e) = Append(t \o q, e)
OBVIOUS

LEMMA AppendedElement ==
  ASSUME NEW h \in Seq(Event), NEW v \in Event
  PROVE  /\ Len(h) \in Nat /\ Len(Append(h, v)) = Len(h) + 1 /\ Append(h, v)[Len(h) + 1] = v
         /\ \A i \in 1..Len(h) : Append(h, v)[i] = h[i]
         /\ \A i \in 1..Len(Append(h, v)) : i \in 1..Len(h) \/ i = Len(h) + 1
<1>1. /\ Len(h) \in Nat /\ Len(Append(h, v)) = Len(h) + 1 /\ Append(h, v)[Len(h) + 1] = v
      /\ \A i \in 1..Len(h) : Append(h, v)[i] = h[i]
  OBVIOUS
<1>. QED
  BY <1>1

LEMMA LastIsHeard ==
  ASSUME NEW h, h # <<>>
  PROVE  /\ Last(h).type = "TEXT_DELTA" => LastHeard(h) = "text"
         /\ Last(h).type = "FINAL_TEXT" => LastHeard(h) = "whole"
         /\ Last(h).type = "COMPLETED" => LastHeard(h) = "completed"
BY DEF LastHeard

(* What the last thing heard can be while only text was. *)
LEMMA ConcatenationIsText ==
  ASSUME NEW d, IsDelivery(d), Concatenates(d)
  PROVE  LastHeard(d.heard) \in {"nothing", "text"}
<1>1. CASE d.heard = <<>>
  BY <1>1 DEF LastHeard
<1>2. CASE d.heard # <<>>
  <2>1. Len(d.heard) \in 1..Len(d.heard)
    BY <1>2 DEF IsDelivery, DeliveryRecord
  <2>. QED
    BY <1>2, <2>1, LastIsHeard DEF Concatenates, Last
<1>. QED
  BY <1>1, <1>2

(* e is d after the first k of the events that are queued: all k of them, or *)
(* fewer if the delivery has been given up.                                  *)
DeliveredUpTo(d, e, k) ==
  /\ IsDelivery(e)
  /\ e.deferred = d.deferred
  /\ d.failed => e.failed
  /\ d.discarded => e.discarded
  /\ e.discarded => d.discarded \/ e.failed \/ aborted
  /\ e.semantic => d.semantic \/ stream.lifecycle = "COMPLETED"
  /\ d.deferred \/ k = 0 => e.heard = d.heard
  /\ Len(d.heard) <= Len(e.heard)
  /\ \A i \in (Len(d.heard) + 1)..Len(e.heard) : e.heard[i].type = "TEXT_DELTA"
  /\ Concatenates(d) => Concatenates(e)
  /\ \E m \in 0..k : /\ e.text = d.text \o SubSeq(stream.queue, 1, m)
                     /\ e.discarded \/ m = k

Delivered(d, e) == DeliveredUpTo(d, e, Len(stream.queue))

LEMMA StopIs ==
  ASSUME NEW e, IsDelivery(e)
  PROVE  /\ IsDelivery(Stop(e)) /\ Stop(e).failed /\ Stop(e).discarded
         /\ Stop(e).deferred = e.deferred /\ Stop(e).semantic = e.semantic
         /\ Stop(e).text = e.text /\ Stop(e).heard = e.heard
         /\ Concatenates(e) => Concatenates(Stop(e))
<1>1. /\ IsDelivery(Stop(e)) /\ Stop(e).failed /\ Stop(e).discarded
      /\ Stop(e).deferred = e.deferred /\ Stop(e).semantic = e.semantic
      /\ Stop(e).text = e.text /\ Stop(e).heard = e.heard
  BY DEF IsDelivery, DeliveryRecord, Stop
<1>. HIDE DEF Stop
<1>. QED
  BY <1>1 DEF Concatenates

LEMMA StoppedIsDelivered ==
  ASSUME NEW d, NEW e, Delivered(d, e)
  PROVE  Delivered(d, Stop(e))
BY StopIs DEF Delivered, DeliveredUpTo

(* One more piece of text, heard at once or accumulated for later. *)
LEMMA PieceIsAccumulated ==
  ASSUME NEW d, IsDelivery(d), ~ d.discarded, Len(d.text) + 1 <= MaxText,
         NEW piece \in Obs!Positions, NEW reply
  PROVE  LET h == IF d.deferred THEN d ELSE Hear(d, "TEXT_DELTA", <<piece>>, reply)
             e == [h EXCEPT !.text = Append(@, piece)]
         IN /\ IsDelivery(e) /\ e.text = Append(d.text, piece)
            /\ e.deferred = d.deferred /\ e.failed = d.failed /\ e.semantic = d.semantic
            /\ e.discarded = d.discarded
            /\ IF d.deferred THEN e.heard = d.heard
               ELSE \E v \in Event : /\ v.type = "TEXT_DELTA" /\ v.text = <<piece>>
                                     /\ e.heard = Append(d.heard, v)
            /\ Concatenates(d) => Concatenates(e)
<1>. DEFINE h == IF d.deferred THEN d ELSE Hear(d, "TEXT_DELTA", <<piece>>, reply)
            e == [h EXCEPT !.text = Append(@, piece)]
<1>1. "TEXT_DELTA" \in EventTypes /\ <<piece>> \in Seq(Obs!Positions)
  BY DEF EventTypes
<1>2. /\ IsDelivery(h) /\ h.text = d.text
      /\ h.deferred = d.deferred /\ h.failed = d.failed /\ h.semantic = d.semantic
      /\ h.discarded = d.discarded
      /\ IF d.deferred THEN h.heard = d.heard
         ELSE \E v \in Event : /\ v.type = "TEXT_DELTA" /\ v.text = <<piece>>
                               /\ h.heard = Append(d.heard, v)
  <2>1. CASE d.deferred
    BY <2>1
  <2>2. CASE ~ d.deferred
    <3>. DEFINE one == <<piece>>
                g   == Hear(d, "TEXT_DELTA", one, reply)
    <3>. HIDE DEF one
    <3>1. one \in Seq(Obs!Positions)
      BY <1>1 DEF one
    <3>2. PICK v \in Event :
               /\ v.type = "TEXT_DELTA" /\ v.text = one
               /\ IsDelivery(g) /\ g.heard = Append(d.heard, v)
               /\ g.deferred = d.deferred /\ g.failed = d.failed /\ g.text = d.text
               /\ g.semantic = d.semantic /\ g.discarded = d.discarded
      BY <1>1, <3>1, HearIsHeard
    <3>3. h = g
      BY <2>2 DEF one
    <3>. HIDE DEF g
    <3>. QED
      BY <2>2, <3>2, <3>3 DEF one
  <2>. QED
    BY <2>1, <2>2
<1>. HIDE DEF h
<1>3. /\ d.text \in Seq(Obs!Positions) /\ Append(d.text, piece) \in Seq(Obs!Positions)
      /\ Len(Append(d.text, piece)) <= MaxText /\ d.heard \in Seq(Event)
  BY MaxTextAssumption DEF IsDelivery, DeliveryRecord
<1>4. /\ IsDelivery(e) /\ e.text = Append(d.text, piece) /\ e.heard = h.heard
      /\ e.deferred = h.deferred /\ e.failed = h.failed /\ e.semantic = h.semantic
      /\ e.discarded = h.discarded
  BY <1>2, <1>3 DEF IsDelivery, DeliveryRecord
<1>. HIDE DEF e
<1>5. ASSUME Concatenates(d) PROVE Concatenates(e)
  <2>1. CASE d.deferred
    BY <1>2, <1>4, <1>5, <2>1 DEF Concatenates
  <2>2. CASE ~ d.deferred
    <3>1. PICK v \in Event : v.type = "TEXT_DELTA" /\ v.text = <<piece>> /\ e.heard = Append(d.heard, v)
      BY <1>2, <1>4, <2>2
    <3>2. FlattenSeq(Texts(e.heard)) = FlattenSeq(Texts(d.heard)) \o <<piece>>
      BY <1>3, <3>1, TextsAppend
    <3>3. FlattenSeq(Texts(d.heard)) = d.text
      BY <1>5, <2>2 DEF Concatenates
    <3>4. d.text \o <<piece>> = Append(d.text, piece)
      BY <1>3
    <3>5. \A i \in 1..Len(e.heard) : e.heard[i].type = "TEXT_DELTA"
      BY <1>3, <1>5, <3>1, AppendedElement DEF Concatenates
    <3>. QED
      BY <1>2, <1>4, <2>2, <3>2, <3>3, <3>4, <3>5 DEF Concatenates
  <2>. QED
    BY <2>1, <2>2
<1>. QED
  BY <1>2, <1>4, <1>5 DEF h, e

(* Max chooses the greatest of finitely many numbers. *)
LEMMA MaxOfNats ==
  ASSUME NEW m \in Nat, NEW t \in SUBSET (1..m), t # {}
  PROVE  Max(t) \in t /\ \A y \in t : y <= Max(t)
BY Writes!MaxOfNats, ObservationAssumption DEF Max, Writes!Max, Writes!AllRecords

(* The queued events are delivered one after the other, in their order. *)
LEMMA DeliverTextRuns ==
  ASSUME NEW d, NEW reply, stream.queue \in Seq(Obs!Positions)
  PROVE  \E F : /\ F[0] = d
                /\ \A k \in 1..Len(stream.queue) :
                     F[k] = DeliverEvent(F[k - 1], stream.queue[k], reply)
                /\ DeliverText(d, reply) = F[Len(stream.queue)]
<1>. DEFINE p == stream.queue
            Folds(f, D) ==
       f = [t \in SUBSET D |-> IF t = {} THEN d ELSE DeliverEvent(f[t \ {Max(t)}], p[Max(t)], reply)]
            T == {m \in Nat : \E f : Folds(f, 1..m)}
<1>1. 0 \in T
  <2>1. Folds([t \in SUBSET (1..0) |-> d], 1..0)
    OBVIOUS
  <2>. QED
    BY <2>1
<1>2. ASSUME NEW m \in Nat, m \in T PROVE m + 1 \in T
  <2>1. PICK f : Folds(f, 1..m)
    BY <1>2
  <2>. DEFINE g == [t \in SUBSET (1..(m + 1)) |->
                     IF m + 1 \in t THEN DeliverEvent(f[t \ {m + 1}], p[m + 1], reply) ELSE f[t]]
  <2>2. ASSUME NEW t \in SUBSET (1..(m + 1))
        PROVE  g[t] = IF t = {} THEN d ELSE DeliverEvent(g[t \ {Max(t)}], p[Max(t)], reply)
    <3>1. CASE m + 1 \in t
      <4>1. Max(t) = m + 1
        <5>. HIDE DEF g, Folds
        <5>1. m + 1 \in Nat /\ t # {} /\ t \subseteq 1..(m + 1)
          BY <3>1
        <5>2. Max(t) \in t /\ \A y \in t : y <= Max(t)
          BY ONLY <5>1, MaxOfNats
        <5>3. m + 1 <= Max(t) /\ Max(t) \in 1..(m + 1)
          BY <3>1, <5>1, <5>2
        <5>. QED
          BY <5>3
      <4>. HIDE DEF Folds
      <4>2. g[t \ {m + 1}] = f[t \ {m + 1}]
        OBVIOUS
      <4>. QED
        BY <3>1, <4>1, <4>2
    <3>2. CASE m + 1 \notin t
      <4>1. t \in SUBSET (1..m) /\ g[t] = f[t]
        BY <3>2
      <4>2. f[t] = IF t = {} THEN d ELSE DeliverEvent(f[t \ {Max(t)}], p[Max(t)], reply)
        BY <2>1, <4>1
      <4>3. t # {} => g[t \ {Max(t)}] = f[t \ {Max(t)}]
        BY <4>1
      <4>. HIDE DEF g, Folds
      <4>. QED
        BY <4>1, <4>2, <4>3
    <3>. QED
      BY <3>1, <3>2
  <2>3. Folds(g, 1..(m + 1))
    <3>. DEFINE h == [t \in SUBSET (1..(m + 1)) |->
                       IF t = {} THEN d ELSE DeliverEvent(g[t \ {Max(t)}], p[Max(t)], reply)]
    <3>1. \A t \in SUBSET (1..(m+1)) : g[t] = h[t]
      BY <2>2
    <3>2. g = h
      <4>1. g = [t \in SUBSET (1..(m+1)) |-> g[t]]
        OBVIOUS
      <4>. HIDE DEF g
      <4>. QED BY <3>1, <4>1
    <3>. QED
      BY <3>2
  <2>. HIDE DEF g, Folds
  <2>. QED
    BY <2>3
<1>. HIDE DEF T
<1>3. Nat \subseteq T
  BY <1>1, <1>2, NatInductionOnSets
<1>. DEFINE n == Len(p)
            iter == CHOOSE f : Folds(f, DOMAIN p)
<1>4. n \in Nat /\ DOMAIN p = 1..n
  OBVIOUS
<1>5. Folds(iter, 1..n)
  BY <1>3, <1>4 DEF T
<1>6. DeliverText(d, reply) = iter[1..n]
  BY <1>4 DEF DeliverText, FoldLeft, MapThenFoldSet
<1>. DEFINE F == [k \in 0..n |-> iter[1..k]]
<1>. HIDE DEF iter
<1>7. ASSUME NEW k \in 1..n PROVE F[k] = DeliverEvent(F[k - 1], p[k], reply)
  <2>1. 1..k \in SUBSET (1..n) /\ k \in 1..k
    BY <1>4
  <2>2. Max(1..k) = k
    <3>1. Max(1..k) \in 1..k /\ k <= Max(1..k)
      BY <1>4, <2>1, MaxOfNats
    <3>. QED
      BY <3>1
  <2>3a. (1..k) \ {k} = 1..(k - 1)
    BY <1>4
  <2>3. iter[1..k] = DeliverEvent(iter[1..(k - 1)], p[k], reply)
    BY <1>5, <2>1, <2>2, <2>3a
  <2>. HIDE DEF Folds
  <2>. QED
    BY <2>3
<1>8. F[0] = d
  <2>1. 1..0 = {} /\ {} \in SUBSET (1..n)
    OBVIOUS
  <2>. QED BY <1>5, <2>1
<1>9. F[n] = iter[1..n]
  BY <1>4
<1>. HIDE DEF F
<1>. QED
  BY <1>6, <1>7, <1>8, <1>9

LEMMA EventIsDelivered ==
  ASSUME NEW d, IsDelivery(d), stream.queue \in Seq(Obs!Positions), NEW reply,
         NEW k \in 1..Len(stream.queue), NEW e, DeliveredUpTo(d, e, k - 1)
  PROVE  DeliveredUpTo(d, DeliverEvent(e, stream.queue[k], reply), k)
<1>. DEFINE piece == stream.queue[k]
            h     == IF e.deferred THEN e ELSE Hear(e, "TEXT_DELTA", <<piece>>, reply)
            f     == [h EXCEPT !.text = Append(@, piece)]
            x     == DeliverEvent(e, piece, reply)
<1>. SUFFICES DeliveredUpTo(d, x, k)
  OBVIOUS
<1>1. /\ piece \in Obs!Positions /\ IsDelivery(e) /\ k \in Nat /\ k # 0
      /\ d.text \in Seq(Obs!Positions) /\ d.heard \in Seq(Event) /\ e.heard \in Seq(Event)
  BY DEF DeliveredUpTo, IsDelivery, DeliveryRecord
<1>2. PICK m \in 0..(k - 1) : /\ e.text = d.text \o SubSeq(stream.queue, 1, m)
                              /\ e.discarded \/ m = k - 1
  BY DEF DeliveredUpTo
<1>3. m \in 0..k
  BY <1>1
<1>4. CASE e.discarded /\ x = e
  BY <1>1, <1>2, <1>3, <1>4 DEF DeliveredUpTo
<1>5. CASE x = Stop(e)
  <2>1. x.text = e.text /\ x.discarded
    BY <1>1, <1>5, StopIs
  <2>2. /\ IsDelivery(x) /\ x.failed /\ x.deferred = e.deferred /\ x.semantic = e.semantic
        /\ x.heard = e.heard /\ (Concatenates(e) => Concatenates(x))
    BY <1>1, <1>5, StopIs
  <2>. HIDE DEF x
  <2>. QED
    BY <1>1, <1>2, <1>3, <2>1, <2>2 DEF DeliveredUpTo
<1>6. CASE ~ e.discarded /\ Len(e.text) + 1 <= MaxText /\ x = f
  <2>1. /\ IsDelivery(f) /\ f.text = Append(e.text, piece)
        /\ f.deferred = e.deferred /\ f.failed = e.failed /\ f.semantic = e.semantic
        /\ f.discarded = e.discarded
        /\ IF e.deferred THEN f.heard = e.heard
           ELSE \E v \in Event : /\ v.type = "TEXT_DELTA" /\ v.text = <<piece>>
                                 /\ f.heard = Append(e.heard, v)
        /\ Concatenates(e) => Concatenates(f)
    BY <1>1, <1>6, PieceIsAccumulated
  <2>. HIDE DEF f, x, h
  <2>2. f.text = d.text \o SubSeq(stream.queue, 1, k)
    <3>1. m = k - 1
      BY <1>2, <1>6
    <3>2. SubSeq(stream.queue, 1, k) = Append(SubSeq(stream.queue, 1, k - 1), piece)
      BY <1>1
    <3>. DEFINE s == SubSeq(stream.queue, 1, k - 1)
    <3>3. s \in Seq(Obs!Positions)
      BY <1>1
    <3>. HIDE DEF piece, s
    <3>4. d.text \o Append(s, piece) = Append(d.text \o s, piece)
      BY <1>1, <3>3, AppendToConcat
    <3>. QED
      BY <1>2, <2>1, <3>1, <3>2, <3>4 DEF s
  <2>3. /\ d.deferred => f.heard = d.heard
        /\ Len(d.heard) <= Len(f.heard)
        /\ \A i \in (Len(d.heard) + 1)..Len(f.heard) : f.heard[i].type = "TEXT_DELTA"
    <3>1. /\ e.deferred = d.deferred /\ (d.deferred => e.heard = d.heard)
          /\ Len(d.heard) <= Len(e.heard)
          /\ \A i \in (Len(d.heard) + 1)..Len(e.heard) : e.heard[i].type = "TEXT_DELTA"
      BY DEF DeliveredUpTo
    <3>2. CASE e.deferred
      BY <2>1, <3>1, <3>2
    <3>3. CASE ~ e.deferred
      <4>1. PICK v \in Event : v.type = "TEXT_DELTA" /\ f.heard = Append(e.heard, v)
        BY <2>1, <3>3
      <4>2. /\ Len(e.heard) \in Nat /\ Len(f.heard) = Len(e.heard) + 1
            /\ f.heard[Len(e.heard) + 1] = v
            /\ \A i \in 1..Len(e.heard) : f.heard[i] = e.heard[i]
        BY <1>1, <4>1, AppendedElement
      <4>3. Len(d.heard) \in Nat
        BY <1>1
      <4>4. \A i \in (Len(d.heard) + 1)..Len(f.heard) :
              \/ i \in (Len(d.heard) + 1)..Len(e.heard) /\ i \in 1..Len(e.heard)
              \/ i = Len(e.heard) + 1
        BY <4>2, <4>3
      <4>. QED
        BY <3>1, <3>3, <4>1, <4>2, <4>3, <4>4
    <3>. QED
      BY <3>2, <3>3
  <2>4. k \in 0..k
    BY <1>1
  <2>5. DeliveredUpTo(d, f, k)
    BY <1>1, <1>6, <2>1, <2>2, <2>3, <2>4 DEF DeliveredUpTo
  <2>. QED
    BY <1>6, <2>5
<1>7. \/ e.discarded /\ x = e
      \/ x = Stop(e)
      \/ ~ e.discarded /\ Len(e.text) + 1 <= MaxText /\ x = f
  <2>1. Len(e.text) \in Nat /\ MaxText \in Nat
    BY <1>1, MaxTextAssumption DEF IsDelivery, DeliveryRecord
  <2>2. Len(e.text) + 1 > MaxText \/ Len(e.text) + 1 <= MaxText
    BY <2>1
  <2>. QED
    BY <2>2 DEF DeliverEvent
<1>. QED
  BY <1>4, <1>5, <1>6, <1>7

LEMMA DeliverTextDelivers ==
  ASSUME NEW d, IsDelivery(d), stream.queue \in Seq(Obs!Positions), NEW reply
  PROVE  Delivered(d, DeliverText(d, reply))
<1>. DEFINE n == Len(stream.queue)
<1>1. PICK F : /\ F[0] = d
               /\ \A k \in 1..n : F[k] = DeliverEvent(F[k - 1], stream.queue[k], reply)
               /\ DeliverText(d, reply) = F[n]
  BY DeliverTextRuns
<1>2. n \in Nat /\ d.text \in Seq(Obs!Positions) /\ d.heard \in Seq(Event)
  BY DEF IsDelivery, DeliveryRecord
<1>. DEFINE T == {k \in Nat : k <= n => DeliveredUpTo(d, F[k], k)}
<1>3. 0 \in T
  <2>1. d.text = d.text \o SubSeq(stream.queue, 1, 0) /\ 0 \in 0..0
    BY <1>2
  <2>2. Len(d.heard) <= Len(d.heard) /\ \A i \in (Len(d.heard) + 1)..Len(d.heard) : FALSE
    BY <1>2
  <2>3. DeliveredUpTo(d, d, 0)
    BY <2>1, <2>2 DEF DeliveredUpTo
  <2>. QED
    BY <1>1, <2>3
<1>4. ASSUME NEW k \in Nat, k \in T PROVE k + 1 \in T
  <2>. SUFFICES ASSUME k + 1 <= n PROVE DeliveredUpTo(d, F[k + 1], k + 1)
    OBVIOUS
  <2>1. k + 1 \in 1..n /\ (k + 1) - 1 = k /\ DeliveredUpTo(d, F[k], k)
    BY <1>2, <1>4
  <2>. HIDE DEF n
  <2>2. F[k + 1] = DeliverEvent(F[k], stream.queue[k + 1], reply)
    BY <1>1, <2>1
  <2>. QED
    BY <2>1, <2>2, EventIsDelivered DEF n
<1>. HIDE DEF T
<1>5. n \in T
  BY <1>2, <1>3, <1>4, NatInductionOnSets
<1>6. DeliveredUpTo(d, F[n], n)
  BY <1>2, <1>5 DEF T
<1>. QED
  BY <1>1, <1>6 DEF Delivered

LEMMA UpdateDelivers ==
  ASSUME NEW d, IsDelivery(d), stream.queue \in Seq(Obs!Positions), NEW reply
  PROVE  /\ Delivered(d, UpdateDelivery(d, aborted, reply))
         /\ aborted => UpdateDelivery(d, aborted, reply).heard = d.heard
<1>. DEFINE t == DeliverText(d, reply)
            s == [t EXCEPT !.semantic = TRUE]
            c == [d EXCEPT !.discarded = TRUE]
<1>1. Delivered(d, t)
  BY DeliverTextDelivers
<1>. HIDE DEF t
<1>2. /\ IsDelivery(s) /\ s.text = t.text /\ s.heard = t.heard /\ s.deferred = t.deferred
      /\ s.failed = t.failed /\ s.discarded = t.discarded
  BY <1>1 DEF Delivered, DeliveredUpTo, IsDelivery, DeliveryRecord
<1>3. /\ IsDelivery(c) /\ c.text = d.text /\ c.heard = d.heard /\ c.deferred = d.deferred
      /\ c.failed = d.failed /\ c.semantic = d.semantic /\ c.discarded
  BY DEF IsDelivery, DeliveryRecord
<1>4. UpdateDelivery(d, aborted, reply) =
        IF aborted THEN c
        ELSE IF stream.lifecycle = "COMPLETED" THEN s
        ELSE IF stream.lifecycle = "FAILED" /\ ~ t.failed THEN Stop(t)
        ELSE t
  BY DEF UpdateDelivery, t
<1>. HIDE DEF s, c
<1>5. stream.lifecycle = "COMPLETED" => Delivered(d, s)
  BY <1>1, <1>2 DEF Delivered, DeliveredUpTo, Concatenates
<1>6. aborted => Delivered(d, c)
  <2>1. /\ Len(stream.queue) \in Nat /\ 0 \in 0..Len(stream.queue)
        /\ d.text = d.text \o SubSeq(stream.queue, 1, 0)
        /\ Len(d.heard) <= Len(d.heard) /\ \A i \in (Len(d.heard) + 1)..Len(d.heard) : FALSE
    BY DEF IsDelivery, DeliveryRecord
  <2>. QED
    BY <1>3, <2>1 DEF Delivered, DeliveredUpTo, Concatenates
<1>. QED
  BY <1>1, <1>3, <1>4, <1>5, <1>6, StoppedIsDelivered

(* The deadline of the response tells the listener nothing. *)
LEMMA DeadlineDelivers ==
  ASSUME NEW d, NEW u, Delivered(d, u), NEW cancelled, NEW now
  PROVE  /\ Delivered(d, ApplyResponseDeadline(u, cancelled, now))
         /\ ApplyResponseDeadline(u, cancelled, now).heard = u.heard
<1>1. Stop(u).heard = u.heard
  BY StopIs DEF Delivered, DeliveredUpTo
<1>. QED
  BY <1>1, StoppedIsDelivered DEF ApplyResponseDeadline

(* No more follows the event at which the caller left than may. *)
StaysSilent(d) ==
  \A i, j \in Taken(d) : i < j /\ d.heard[i].left => MayFollow(d.heard[i], d.heard[j])

(* What a turn may have told its caller when it gives up. *)
Told(d) ==
  /\ IsDelivery(d)
  /\ StaysSilent(d)
  /\ \A i \in 1..Len(d.heard) : d.heard[i].type # "COMPLETED"
  /\ aborted => d.heard = delivery.heard
  /\ sent = {} => d.heard = delivery.heard
  /\ LastHeard(d.heard) \in {LastHeard(delivery.heard), "text", "whole"}

LEMMA TypedQueue ==
  ASSUME Writes!ResponseInv
  PROVE  stream.queue \in Seq(Obs!Positions)
BY DEF Writes!ResponseInv, Writes!ResponseTyped, Writes!TypedStream, Writes!StreamRecord,
       Writes!Positions, Obs!Positions

LEMMA DeliveredIsTold ==
  ASSUME pc \in Awaiting, Writes!ResponseInv, DeliveryInv, StreamInv, NEW d, Delivered(delivery, d),
         aborted => d.heard = delivery.heard
  PROVE  Told(d)
<1>1. IsDelivery(delivery) /\ Concatenates(delivery) /\ delivery.deferred = (kind = "PROJECT")
  BY DEF DeliveryInv, Awaiting
<1>2. IsDelivery(d) /\ Concatenates(d)
  BY <1>1 DEF Delivered, DeliveredUpTo
<1>3. LastHeard(d.heard) \in {LastHeard(delivery.heard), "text"}
  <2>1. CASE d.heard = delivery.heard
    BY <2>1
  <2>2. CASE d.heard # delivery.heard
    <3>1. d.heard # <<>>
      <4>1. /\ delivery.heard \in Seq(Event) /\ Len(delivery.heard) <= Len(d.heard)
            /\ d.heard \in Seq(Event)
        BY <1>1, <1>2 DEF Delivered, DeliveredUpTo, IsDelivery, DeliveryRecord
      <4>2. d.heard = <<>> => delivery.heard = <<>>
        BY <4>1
      <4>. QED
        BY <2>2, <4>2
    <3>2. LastHeard(d.heard) # "nothing"
      BY <3>1 DEF LastHeard
    <3>. QED
      BY <1>2, <3>2, ConcatenationIsText
  <2>. QED
    BY <2>1, <2>2
<1>4. sent = {} => d.heard = delivery.heard
  <2>1. stream.queue = <<>> => Len(stream.queue) = 0
    OBVIOUS
  <2>. QED
    BY <2>1 DEF Delivered, DeliveredUpTo, StreamInv, StreamIdle
<1>5. StaysSilent(d)
  <2>1. \A j \in Taken(d) : d.heard[j].type = "TEXT_DELTA" /\ kind # "PROJECT"
    <3>1. kind = "PROJECT" => Taken(d) = {}
      <4>1. Len(delivery.heard) \in Nat /\ (kind = "PROJECT" => d.heard = delivery.heard)
        BY <1>1 DEF Delivered, DeliveredUpTo, IsDelivery, DeliveryRecord
      <4>. QED
        BY <4>1 DEF Taken
    <3>. QED
      BY <3>1 DEF Taken, Delivered, DeliveredUpTo
  <2>. QED
    BY <2>1 DEF StaysSilent, MayFollow
<1>. QED
  BY <1>2, <1>3, <1>4, <1>5 DEF Told, Concatenates

LEMMA NothingIsTold ==
  ASSUME DeliveryInv, pc # "done"
  PROVE  Told(delivery)
<1>1. Len(delivery.heard) \in Nat
  BY DEF DeliveryInv, IsDelivery, DeliveryRecord
<1>2. StaysSilent(delivery)
  BY <1>1 DEF StaysSilent, Taken
<1>. QED
  BY <1>2 DEF Told, DeliveryInv, Concatenates

(* The event e may still come after what has been heard in the step. *)
MayBeNext(d, e) == \A i \in Taken(d) : d.heard[i].left => MayFollow(d.heard[i], e)

(* In d2 nothing has been heard in the step but what has in d, and e. *)
OneMore(d, e, d2) ==
  \A i \in Taken(d2) : (i \in Taken(d) /\ d2.heard[i] = d.heard[i]) \/ d2.heard[i] = e

(* One more event is heard in the step. *)
LEMMA OneMoreFollows ==
  ASSUME IsDelivery(delivery), NEW d, IsDelivery(d), StaysSilent(d), NEW e \in Event,
         NEW h, h.heard = Append(d.heard, e),
         MayBeNext(d, e)
  PROVE  StaysSilent(h) /\ OneMore(d, e, h)
<1>. DEFINE n == Len(d.heard)
            c == Len(delivery.heard)
<1>1. d.heard \in Seq(Event) /\ n \in Nat /\ c \in Nat
  BY DEF IsDelivery, DeliveryRecord
<1>2. /\ Len(h.heard) = n + 1 /\ h.heard[n + 1] = e
      /\ \A i \in 1..n : h.heard[i] = d.heard[i]
  BY <1>1, AppendedElement
<1>3. Taken(d) = (c + 1)..n /\ Taken(h) = (c + 1)..(n + 1)
  BY <1>2 DEF Taken
<1>. HIDE DEF n, c
<1>4. \A i \in Taken(h) : \/ i \in Taken(d) /\ i \in 1..n /\ h.heard[i] = d.heard[i]
                          \/ i = n + 1
  BY <1>1, <1>2, <1>3
<1>5. ASSUME NEW i \in Taken(h), NEW j \in Taken(h), i < j, h.heard[i].left
      PROVE  MayFollow(h.heard[i], h.heard[j])
  <2>1. i \in Taken(d) /\ h.heard[i] = d.heard[i]
    <3>1. i \in (c + 1)..(n + 1) /\ j \in (c + 1)..(n + 1)
      BY <1>3, <1>5
    <3>2. i # n + 1
      BY <1>1, <1>5, <3>1
    <3>. QED
      BY <1>4, <3>2
  <2>2. CASE j \in Taken(d) /\ h.heard[j] = d.heard[j]
    BY <1>5, <2>1, <2>2 DEF StaysSilent
  <2>3. CASE j = n + 1
    BY <1>2, <1>5, <2>1, <2>3 DEF MayBeNext
  <2>. QED
    BY <1>4, <2>2, <2>3
<1>. QED
  BY <1>2, <1>4, <1>5 DEF StaysSilent, OneMore

(* The caller has heard the text t, all of it again, and that it is complete. *)
HeardWhole(d) ==
  LET n == Len(d.heard)
      h == d.heard
  IN /\ FlattenSeq([i \in 1..(n - 2) |-> h[i].text]) = d.text
     /\ d.text # <<>>
     /\ \A i \in 1..(n - 2) : h[i].type = "TEXT_DELTA"
     /\ h[n - 1].type = "FINAL_TEXT" /\ h[n - 1].text = d.text
     /\ h[n].type = "COMPLETED"
     /\ LastHeard(h) = "completed"

LEMMA TextThenTheEnd ==
  ASSUME NEW d, IsDelivery(d), NEW told, IsDelivery(told), told.text = d.text, d.text # <<>>,
         \A i \in 1..Len(told.heard) : told.heard[i].type = "TEXT_DELTA",
         FlattenSeq(Texts(told.heard)) = d.text, NEW e1 \in Event, NEW e2 \in Event, NEW f,
         f.text = d.text, f.heard = Append(Append(told.heard, e1), e2),
         e1.type = "FINAL_TEXT", e1.text = d.text, e2.type = "COMPLETED"
  PROVE  HeardWhole(f)
<1>. DEFINE h == told.heard
            n == Len(h)
            g == Append(h, e1)
<1>1. h \in Seq(Event)
  BY DEF IsDelivery, DeliveryRecord
<1>2. /\ n \in Nat /\ Len(g) = n + 1 /\ g[n + 1] = e1 /\ g \in Seq(Event)
      /\ \A i \in 1..n : g[i] = h[i]
  BY <1>1
<1>3. [i \in 1..n |-> h[i].text] = Texts(h)
  BY DEF Texts
<1>4. f.heard = Append(g, e2)
  OBVIOUS
<1>. HIDE DEF g, n
<1>5. /\ Len(f.heard) = n + 2 /\ f.heard[n + 1] = e1 /\ f.heard[n + 2] = e2
      /\ \A i \in 1..n : f.heard[i] = h[i]
      /\ f.heard # <<>> /\ Last(f.heard) = e2
  BY <1>2, <1>4 DEF Last
<1>6. LastHeard(f.heard) = "completed"
  BY <1>5, LastIsHeard
<1>7. (n + 2) - 2 = n /\ (n + 2) - 1 = n + 1
  BY <1>2
<1>8. [i \in 1..n |-> f.heard[i].text] = Texts(h)
  BY <1>3, <1>5
<1>9. \A i \in 1..n : f.heard[i].type = "TEXT_DELTA"
  BY <1>5 DEF n
<1>. QED
  BY <1>5, <1>6, <1>7, <1>8, <1>9 DEF HeardWhole

(* The end of the response: it is completed, or the turn fails.  At the end *)
(* of a Project turn the caller must still be there.                        *)
LEMMA FinishIsTold ==
  ASSUME IsDelivery(delivery), NEW d, IsDelivery(d), Concatenates(d), Told(d), ~ Gone(d),
         d.deferred = (kind = "PROJECT"), sent # {}, NEW reply
  PROVE  LET t == FinishText(d, reply)
             f == FinalizeResponseDelivery(d, reply)
         IN /\ Told(t)
            /\ (kind = "PROJECT" => t.failed \/ ~ Gone(t)) =>
                 IF f.failed THEN Told(f)
                 ELSE ~ d.failed /\ IsDelivery(f) /\ f.text = d.text /\ HeardWhole(f)
                      /\ StaysSilent(f)
<1>. DEFINE told  == IF d.deferred THEN Hear(d, "TEXT_DELTA", d.text, reply) ELSE d
            whole == Hear(told, "FINAL_TEXT", d.text, reply)
            t     == FinishText(d, reply)
            f     == FinalizeResponseDelivery(d, reply)
            Stays == kind = "PROJECT" => t.failed \/ ~ Gone(t)
<1>. SUFFICES Told(t) /\ (Stays => IF f.failed THEN Told(f)
                                   ELSE /\ ~ d.failed /\ IsDelivery(f) /\ f.text = d.text
                                        /\ HeardWhole(f) /\ StaysSilent(f))
  OBVIOUS
<1>1. ASSUME NEW e, IsDelivery(e)
      PROVE  LET x == [e EXCEPT !.failed = TRUE]
             IN IsDelivery(x) /\ x.failed /\ x.heard = e.heard /\ (StaysSilent(e) => StaysSilent(x))
  BY <1>1 DEF IsDelivery, DeliveryRecord, StaysSilent, Taken
<1>2. /\ EventTypes = {"TEXT_DELTA", "FINAL_TEXT", "COMPLETED"}
      /\ d.text \in Seq(Obs!Positions) /\ d.heard \in Seq(Event) /\ <<>> \in Seq(Event)
      /\ <<>> \in Seq(Obs!Positions)
  BY DEF EventTypes, IsDelivery, DeliveryRecord
<1>3. /\ ~ aborted /\ StaysSilent(d) /\ IsDelivery(delivery)
      /\ \A i \in Taken(d) : ~ d.heard[i].left
  BY DEF Gone, Told
<1>4. /\ IsDelivery(told) /\ told.text = d.text /\ told.failed = d.failed
      /\ \A i \in 1..Len(told.heard) : told.heard[i].type = "TEXT_DELTA"
      /\ FlattenSeq(Texts(told.heard)) = d.text
      /\ LastHeard(told.heard) \in {LastHeard(d.heard), "text"}
      /\ StaysSilent(told)
      /\ kind # "PROJECT" => \A i \in Taken(told) : ~ told.heard[i].left
  <2>1. CASE ~ d.deferred
    BY <1>3, <2>1 DEF Concatenates
  <2>2. CASE d.deferred
    <3>1. PICK v \in Event :
               /\ v.type = "TEXT_DELTA" /\ v.text = d.text
               /\ IsDelivery(told) /\ told.heard = Append(d.heard, v)
               /\ told.failed = d.failed /\ told.text = d.text
               /\ told.heard # <<>> /\ Last(told.heard) = v
      BY <1>2, <2>2, HearIsHeard
    <3>2. FlattenSeq(Texts(<<>>)) = <<>>
      BY FlattenNothing DEF Texts
    <3>3. <<>> \o d.text = d.text /\ d.heard = <<>>
      BY <1>2, <2>2 DEF Concatenates
    <3>. HIDE DEF told
    <3>4. FlattenSeq(Texts(told.heard)) = d.text
      BY <1>2, <3>1, <3>2, <3>3, TextsAppend
    <3>5. told.heard = <<v>>
      BY <3>1, <3>3
    <3>6. LastHeard(told.heard) = "text"
      BY <3>1, LastIsHeard
    <3>7. StaysSilent(told)
      <4>1. MayBeNext(d, v)
        BY <1>3 DEF MayBeNext
      <4>. QED
        BY <1>3, <3>1, <4>1, OneMoreFollows
    <3>8. \A i \in 1..Len(told.heard) : told.heard[i].type = "TEXT_DELTA"
      <4>1. \A i \in 1..Len(<<v>>) : <<v>>[i] = v
        OBVIOUS
      <4>. QED
        BY <3>1, <3>5, <4>1
    <3>9. kind = "PROJECT"
      BY <2>2
    <3>. QED
      BY <3>1, <3>4, <3>6, <3>7, <3>8, <3>9
  <2>. QED
    BY <2>1, <2>2
<1>5. PICK e1 \in Event :
           /\ e1.type = "FINAL_TEXT" /\ e1.text = d.text
           /\ IsDelivery(whole) /\ whole.heard = Append(told.heard, e1)
           /\ whole.failed = told.failed /\ whole.text = told.text
           /\ whole.heard # <<>> /\ Last(whole.heard) = e1
  <2>. HIDE DEF told
  <2>. QED
    BY <1>2, <1>4, HearIsHeard
<1>. HIDE DEF told
<1>6. /\ StaysSilent(whole)
      /\ kind # "PROJECT" => \A i \in Taken(whole) : whole.heard[i].left =>
                                whole.heard[i].type = "FINAL_TEXT"
  <2>. HIDE DEF whole
  <2>1. MayBeNext(told, e1)
    BY <1>4, <1>5 DEF MayFollow, MayBeNext
  <2>2. IsDelivery(told) /\ StaysSilent(told) /\ whole.heard = Append(told.heard, e1)
    BY <1>4, <1>5
  <2>3. StaysSilent(whole) /\ OneMore(told, e1, whole)
    BY <2>1, <2>2, OneMoreFollows
  <2>. QED
    BY <1>4, <1>5, <2>3 DEF OneMore
<1>7. /\ \A i \in 1..Len(whole.heard) : whole.heard[i].type # "COMPLETED"
      /\ LastHeard(whole.heard) = "whole"
  <2>. DEFINE h == told.heard
  <2>1. h \in Seq(Event) /\ whole.heard = Append(h, e1)
    BY <1>4, <1>5 DEF IsDelivery, DeliveryRecord
  <2>. HIDE DEF whole
  <2>2. LastHeard(whole.heard) = "whole"
    BY <1>5, LastIsHeard
  <2>3. /\ Len(whole.heard) = Len(h) + 1 /\ whole.heard[Len(h) + 1] = e1
        /\ \A i \in 1..Len(h) : whole.heard[i] = h[i]
        /\ \A i \in 1..Len(whole.heard) : i \in 1..Len(h) \/ i = Len(h) + 1
    BY <2>1, AppendedElement
  <2>. QED
    BY <1>4, <1>5, <2>2, <2>3
<1>. HIDE DEF whole
<1>8. Told(whole) /\ Told(told) /\ Told([d EXCEPT !.failed = TRUE]) /\ Told([told EXCEPT !.failed = TRUE])
  <2>1. Told(whole)
    BY <1>3, <1>5, <1>6, <1>7 DEF Told
  <2>2. Told(told)
    BY <1>3, <1>4 DEF Told
  <2>. QED
    BY <1>1, <1>4, <2>1, <2>2 DEF Told
<1>9. \/ t.failed /\ Told(t)
      \/ t = whole /\ d.text # <<>>
  <2>1. \/ t = [d EXCEPT !.failed = TRUE]
        \/ t = [told EXCEPT !.failed = TRUE]
        \/ t = whole /\ d.text # <<>>
    BY DEF FinishText, told, whole
  <2>. HIDE DEF t
  <2>. QED
    BY <1>1, <1>4, <1>8, <2>1
<1>10. CASE t.failed
  <2>1. f = t
    BY <1>10 DEF FinalizeResponseDelivery, t
  <2>. HIDE DEF t, f
  <2>2. Told(t)
    BY <1>8, <1>9
  <2>. QED
    BY <1>10, <2>1, <2>2
<1>11. CASE ~ t.failed
  <2>1. \/ f = [t EXCEPT !.failed = TRUE]
        \/ f = Hear(t, "COMPLETED", <<>>, reply)
    BY <1>11 DEF FinalizeResponseDelivery, t
  <2>. HIDE DEF t
  <2>2. t = whole /\ d.text # <<>> /\ Told(t) /\ ~ d.failed /\ IsDelivery(t)
    BY <1>4, <1>5, <1>8, <1>9, <1>11
  <2>3. CASE f = [t EXCEPT !.failed = TRUE]
    <3>. HIDE DEF f
    <3>1. IsDelivery(f) /\ f.failed /\ f.heard = t.heard /\ StaysSilent(f)
      BY <1>1, <2>2, <2>3 DEF Told
    <3>. QED
      BY <2>2, <3>1 DEF Told
  <2>4. CASE f = Hear(t, "COMPLETED", <<>>, reply)
    <3>. DEFINE none == <<>>
                g    == Hear(t, "COMPLETED", none, reply)
    <3>0. f = g
      BY <2>4
    <3>. HIDE DEF none
    <3>1. none \in Seq(Obs!Positions)
      BY <1>2 DEF none
    <3>2. PICK e2 \in Event :
               /\ e2.type = "COMPLETED"
               /\ IsDelivery(g) /\ g.heard = Append(t.heard, e2)
               /\ g.failed = t.failed /\ g.text = t.text
      BY <1>2, <2>2, <3>1, HearIsHeard
    <3>. HIDE DEF f, g
    <3>3. HeardWhole(f)
      <4>1. f.text = d.text /\ f.heard = Append(Append(told.heard, e1), e2)
        BY <1>4, <1>5, <2>2, <3>0, <3>2
      <4>. QED
        BY <1>4, <1>5, <2>2, <3>2, <4>1, TextThenTheEnd
    <3>4. ASSUME Stays PROVE StaysSilent(f)
      <4>1. MayBeNext(t, e2)
        <5>1. CASE kind = "PROJECT"
          BY <1>11, <3>4, <5>1 DEF Gone, MayBeNext
        <5>2. CASE kind # "PROJECT"
          BY <1>6, <2>2, <5>2 DEF MayFollow, MayBeNext
        <5>. QED
          BY <5>1, <5>2
      <4>. QED
        BY <1>3, <2>2, <3>0, <3>2, <4>1, OneMoreFollows DEF Told
    <3>. QED
      BY <1>4, <1>5, <1>11, <2>2, <3>0, <3>2, <3>3, <3>4
  <2>. QED
    BY <2>1, <2>3, <2>4
<1>. QED
  BY <1>10, <1>11

(* The text t is all the text of the one response there was. *)
ResponseRead(t) ==
  \E r \in Requests : \E i \in DOMAIN body[r] :
    /\ sent = {r}
    /\ body[r][i] \in {"done", "half"}
    /\ Obs!ListsTexts(t, body[r], i)

(* What was concluded from the stream is so of the text that was read. *)
Faithful(d) ==
  /\ Concatenates(d)
  /\ d.deferred = (kind = "PROJECT")
  /\ d.semantic /\ ~ d.failed /\ ~ aborted => ResponseRead(d.text)

LEMMA DeliveredText ==
  ASSUME IsDelivery(delivery), stream.queue \in Seq(Obs!Positions), NEW d, Delivered(delivery, d)
  PROVE  \E p, q \in Seq(Obs!Positions) :
           /\ stream.queue = p \o q /\ d.text = delivery.text \o p
           /\ d.discarded \/ (p = stream.queue /\ q = <<>>)
<1>. DEFINE n == Len(stream.queue)
<1>1. PICK m \in 0..n : /\ d.text = delivery.text \o SubSeq(stream.queue, 1, m)
                        /\ d.discarded \/ m = n
  BY DEF Delivered, DeliveredUpTo
<1>. DEFINE p == SubSeq(stream.queue, 1, m)
            q == SubSeq(stream.queue, m + 1, n)
<1>2. n \in Nat /\ m \in Nat /\ m <= n
  OBVIOUS
<1>3. p \in Seq(Obs!Positions) /\ q \in Seq(Obs!Positions)
  BY <1>2
<1>4. stream.queue = p \o q
  <2>1. 1 \in 1..(n + 1) /\ m \in (1 - 1)..n /\ n \in m..n
    BY <1>2
  <2>. QED
    BY <2>1, ConcatAdjacentSubSeq, SubSeqFull
<1>5. m = n => p = stream.queue /\ q = <<>>
  BY <1>2
<1>. HIDE DEF p, q
<1>. QED
  BY <1>1, <1>3, <1>4, <1>5 DEF p

LEMMA DeliveredIsFaithful ==
  ASSUME Writes!WriteInv, Writes!ResponseInv, DeliveryInv, ReadInv, pc \in Awaiting, write.armed,
         Readable, NEW d, Delivered(delivery, d)
  PROVE  Faithful(d)
<1>. USE ObservationAssumption DEF Writes!AllRecords
<1>1. /\ IsDelivery(delivery) /\ Concatenates(delivery) /\ stream.queue \in Seq(Obs!Positions)
      /\ delivery.deferred = (kind = "PROJECT")
  BY TypedQueue DEF DeliveryInv, Awaiting
<1>2. Concatenates(d) /\ d.deferred = (kind = "PROJECT")
  BY <1>1 DEF Delivered, DeliveredUpTo
<1>3. ASSUME d.semantic, ~ d.failed, ~ aborted PROVE ResponseRead(d.text)
  <2>1. /\ Writes!Readable
        /\ stream.lifecycle = "COMPLETED"
    BY <1>3 DEF Delivered, DeliveredUpTo, ReadInv, Readable, Writes!Readable
  <2>2. stream.call # "none"
    BY <2>1, Writes!ReadableStream DEF Writes!Sound, Writes!Reads
  <2>3. write.request \in Requests /\ sent = {write.request}
    <3>1. write.request \in Requests /\ write.request # None
      BY <2>2, Writes!CalledStream
    <3>. QED
      BY <2>1, <3>1 DEF Writes!WriteInv, Writes!SelectedIsTrue, Writes!Readable
  <2>4. ~ d.discarded /\ ~ Writes!Discarded(stream)
    BY <1>3 DEF Delivered, DeliveredUpTo, ReadInv, Readable
  <2>5. d.text = delivery.text \o stream.queue
    BY <1>1, <2>4, DeliveredText
  <2>6. PICK i \in DOMAIN body[write.request] :
          /\ body[write.request][i] \in {"done", "half"}
          /\ Writes!ListsTexts(delivery.text \o stream.queue, body[write.request], i)
               \/ stream.activation = "none"
    BY <2>1, Writes!ResponseIsWhole DEF Writes!CompletedIsWhole
  <2>7. Writes!ListsTexts(d.text, body[write.request], i)
    BY <2>1, <2>4, <2>5, <2>6 DEF Writes!Discarded
  <2>. QED
    BY <2>3, <2>6, <2>7 DEF ResponseRead, Obs!ListsTexts, Writes!ListsTexts
<1>. QED
  BY <1>2, <1>3 DEF Faithful

-----------------------------------------------------------------------------
(* The two ways a step of the turn can end.                                 *)

Quiet == ~ WriteInFlight

Errors == Outcomes \ (Success \cup {"pending", "changed", "uncertain"})

(* The turn settles: marked, or replaced, or with its write at an end.  A   *)
(* thread that is cancelled is the exception.                               *)
Fails ==
  /\ Told(delivery')
  /\ UNCHANGED reserved
  /\ \/ marked' = TRUE /\ outcome' = "uncertain"
     \/ UNCHANGED marked /\ control = "changed" /\ outcome' = "changed"
     \/ UNCHANGED marked /\ kind # "PROJECT" /\ Quiet /\ outcome' \in Errors
     \/ UNCHANGED marked /\ kind = "THREAD" /\ outcome' = "aborted"

Succeeds ==
  /\ ~ aborted
  /\ Quiet
  /\ sent # {}
  /\ StaysSilent(delivery')
  /\ IsDelivery(delivery') /\ HeardWhole(delivery') /\ ResponseRead(delivery'.text)
  /\ outcome' \in Success
  /\ UNCHANGED marked
  /\ IF kind = "PROJECT" THEN outcome' = "created" /\ reserved' = {locator} /\ locator \notin known
                         ELSE UNCHANGED reserved

Ends ==
  /\ pc' = "done"
  /\ write' = Obs!NoWrite /\ stream' = Obs!NewStream
  /\ UNCHANGED <<net, body, sent, kind, control, aborted>>
  /\ Fails \/ Succeeds

(* It goes on to another await, with what that await takes for granted. *)
GoesOn ==
  /\ pc' \in Awaiting
  /\ UNCHANGED <<net, body, sent, write, kind, outcome, marked, reserved>>
  /\ aborted => aborted'
  /\ \/ UNCHANGED <<delivery, stream>>
     \/ /\ Readable
        /\ Delivered(delivery, delivery')
        /\ aborted => delivery'.heard = delivery.heard
        /\ stream' = IF delivery'.discarded THEN Obs!Discard(stream) ELSE Obs!Drain(stream)
  /\ pc' = "locating" => write.lifecycle # "NONE"
  /\ pc' = "revalidating" => write.lifecycle = "FINISHED"

LEMMA FailClosedEnds ==
  ASSUME NEW d, FailClosed(d), Told(d)
  PROVE  Ends
BY DEF FailClosed, Settle, registryVars, Ends, Fails, Told

(* An error that the turn does not mark. *)
LEMMA ThrowFails ==
  ASSUME NEW o, NEW d, Throw(o, d), Told(d),
         \/ control = "changed" /\ o = "changed"
         \/ kind # "PROJECT" /\ Quiet /\ o \in Errors
         \/ kind = "THREAD" /\ o = "aborted"
  PROVE  Ends
BY DEF Throw, Settle, registryVars, Ends, Fails, Told

LEMMA ThrowEnds ==
  ASSUME NEW o \in Errors, NEW d, ThrowOrFailClosed(o, d) \/ (kind # "PROJECT" /\ Throw(o, d)),
         Quiet, Told(d)
  PROVE  Ends
BY ThrowFails, FailClosedEnds DEF ThrowOrFailClosed

LEMMA SuccessEnds ==
  ASSUME NEW o \in Success, NEW d, Settle(o, d), ~ aborted, Quiet, sent # {},
         IsDelivery(d), HeardWhole(d), StaysSilent(d), ResponseRead(d.text), UNCHANGED marked,
         IF kind = "PROJECT" THEN o = "created" /\ reserved' = {locator} /\ locator \notin known
                             ELSE UNCHANGED reserved
  PROVE  Ends
BY DEF Settle, Ends, Succeeds

LEMMA UnreadableEnds ==
  ASSUME DeliveryInv, pc # "done", Unreadable(delivery)
  PROVE  Ends
BY NothingIsTold, ThrowFails, FailClosedEnds DEF Unreadable

(* What a readable observation tells the turn. *)
LEMMA ReadableIsTrue ==
  ASSUME Writes!WriteInv, write.armed, Readable
  PROVE  /\ write.lifecycle \in {"NONE", "ACTIVE", "FINISHED", "FAILED"}
         /\ write.lifecycle # "ACTIVE" => Quiet
         /\ write.lifecycle # "NONE" => sent # {}
<1>1. CASE write.request = None
  <2>1. sent = {} /\ write.lifecycle = "NONE"
    BY <1>1 DEF Writes!WriteInv, Writes!UnselectedIsFresh
  <2>. QED
    BY <2>1 DEF Quiet, WriteInFlight
<1>2. CASE write.request # None
  <2>1. /\ sent = {write.request}
        /\ write.lifecycle \in {"ACTIVE", "FINISHED", "FAILED"}
        /\ write.lifecycle # "ACTIVE" => net[write.request].phase \in {"loaded", "failed"}
    BY <1>2 DEF Writes!WriteInv, Writes!SelectedIsTrue, Readable
  <2>. QED
    BY <2>1 DEF Quiet, WriteInFlight, Obs!InFlight
<1>. QED
  BY <1>1, <1>2

-----------------------------------------------------------------------------
(* Each step of the turn ends it or goes on.                                *)

LEMMA InputErrors ==
  /\ {"aborted", "inputFailed", "writeFailed", "responseFailed", "notCreated"} \subseteq Errors
  /\ {"existing", "created"} \subseteq Success
BY DEF Errors, Outcomes, Success

LEMMA PreSubmitWriteEnds ==
  ASSUME Writes!WriteInv, DeliveryInv, pc # "done", write.armed, PreSubmitWrite
  PROVE  Ends
<1>1. CASE FailClosed(delivery)
  BY <1>1, NothingIsTold, FailClosedEnds
<1>2. CASE kind # "PROJECT" /\ write.lifecycle # "ACTIVE" /\ Throw("inputFailed", delivery)
  BY <1>2, NothingIsTold, InputErrors, ThrowEnds, ReadableIsTrue DEF PreSubmitWrite
<1>. QED
  BY <1>1, <1>2 DEF PreSubmitWrite

LEMMA InsertStep ==
  ASSUME Writes!WriteInv, SeenInv, DeliveryInv, Insert
  PROVE  Ends \/ GoesOn
<1>1. pc = "inserting" /\ write.armed
  BY DEF Insert, SeenInv, Awaiting
<1>2. CASE Unreadable(delivery) \/ PreSubmitWrite
  BY <1>1, <1>2, UnreadableEnds, PreSubmitWriteEnds
<1>3. CASE Readable /\ write.lifecycle = "NONE" /\ ThrowOrFailClosed("aborted", delivery)
  BY <1>1, <1>3, ReadableIsTrue, NothingIsTold, InputErrors, ThrowEnds
<1>4. CASE /\ pc' = "sending"
           /\ UNCHANGED <<observationVars, kind, aborted, delivery, registryVars, marked, outcome>>
  BY <1>1, <1>4 DEF GoesOn, Awaiting, observationVars, registryVars
<1>. QED
  BY <1>2, <1>3, <1>4 DEF Insert

LEMMA InsertFailsStep ==
  ASSUME Writes!WriteInv, SeenInv, DeliveryInv, InsertFails
  PROVE  Ends
<1>1. pc = "inserting" /\ write.armed
  BY DEF InsertFails, SeenInv, Awaiting
<1>2. CASE control = "changed" /\ Throw("changed", delivery)
  BY <1>1, <1>2, NothingIsTold, ThrowFails
<1>3. CASE FailClosed(delivery)
  BY <1>1, <1>3, NothingIsTold, FailClosedEnds
<1>4. CASE Unreadable(delivery) \/ PreSubmitWrite
  BY <1>1, <1>4, UnreadableEnds, PreSubmitWriteEnds
<1>5. CASE kind # "PROJECT" /\ Readable /\ write.lifecycle = "NONE" /\ Throw("inputFailed", delivery)
  BY <1>1, <1>5, ReadableIsTrue, NothingIsTold, InputErrors, ThrowEnds
<1>. QED
  BY <1>2, <1>3, <1>4, <1>5 DEF InsertFails

LEMMA SendStep ==
  ASSUME Send
  PROVE  GoesOn
<1>1. /\ pc # "done" /\ pc' \in {"releasing", "polling"}
      /\ UNCHANGED <<observationVars, kind, aborted, delivery>>
      /\ UNCHANGED <<registryVars, marked, outcome>>
  BY DEF Send
<1>. QED
  BY <1>1 DEF GoesOn, Awaiting, observationVars, registryVars

LEMMA SendFailsStep ==
  ASSUME DeliveryInv, SendFails
  PROVE  Ends
BY NothingIsTold, ThrowFails, FailClosedEnds DEF SendFails

(* A step that sleeps or reads the route. *)
LEMMA AwaitGoesOn ==
  ASSUME NEW p \in Awaiting, NEW d, Await(p, d), UNCHANGED registryVars,
         Readable, Delivered(delivery, d), aborted => d.heard = delivery.heard,
         p = "locating" => write.lifecycle # "NONE",
         p = "revalidating" => write.lifecycle = "FINISHED"
  PROVE  GoesOn
BY DEF Await, GoesOn, registryVars, Gone

LEMMA SleepGoesOn ==
  ASSUME NEW d, Sleep(d),
         Readable, Delivered(delivery, d), aborted => d.heard = delivery.heard
  PROVE  GoesOn
BY AwaitGoesOn DEF Sleep, Awaiting

-----------------------------------------------------------------------------
(* The polls.                                                               *)

LEMMA ThreadFinishedStep ==
  ASSUME NEW d, NEW reply, PollThreadFinished(d, reply),
         IsDelivery(delivery), kind = "THREAD", Quiet, sent # {}, Readable, Delivered(delivery, d),
         Told(d), Faithful(d)
  PROVE  Ends \/ GoesOn
<1>. DEFINE f == FinalizeResponseDelivery(d, reply)
<1>1. CASE Gone(d)
  BY <1>1, InputErrors, ThrowEnds DEF PollThreadFinished
<1>2. CASE ~ Gone(d)
  <2>1. /\ ~ aborted
        /\ IF f.failed THEN Told(f)
           ELSE ~ d.failed /\ IsDelivery(f) /\ f.text = d.text /\ HeardWhole(f) /\ StaysSilent(f)
    <3>1. IsDelivery(d) /\ Concatenates(d) /\ d.deferred = (kind = "PROJECT") /\ kind # "PROJECT"
      BY DEF Told, Faithful
    <3>. QED
      BY <1>2, <3>1, FinishIsTold DEF Gone
  <2>2. \/ Throw("responseFailed", d)
        \/ Sleep(d)
        \/ f.failed /\ Throw("responseFailed", f)
        \/ ~ f.failed /\ d.semantic /\ Throw("existing", f)
    BY <1>2 DEF PollThreadFinished
  <2>. HIDE DEF f
  <2>3. CASE Sleep(d)
    BY <2>1, <2>3, SleepGoesOn
  <2>4. CASE Throw("responseFailed", d)
    BY <2>4, InputErrors, ThrowEnds
  <2>5. CASE f.failed /\ Throw("responseFailed", f)
    BY <2>1, <2>5, InputErrors, ThrowEnds
  <2>6. CASE ~ f.failed /\ d.semantic /\ Throw("existing", f)
    <3>1. ResponseRead(f.text)
      BY <2>1, <2>6 DEF Faithful
    <3>. QED
      BY <2>1, <2>6, <3>1, InputErrors, SuccessEnds DEF Throw, registryVars
  <2>. QED
    BY <2>2, <2>3, <2>4, <2>5, <2>6
<1>. QED
  BY <1>1, <1>2

LEMMA NewConversationStep ==
  ASSUME NEW d, PollNewConversation(d), write.lifecycle \in {"ACTIVE", "FINISHED"},
         write.lifecycle = "FINISHED" => Quiet, Readable, Delivered(delivery, d), Told(d)
  PROVE  Ends \/ GoesOn
<1>. USE DEF Told
<1>1. CASE Await("locating", d) /\ UNCHANGED registryVars
  BY <1>1, AwaitGoesOn DEF Awaiting
<1>2. CASE Sleep(d)
  BY <1>2, SleepGoesOn
<1>3. CASE write.lifecycle = "FINISHED" /\ ThrowOrFailClosed("aborted", d)
  BY <1>3, InputErrors, ThrowEnds
<1>4. CASE write.lifecycle = "FINISHED" /\ Await("revalidating", d) /\ UNCHANGED registryVars
  BY <1>4, AwaitGoesOn DEF Awaiting
<1>. QED
  BY <1>1, <1>2, <1>3, <1>4 DEF PollNewConversation, registryVars

LEMMA WrittenStep ==
  ASSUME NEW d, NEW reply, PollWritten(d, reply),
         write.lifecycle \in {"ACTIVE", "FINISHED", "FAILED"},
         write.lifecycle # "ACTIVE" => Quiet, sent # {}, IsDelivery(delivery),
         Readable, Delivered(delivery, d), Told(d), Faithful(d)
  PROVE  Ends \/ GoesOn
<1>1. CASE FailClosed(d)
  BY <1>1, FailClosedEnds
<1>2. CASE write.lifecycle = "FAILED" /\ ThrowOrFailClosed("writeFailed", d)
  BY <1>2, InputErrors, ThrowEnds
<1>3. CASE kind = "THREAD" /\ write.lifecycle = "FINISHED" /\ PollThreadFinished(d, reply)
  BY <1>3, ThreadFinishedStep
<1>4. CASE kind = "THREAD" /\ PollThreadActive(d)
  <2>1. CASE Throw("aborted", d)
    BY <1>4, <2>1, ThrowFails
  <2>2. CASE Sleep(d)
    BY <2>2, SleepGoesOn DEF Told
  <2>. QED
    BY <1>4, <2>1, <2>2 DEF PollThreadActive
<1>5. CASE write.lifecycle # "FAILED" /\ PollNewConversation(d)
  BY <1>5, NewConversationStep
<1>. QED
  BY <1>1, <1>2, <1>3, <1>4, <1>5 DEF PollWritten

LEMMA PollStep ==
  ASSUME Writes!WriteInv, Writes!ResponseInv, SeenInv, DeliveryInv, ReadInv, StreamInv, Poll
  PROVE  Ends \/ GoesOn
<1>1. /\ pc \in Awaiting /\ pc # "done" /\ write.armed
      /\ IsDelivery(delivery) /\ stream.queue \in Seq(Obs!Positions)
  BY TypedQueue DEF Poll, SeenInv, Awaiting, DeliveryInv
<1>2. CASE Unreadable(delivery)
  BY <1>1, <1>2, UnreadableEnds
<1>3. CASE Readable /\ ~ Unreadable(delivery)
  <2>1. PICK reply \in Replies :
          LET u    == UpdateDelivery(delivery, aborted, reply)
              d    == IF write.lifecycle = "NONE" THEN u ELSE ApplyResponseDeadline(u, aborted, Now)
          IN IF write.lifecycle = "NONE" THEN PollUnwritten(d) ELSE PollWritten(d, reply)
    BY <1>3 DEF Poll
  <2>. DEFINE u    == UpdateDelivery(delivery, aborted, reply)
              d    == IF write.lifecycle = "NONE" THEN u ELSE ApplyResponseDeadline(u, aborted, Now)
  <2>2. Delivered(delivery, u) /\ (aborted => u.heard = delivery.heard)
    BY <1>1, UpdateDelivers
  <2>3. Delivered(delivery, d) /\ (aborted => d.heard = delivery.heard)
    BY <2>2, DeadlineDelivers
  <2>. HIDE DEF d
  <2>4. Told(d) /\ Faithful(d)
    BY <1>1, <1>3, <2>3, DeliveredIsTold, DeliveredIsFaithful
  <2>. USE DEF d
  <2>6. IF write.lifecycle = "NONE" THEN PollUnwritten(d) ELSE PollWritten(d, reply)
    BY <2>1
  <2>7. /\ write.lifecycle \in {"NONE", "ACTIVE", "FINISHED", "FAILED"}
        /\ write.lifecycle # "ACTIVE" => Quiet
        /\ write.lifecycle # "NONE" => sent # {}
    BY <1>1, <1>3, ReadableIsTrue
  <2>. HIDE DEF u, d
  <2>8. CASE PollUnwritten(d)
    BY <1>3, <2>3, <2>4, <2>8, FailClosedEnds, SleepGoesOn DEF PollUnwritten
  <2>9. CASE write.lifecycle # "NONE" /\ PollWritten(d, reply)
    BY <1>1, <1>3, <2>3, <2>4, <2>7, <2>9, WrittenStep
  <2>. QED
    BY <2>6, <2>8, <2>9
<1>. QED
  BY <1>2, <1>3 DEF Poll

-----------------------------------------------------------------------------
(* The two reads of the route.                                              *)

LEMMA LocateStep ==
  ASSUME Writes!WriteInv, Writes!ResponseInv, SeenInv, DeliveryInv, ReadInv, StreamInv, Locate
  PROVE  Ends \/ GoesOn
<1>1. /\ pc = "locating" /\ write.armed
      /\ IsDelivery(delivery) /\ stream.queue \in Seq(Obs!Positions)
  BY TypedQueue DEF Locate, SeenInv, Awaiting, DeliveryInv
<1>2. CASE Unreadable(delivery)
  BY <1>1, <1>2, UnreadableEnds
<1>3. CASE Readable /\ ~ Unreadable(delivery)
  <2>1. PICK reply \in Replies, l \in Locators \cup {None} :
          LET d    == UpdateDelivery(delivery, aborted, reply)
          IN IF write.lifecycle = "FAILED" THEN ThrowOrFailClosed("writeFailed", d)
             ELSE IF write.lifecycle = "ACTIVE" \/ (l # None /\ polled = "ACTIVE") THEN
                    Sleep(d) /\ locator' = l /\ UNCHANGED <<age, polled>>
             ELSE IF Gone(d) THEN ThrowOrFailClosed("aborted", d)
             ELSE IF l # None THEN Await("revalidating", d) /\ locator' = l /\ polledAge' = 0
                              /\ UNCHANGED <<age, polled, registryVars>>
             ELSE IF polled = "FINISHED" /\ polledAge >= 1 THEN ThrowOrFailClosed("notCreated", d)
             ELSE Sleep(d) /\ UNCHANGED <<locator, age, polled>>
    BY <1>3 DEF Locate
  <2>. DEFINE d    == UpdateDelivery(delivery, aborted, reply)
  <2>2. Delivered(delivery, d) /\ (aborted => d.heard = delivery.heard)
    BY <1>1, UpdateDelivers
  <2>3. /\ write.lifecycle \in {"ACTIVE", "FINISHED", "FAILED"}
        /\ write.lifecycle # "ACTIVE" => Quiet
    BY <1>1, <1>3, ReadableIsTrue DEF SeenInv, Readable
  <2>4. \/ write.lifecycle # "ACTIVE" /\ \E o \in Errors : ThrowOrFailClosed(o, d)
        \/ Sleep(d)
        \/ write.lifecycle = "FINISHED" /\ Await("revalidating", d) /\ UNCHANGED registryVars
    BY <2>1, <2>3, InputErrors
  <2>. HIDE DEF d
  <2>5. Told(d)
    BY <1>1, <2>2, DeliveredIsTold DEF Awaiting
  <2>6. CASE write.lifecycle # "ACTIVE" /\ \E o \in Errors : ThrowOrFailClosed(o, d)
    BY <2>3, <2>6, <2>5, ThrowEnds
  <2>7. CASE Sleep(d)
    BY <1>3, <2>2, <2>5, <2>7, SleepGoesOn
  <2>8. CASE write.lifecycle = "FINISHED" /\ Await("revalidating", d) /\ UNCHANGED registryVars
    BY <1>3, <2>2, <2>5, <2>8, AwaitGoesOn DEF Awaiting
  <2>. QED
    BY <2>4, <2>6, <2>7, <2>8
<1>. QED
  BY <1>2, <1>3 DEF Locate

LEMMA ConcludeFreshEnds ==
  ASSUME NEW l, NEW d, NEW reply, ConcludeFresh(l, d, reply), kind = "FRESH", Quiet, ~ Gone(d),
         sent # {}, IsDelivery(delivery), IsDelivery(d), Told(d), Faithful(d), d.failed \/ d.semantic
  PROVE  Ends
<1>. DEFINE f == FinalizeResponseDelivery(d, reply)
            o == IF d.failed \/ f.failed THEN "responseFailed"
                 ELSE IF l \in known THEN "existing" ELSE "created"
            e == IF d.failed THEN d ELSE f
            Whole(x) == IsDelivery(x) /\ HeardWhole(x) /\ StaysSilent(x) /\ ResponseRead(x.text)
<1>1. IF f.failed THEN Told(f) ELSE Whole(f)
  <2>1. Concatenates(d) /\ d.deferred = (kind = "PROJECT") /\ kind # "PROJECT" /\ ~ aborted
    BY DEF Faithful, Gone
  <2>2. IF f.failed THEN Told(f)
        ELSE ~ d.failed /\ IsDelivery(f) /\ f.text = d.text /\ HeardWhole(f) /\ StaysSilent(f)
    BY <2>1, FinishIsTold
  <2>. HIDE DEF f
  <2>. QED
    BY <2>1, <2>2 DEF Faithful
<1>2. Settle(o, e) /\ UNCHANGED <<reserved, marked>>
  BY DEF ConcludeFresh
<1>. HIDE DEF f
<1>3. \/ o = "responseFailed" /\ Told(e)
      \/ o \in Success /\ Whole(e)
  BY <1>1, InputErrors
<1>. HIDE DEF o, e
<1>4. CASE o = "responseFailed" /\ Told(e)
  BY <1>2, <1>4, InputErrors DEF Settle, Ends, Fails, Told
<1>5. CASE o \in Success /\ Whole(e)
  BY <1>2, <1>5, SuccessEnds DEF Gone
<1>. QED
  BY <1>3, <1>4, <1>5

LEMMA ConcludeProjectEnds ==
  ASSUME NEW l, NEW d, NEW reply, ConcludeProject(l, d, reply), kind = "PROJECT",
         l = locator, Quiet, ~ Gone(d), sent # {}, IsDelivery(delivery), IsDelivery(d), Told(d),
         Faithful(d), d.failed \/ d.semantic
  PROVE  Ends
<1>. DEFINE f == FinalizeResponseDelivery(d, reply)
            t == FinishText(d, reply)
            Whole(x) == IsDelivery(x) /\ HeardWhole(x) /\ StaysSilent(x) /\ ResponseRead(x.text)
<1>1. /\ Told(t)
      /\ t.failed \/ ~ Gone(t) => IF f.failed THEN Told(f) ELSE Whole(f)
  <2>1. Concatenates(d) /\ d.deferred = (kind = "PROJECT") /\ ~ aborted
    BY DEF Faithful, Gone
  <2>2. /\ Told(t)
        /\ t.failed \/ ~ Gone(t) =>
             IF f.failed THEN Told(f)
             ELSE ~ d.failed /\ IsDelivery(f) /\ f.text = d.text /\ HeardWhole(f) /\ StaysSilent(f)
    BY <2>1, FinishIsTold
  <2>. HIDE DEF f, t
  <2>. QED
    BY <2>1, <2>2 DEF Faithful
<1>2. \/ FailClosed(d)
      \/ FailClosed(t)
      \/ /\ t.failed \/ ~ Gone(t)
         /\ \/ f.failed /\ FailClosed(f)
            \/ ~ f.failed /\ l \notin known /\ Settle("created", f) /\ reserved' = {l} /\ UNCHANGED marked
  BY DEF ConcludeProject
<1>. HIDE DEF f, t
<1>3. CASE FailClosed(d) \/ FailClosed(t)
  BY <1>1, <1>3, FailClosedEnds
<1>4. CASE (t.failed \/ ~ Gone(t)) /\ f.failed /\ FailClosed(f)
  BY <1>1, <1>4, FailClosedEnds
<1>5. CASE /\ t.failed \/ ~ Gone(t)
           /\ ~ f.failed /\ l \notin known /\ Settle("created", f) /\ reserved' = {l} /\ UNCHANGED marked
  <2>1. Whole(f) /\ ~ aborted
    BY <1>1, <1>5 DEF Gone
  <2>. QED
    BY <1>5, <2>1, InputErrors, SuccessEnds
<1>. QED
  BY <1>2, <1>3, <1>4, <1>5

LEMMA RevalidateStep ==
  ASSUME Writes!WriteInv, Writes!ResponseInv, SeenInv, DeliveryInv, ReadInv, StreamInv, Revalidate
  PROVE  Ends \/ GoesOn
<1>1. /\ pc = "revalidating" /\ write.armed
      /\ IsDelivery(delivery) /\ stream.queue \in Seq(Obs!Positions)
  BY TypedQueue DEF Revalidate, SeenInv, Awaiting, DeliveryInv
<1>2. CASE Unreadable(delivery)
  BY <1>1, <1>2, UnreadableEnds
<1>3. CASE Readable /\ ~ Unreadable(delivery)
  <2>1. PICK reply \in Replies, l \in Locators \cup {None} :
          LET d    == UpdateDelivery(delivery, aborted, reply)
          IN IF Gone(d) THEN ThrowOrFailClosed("aborted", d)
             ELSE IF Confirms(l) /\ ~ d.failed /\ ~ d.semantic THEN
                    Sleep(d) /\ UNCHANGED <<age, polled, locator>>
             ELSE IF Confirms(l) /\ kind = "FRESH" THEN ConcludeFresh(l, d, reply)
             ELSE IF Confirms(l) /\ kind = "PROJECT" THEN ConcludeProject(l, d, reply)
             ELSE IF age >= 1 THEN ThrowOrFailClosed("notCreated", d)
             ELSE Sleep(d) /\ UNCHANGED <<age, polled, locator>>
    BY <1>3 DEF Revalidate
  <2>. DEFINE d    == UpdateDelivery(delivery, aborted, reply)
  <2>2. Delivered(delivery, d) /\ (aborted => d.heard = delivery.heard)
    BY <1>1, UpdateDelivers
  <2>3. Quiet /\ sent # {}
    BY <1>1, <1>3, ReadableIsTrue DEF SeenInv, Readable
  <2>5. \/ \E o \in Errors : ThrowOrFailClosed(o, d)
        \/ Sleep(d)
        \/ /\ ~ Gone(d) /\ (d.failed \/ d.semantic)
           /\ \/ kind = "FRESH" /\ ConcludeFresh(l, d, reply)
              \/ kind = "PROJECT" /\ Confirms(l) /\ ConcludeProject(l, d, reply)
    BY <2>1, InputErrors
  <2>. HIDE DEF d
  <2>6. IsDelivery(d) /\ Told(d) /\ Faithful(d)
    BY <1>1, <1>3, <2>2, DeliveredIsTold, DeliveredIsFaithful DEF Awaiting, Delivered, DeliveredUpTo
  <2>7. CASE \E o \in Errors : ThrowOrFailClosed(o, d)
    BY <2>3, <2>7, <2>6, ThrowEnds
  <2>8. CASE Sleep(d)
    BY <1>3, <2>2, <2>8, SleepGoesOn
  <2>9. CASE ~ Gone(d) /\ (d.failed \/ d.semantic) /\ kind = "FRESH" /\ ConcludeFresh(l, d, reply)
    BY <1>1, <2>3, <2>9, <2>6, ConcludeFreshEnds
  <2>10. CASE /\ ~ Gone(d) /\ (d.failed \/ d.semantic)
              /\ kind = "PROJECT" /\ Confirms(l) /\ ConcludeProject(l, d, reply)
    BY <1>1, <2>3, <2>10, <2>6, ConcludeProjectEnds DEF Confirms
  <2>. QED
    BY <2>5, <2>7, <2>8, <2>9, <2>10
<1>. QED
  BY <1>2, <1>3 DEF Revalidate

-----------------------------------------------------------------------------
(* The network.  The proofs of the observation are about its own actions:   *)
(* each is the one the executor instantiates.                               *)

LEMMA SameFail == \A s : Obs!Fail(s) = Writes!Fail(s)
BY DEF Obs!Fail, Writes!Fail

LEMMA SameDiscard ==
  \A s : /\ Obs!Discard(s) = Writes!Discard(s)
         /\ Obs!Dispose(s) = Writes!Dispose(s)
         /\ Obs!Drain(s) = Writes!Drain(s)
BY DEF Obs!Discard, Writes!Discard, Obs!Dispose, Writes!Dispose, Obs!Drain, Writes!Drain

LEMMA SameComplete == \A s : Obs!Complete(s) = Writes!Complete(s)
BY SameFail DEF Obs!Complete, Writes!Complete

LEMMA SameFinish == \A s : Obs!FinishConsumer(s) = Writes!FinishConsumer(s)
BY SameFail, SameComplete DEF Obs!FinishConsumer, Writes!FinishConsumer

LEMMA SameConsume == \A b, s, i : Obs!Consume(b, s, i) = Writes!Consume(b, s, i)
BY SameFail, SameComplete DEF Obs!Consume, Writes!Consume, Obs!Terminal, Writes!Terminal

LEMMA SameConsumeAll == \A b, s, p : Obs!ConsumeAll(b, s, p) = Writes!ConsumeAll(b, s, p)
<1>. TAKE b, s, p
<1>. DEFINE X(f) == f = [t \in SUBSET DOMAIN p |->
                   IF t = {} THEN s ELSE Obs!Consume(b, f[t \ {Obs!Max(t)}], p[Obs!Max(t)])]
            Y(f) == f = [t \in SUBSET DOMAIN p |->
                   IF t = {} THEN s
                   ELSE Writes!Consume(b, f[t \ {Writes!Max(t)}], p[Writes!Max(t)])]
<1>1. \A f : X(f) <=> Y(f)
  <2>1. \A t : Obs!Max(t) = Writes!Max(t)
    BY DEF Obs!Max, Writes!Max
  <2>. QED
    BY <2>1, SameConsume
<1>2. (CHOOSE f : X(f)) = (CHOOSE f : Y(f))
  <2>. HIDE DEF X, Y
  <2>. QED BY <1>1
<1>3. Obs!ConsumeAll(b, s, p) = (CHOOSE f : X(f))[DOMAIN p]
  BY DEF Obs!ConsumeAll, Obs!FoldLeft, Obs!MapThenFoldSet
<1>4. Writes!ConsumeAll(b, s, p) = (CHOOSE f : Y(f))[DOMAIN p]
  BY DEF Writes!ConsumeAll, Writes!FoldLeft, Writes!MapThenFoldSet
<1>. HIDE DEF X, Y
<1>. QED BY <1>2, <1>3, <1>4

LEMMA SameBegin == \A s, a : Obs!Begin(s, a) = Writes!Begin(s, a)
BY SameFail DEF Obs!Begin, Writes!Begin

LEMMA SameOnData == \A b, s, i : Obs!OnData(b, s, i) = Writes!OnData(b, s, i)
BY SameFail, SameConsume DEF Obs!OnData, Writes!OnData, Obs!Terminal, Writes!Terminal

LEMMA SameActivation == \A b, s : Obs!CompleteActivation(b, s) = Writes!CompleteActivation(b, s)
BY SameConsumeAll, SameFinish
DEF Obs!CompleteActivation, Writes!CompleteActivation, Obs!Terminal, Writes!Terminal

LEMMA SameSettled == \A s, f : Obs!OnTransportSettled(s, f) = Writes!OnTransportSettled(s, f)
BY SameFail, SameFinish DEF Obs!OnTransportSettled, Writes!OnTransportSettled

LEMMA SameNetwork == Obs!Network => Writes!Network
<1>1. Obs!Ambiguous => Writes!Ambiguous
  BY SameDiscard DEF Obs!Ambiguous, Writes!Ambiguous
<1>2. ASSUME NEW r \in Requests, Obs!NewWrite(r) PROVE Writes!NewWrite(r)
  BY <1>1, <1>2 DEF Obs!NewWrite, Writes!NewWrite
<1>3. ASSUME NEW r \in Requests, Obs!RequestSent(r) PROVE Writes!RequestSent(r)
  BY <1>2, <1>3 DEF Obs!RequestSent, Writes!RequestSent, Obs!trackerVars, Writes!trackerVars
<1>4. ASSUME NEW r \in Requests, Obs!RequestRedirected(r) PROVE Writes!RequestRedirected(r)
  BY <1>2, <1>4, SameFail
     DEF Obs!RequestRedirected, Writes!RequestRedirected, Obs!Selected, Writes!Selected
<1>5. ASSUME NEW r \in Requests, Obs!RequestSentAgain(r) PROVE Writes!RequestSentAgain(r)
  BY <1>1, <1>5 DEF Obs!RequestSentAgain, Writes!RequestSentAgain, Obs!Selected, Writes!Selected,
                    Obs!networkVars, Writes!networkVars
<1>6. ASSUME NEW r \in Requests, NEW ok \in BOOLEAN, NEW available \in BOOLEAN,
             Obs!ResponseReceived(r, ok, available)
      PROVE  Writes!ResponseReceived(r, ok, available)
  BY <1>6, SameBegin DEF Obs!ResponseReceived, Writes!ResponseReceived, Obs!Selected,
                         Writes!Selected, Obs!trackerVars, Writes!trackerVars
<1>7. ASSUME NEW r \in Requests, NEW record \in Records, Obs!DataReceived(r, record)
      PROVE  Writes!DataReceived(r, record)
  BY <1>7, SameOnData DEF Obs!DataReceived, Writes!DataReceived, Obs!Selected, Writes!Selected
<1>8. ASSUME NEW r \in Requests, NEW failed \in BOOLEAN, Obs!RequestSettled(r, failed)
      PROVE  Writes!RequestSettled(r, failed)
  <2>1. Obs!WriteVerdict(failed) = Writes!WriteVerdict(failed)
    BY DEF Obs!WriteVerdict, Writes!WriteVerdict
  <2>. QED
    BY <1>8, <2>1, SameSettled DEF Obs!RequestSettled, Writes!RequestSettled, Obs!Selected,
                                   Writes!Selected, Obs!trackerVars, Writes!trackerVars
<1>9. Obs!StreamTapped => Writes!StreamTapped
  BY DEF Obs!StreamTapped, Writes!StreamTapped, Obs!networkVars, Writes!networkVars
<1>10. Obs!ActivationAnswered => Writes!ActivationAnswered
  BY SameActivation DEF Obs!ActivationAnswered, Writes!ActivationAnswered,
                        Obs!networkVars, Writes!networkVars
<1>11. Obs!ActivationFailed => Writes!ActivationFailed
  BY SameFail DEF Obs!ActivationFailed, Writes!ActivationFailed, Obs!networkVars, Writes!networkVars
<1>. QED
  BY <1>3, <1>4, <1>5, <1>6, <1>7, <1>8, <1>9, <1>10, <1>11 DEF Obs!Network, Writes!Network

LEMMA NetworkKeepsWrite ==
  ASSUME Writes!WriteInv, Obs!Network
  PROVE  Writes!WriteInv'
BY SameNetwork, Writes!NetworkKeepsWrite, ObservationAssumption DEF Writes!AllRecords

LEMMA NetworkKeepsResponse ==
  ASSUME Writes!WriteInv, Writes!ResponseInv, Obs!Network, UNCHANGED delivery
  PROVE  Writes!ResponseInv' /\ Writes!Onwards
BY SameNetwork, Writes!NetworkKeepsResponse, ObservationAssumption DEF Writes!AllRecords

(* What the turn has seen of its write stays so, unless the observation     *)
(* becomes ambiguous.                                                       *)
LEMMA NetworkKeepsWhatWasSeen ==
  ASSUME Writes!WriteInv, write.armed, ~ write.ambiguous, Obs!Network
  PROVE  /\ write'.armed
         /\ ~ write'.ambiguous /\ write.lifecycle # "NONE" => write'.lifecycle # "NONE"
         /\ ~ write'.ambiguous /\ write.lifecycle = "FINISHED" => write'.lifecycle = "FINISHED"
<1>. DEFINE Same == write'.armed /\ write'.lifecycle = write.lifecycle
<1>1. write \in Writes!WriteRecord
  BY DEF Writes!WriteInv, Writes!WriteTyped
<1>2. CASE UNCHANGED write
  BY <1>2
<1>3. CASE Obs!Ambiguous
  BY <1>1, <1>3 DEF Obs!Ambiguous, Writes!WriteRecord
<1>4. ASSUME NEW r \in Requests, Obs!NewWrite(r)
      PROVE  \/ Obs!Ambiguous
             \/ write.lifecycle = "NONE" /\ write'.armed
  BY <1>1, <1>4 DEF Obs!NewWrite, Writes!WriteInv, Writes!UnselectedIsFresh, Writes!WriteRecord
<1>5. CASE \E r \in Requests : Obs!NewWrite(r)
  BY <1>3, <1>4, <1>5
<1>6. CASE \E r \in Requests : Obs!RequestRedirected(r)
  <2>1. \/ write' = [write EXCEPT !.redirected = TRUE, !.ok = FALSE]
        \/ \E r \in Requests : Obs!NewWrite(r)
    BY <1>6 DEF Obs!RequestRedirected
  <2>. QED
    BY <1>1, <1>5, <2>1 DEF Writes!WriteRecord
<1>7. CASE \E r \in Requests, ok, available \in BOOLEAN : Obs!ResponseReceived(r, ok, available)
  <2>1. \/ UNCHANGED write
        \/ \E ok \in BOOLEAN : write' = [write EXCEPT !.ok = ok]
    BY <1>7 DEF Obs!ResponseReceived, Obs!trackerVars
  <2>. QED
    BY <1>1, <1>2, <2>1 DEF Writes!WriteRecord
<1>8. CASE \E r \in Requests, failed \in BOOLEAN : Obs!RequestSettled(r, failed)
  <2>1. \/ UNCHANGED write
        \/ /\ write.lifecycle = "ACTIVE"
           /\ \E failed \in BOOLEAN :
                write' = [write EXCEPT !.lifecycle = Obs!WriteVerdict(failed)]
    BY <1>8 DEF Obs!RequestSettled, Obs!trackerVars
  <2>. QED
    BY <1>1, <1>2, <2>1 DEF Writes!WriteRecord, Obs!WriteVerdict
<1>9. CASE \E r \in Requests : Obs!RequestSent(r) \/ Obs!RequestSentAgain(r)
  BY <1>2, <1>3, <1>5, <1>9 DEF Obs!RequestSent, Obs!RequestSentAgain, Obs!trackerVars
<1>10. CASE \/ \E r \in Requests, record \in Records : Obs!DataReceived(r, record)
            \/ Obs!StreamTapped \/ Obs!ActivationAnswered \/ Obs!ActivationFailed
  BY <1>2, <1>10 DEF Obs!DataReceived, Obs!StreamTapped, Obs!ActivationAnswered,
                     Obs!ActivationFailed
<1>. QED
  BY <1>6, <1>7, <1>8, <1>9, <1>10 DEF Obs!Network

(* No request is forgotten, and a first one is under way. *)
LEMMA SentGrows ==
  ASSUME Writes!WriteInv, Obs!Network
  PROVE  /\ sent \subseteq sent'
         /\ sent' = sent \/ WriteInFlight'
<1>1. CASE UNCHANGED sent
  BY <1>1
<1>2. ASSUME NEW r \in Requests, Obs!RequestSent(r) \/ Obs!RequestRedirected(r)
      PROVE  sent \subseteq sent' /\ (sent' = sent \/ WriteInFlight')
  <2>1. CASE sent' = sent \cup {r} /\ net'[r].phase = "sent"
    BY <2>1 DEF WriteInFlight, Obs!InFlight
  <2>2. CASE UNCHANGED sent
    BY <2>2
  <2>3. net \in [Requests -> [phase : Writes!Phases, ok : BOOLEAN, redirected : BOOLEAN]]
    BY DEF Writes!WriteInv, Writes!NetTyped
  <2>4. Obs!RequestSent(r) => sent' = sent \cup {r} /\ net'[r].phase = "sent"
    BY <2>3 DEF Obs!RequestSent
  <2>5. Obs!RequestRedirected(r) =>
          \/ UNCHANGED sent
          \/ sent' = sent \cup {r} /\ net'[r].phase = "sent"
    BY <2>3 DEF Obs!RequestRedirected
  <2>. QED
    BY <1>2, <2>1, <2>2, <2>4, <2>5
<1>3. CASE \E r \in Requests : Obs!RequestSent(r) \/ Obs!RequestRedirected(r)
  BY <1>2, <1>3
<1>4. CASE ~ \E r \in Requests : Obs!RequestSent(r) \/ Obs!RequestRedirected(r)
  <2>1. UNCHANGED sent
    BY <1>4 DEF Obs!Network, Obs!RequestSentAgain, Obs!ResponseReceived, Obs!DataReceived,
                Obs!RequestSettled, Obs!StreamTapped, Obs!ActivationAnswered, Obs!ActivationFailed,
                Obs!networkVars
  <2>. QED
    BY <2>1
<1>. QED
  BY <1>3, <1>4

(* Without a request there is nothing for the stream to do. *)
LEMMA NetworkKeepsStreamIdle ==
  ASSUME Writes!WriteInv, write.armed, ~ write.ambiguous, sent = {}, StreamIdle(stream),
         Obs!Network, sent' = {}
  PROVE  StreamIdle(stream')
<1>1. ASSUME NEW r \in Requests PROVE ~ Obs!Selected(r)
  BY ObservationAssumption DEF Obs!Selected, Writes!WriteInv, Writes!SelectedIsTrue
<1>2. ASSUME NEW r \in Requests
      PROVE  /\ ~ Obs!RequestSent(r) /\ ~ Obs!RequestRedirected(r) /\ ~ Obs!RequestSentAgain(r)
             /\ \A ok, available \in BOOLEAN : Obs!ResponseReceived(r, ok, available) => stream' = stream
             /\ \A record \in Records : Obs!DataReceived(r, record) => stream' = stream
             /\ \A failed \in BOOLEAN : Obs!RequestSettled(r, failed) => stream' = stream
  BY <1>1 DEF Obs!RequestSent, Obs!RequestRedirected, Obs!RequestSentAgain, Obs!ResponseReceived,
              Obs!DataReceived, Obs!RequestSettled, Obs!trackerVars
<1>3. ~ Obs!StreamTapped /\ ~ Obs!ActivationAnswered /\ ~ Obs!ActivationFailed
  BY DEF StreamIdle, Obs!StreamTapped, Obs!ActivationAnswered, Obs!ActivationFailed
<1>. QED
  BY <1>2, <1>3 DEF Obs!Network

-----------------------------------------------------------------------------
(* The invariant.                                                           *)

LEMMA InitHolds == Init => IInv
<1>. SUFFICES ASSUME Init PROVE IInv
  OBVIOUS
<1>. USE ObservationAssumption
<1>1. Writes!WriteInv
  <2>1. ~ write.armed /\ net = [r \in Requests |-> Writes!Unsent] /\ sent = {}
        /\ write = Writes!NoWrite
    BY DEF Init, Obs!NoWrite, Writes!NoWrite, Obs!Unsent, Writes!Unsent
  <2>2. Writes!NetTyped /\ Writes!WriteTyped
    BY <2>1 DEF Writes!NetTyped, Writes!WriteTyped, Writes!WriteRecord, Writes!Phases,
                Writes!Unsent, Writes!NoWrite
  <2>. QED
    BY <2>1, <2>2 DEF Writes!WriteInv, Writes!UnselectedIsFresh, Writes!SelectedIsTrue
<1>2. SeenInv /\ StreamInv /\ OutcomeInv
  BY DEF Init, SeenInv, StreamInv, OutcomeInv, Awaiting
<1>3. delivery = NewDelivery(kind) /\ <<>> \in Seq(Obs!Positions) /\ <<>> \in Seq(Event)
  BY DEF Init
<1>4. DeliveryInv
  <2>1. IsDelivery(delivery)
    BY <1>3, MaxTextAssumption DEF IsDelivery, DeliveryRecord, NewDelivery
  <2>2. Texts(<<>>) = <<>>
    BY DEF Texts
  <2>3. Concatenates(delivery) /\ delivery.deferred = (kind = "PROJECT")
    BY <1>3, <2>2, FlattenNothing DEF NewDelivery, Concatenates
  <2>. QED
    BY <1>3, <2>1, <2>3 DEF DeliveryInv
<1>5. Writes!ResponseInv
  <2>1. Writes!Init
    BY <1>3 DEF Init, Writes!Init, NewDelivery, Obs!NoWrite, Writes!NoWrite, Obs!Unsent, Writes!Unsent,
                Obs!NewStream, Writes!NewStream
  <2>. QED
    BY <2>1, Writes!InitResponse DEF Writes!AllRecords
<1>6. ReadInv /\ SuccessIsWhole
  BY <1>3 DEF Init, ReadInv, Awaiting, SuccessIsWhole, Success, NewDelivery
<1>7. SettlesAfterTheWrite
  BY DEF Init, SettlesAfterTheWrite, HandsOver
<1>. QED
  BY <1>1, <1>2, <1>4, <1>5, <1>6, <1>7 DEF IInv

LEMMA NoWriteKeepsInv ==
  ASSUME Writes!WriteInv, write' = Obs!NoWrite, UNCHANGED <<net, sent>>
  PROVE  Writes!WriteInv' /\ ~ write'.armed
BY DEF Writes!WriteInv, Writes!NetTyped, Writes!WriteTyped, Writes!WriteRecord,
       Writes!UnselectedIsFresh, Writes!SelectedIsTrue, Obs!NoWrite

LEMMA NoWriteKeepsResponse ==
  ASSUME Writes!ResponseInv, IsDelivery(delivery'), write' = Obs!NoWrite, stream' = Obs!NewStream,
         UNCHANGED body
  PROVE  Writes!ResponseInv'
<1>1. write' = Writes!NoWrite /\ stream' = Writes!NewStream /\ delivery'.text \in Seq(Writes!Positions)
  BY DEF Obs!NoWrite, Writes!NoWrite, Obs!NewStream, Writes!NewStream, IsDelivery, DeliveryRecord,
         Obs!Positions, Writes!Positions
<1>. QED
  BY <1>1, Writes!ReleaseKeepsResponse, ObservationAssumption DEF Writes!AllRecords, Writes!ResponseInv

LEMMA EndsKeepsInv ==
  ASSUME IInv, Ends, pc # "done"
  PROVE  IInv'
<1>1. Writes!WriteInv' /\ ~ write'.armed
  BY NoWriteKeepsInv DEF IInv, Ends
<1>2. IsDelivery(delivery')
  BY DEF Ends, Fails, Succeeds, Told
<1>3. Writes!ResponseInv'
  BY <1>2, NoWriteKeepsResponse DEF IInv, Ends
<1>4. SeenInv' /\ DeliveryInv' /\ ReadInv' /\ StreamInv'
  BY <1>1, <1>2 DEF SeenInv, DeliveryInv, ReadInv, StreamInv, Ends, Awaiting
<1>5. marked = FALSE /\ reserved = {}
  BY DEF IInv, OutcomeInv
<1>6. CASE Fails
  <2>1. OutcomeInv'
    BY <1>5, <1>6 DEF Ends, Fails, OutcomeInv, Errors, Success
  <2>2. SettlesAfterTheWrite'
    BY <1>6 DEF Ends, Fails, SettlesAfterTheWrite, HandsOver, Quiet, WriteInFlight, Obs!InFlight
  <2>3. SuccessIsWhole'
    <3>1. outcome' \notin Success
      BY <1>6 DEF Fails, Errors, Success
    <3>2. \A i \in 1..Len(delivery'.heard) : delivery'.heard[i].type # "COMPLETED"
      BY <1>6 DEF Fails, Told
    <3>. QED
      BY <3>1, <3>2 DEF SuccessIsWhole, Success
  <2>. QED
    BY <1>1, <1>3, <1>4, <2>1, <2>2, <2>3 DEF IInv
<1>7. CASE Succeeds
  <2>1. OutcomeInv'
    BY <1>5, <1>7 DEF Ends, Succeeds, OutcomeInv, Success
  <2>2. SettlesAfterTheWrite'
    BY <1>7 DEF Ends, Succeeds, SettlesAfterTheWrite, HandsOver, Quiet, WriteInFlight, Obs!InFlight
  <2>3. SuccessIsWhole'
    <3>1. /\ HeardWhole(delivery') /\ ResponseRead(delivery'.text) /\ outcome' \in Success
          /\ UNCHANGED <<body, sent>>
      BY <1>7 DEF Ends, Succeeds
    <3>2. HeardText' = delivery'.text
      BY <3>1 DEF HeardText, HeardWhole
    <3>3. \E r \in Requests : \E i \in DOMAIN body'[r] :
            /\ sent' = {r}
            /\ body'[r][i] \in {"done", "half"}
            /\ Obs!ListsTexts(HeardText', body'[r], i)
      BY <3>1, <3>2 DEF ResponseRead
    <3>. QED
      BY <3>1, <3>2, <3>3 DEF SuccessIsWhole, HeardWhole, Success, Obs!ListsTexts
  <2>. QED
    BY <1>1, <1>3, <1>4, <2>1, <2>2, <2>3 DEF IInv
<1>. QED
  BY <1>6, <1>7 DEF Ends

(* What is read is drained, or given up. *)
LEMMA ReadKeepsResponse ==
  ASSUME IInv, GoesOn, pc \in Awaiting, UNCHANGED <<delivery, stream>> \/ IsDelivery(delivery)
  PROVE  Writes!ResponseInv'
<1>. USE ObservationAssumption DEF Writes!AllRecords
<1>1. CASE UNCHANGED <<delivery, stream>>
  BY <1>1, Writes!UnchangedKeepsResponse DEF GoesOn, IInv, Writes!trackerVars
<1>2. CASE /\ Readable /\ Delivered(delivery, delivery')
           /\ stream' = IF delivery'.discarded THEN Obs!Discard(stream) ELSE Obs!Drain(stream)
  <2>1. Writes!Readable /\ Writes!WriteInv /\ Writes!ResponseInv /\ UNCHANGED <<body, write>>
    BY <1>2 DEF IInv, SeenInv, GoesOn, Readable, Writes!Readable
  <2>2. IsDelivery(delivery) /\ stream.queue \in Seq(Obs!Positions)
    BY TypedQueue DEF IInv, DeliveryInv
  <2>3. PICK p \in Seq(Obs!Positions), q \in Seq(Obs!Positions) :
          /\ stream.queue = p \o q /\ delivery'.text = delivery.text \o p
          /\ delivery'.discarded \/ (p = stream.queue /\ q = <<>>)
    BY <1>2, <2>2, DeliveredText
  <2>4. p \in Seq(Writes!Positions) /\ q \in Seq(Writes!Positions)
    BY DEF Obs!Positions, Writes!Positions
  <2>5. CASE delivery'.discarded
    BY <1>2, <2>1, <2>3, <2>4, <2>5, SameDiscard, Writes!TakeAndDiscardKeepsResponse
  <2>6. CASE ~ delivery'.discarded
    BY <1>2, <2>1, <2>3, <2>6, SameDiscard, Writes!TakeKeepsResponse
  <2>. QED
    BY <2>5, <2>6
<1>. QED
  BY <1>1, <1>2 DEF GoesOn

LEMMA GoesOnKeepsInv ==
  ASSUME IInv, GoesOn, pc \in Awaiting
  PROVE  IInv'
<1>. USE ObservationAssumption
<1>0. /\ IsDelivery(delivery) /\ Concatenates(delivery) /\ delivery.deferred = (kind = "PROJECT")
      /\ stream.queue \in Seq(Obs!Positions) /\ stream \in Writes!StreamRecord
  BY TypedQueue DEF IInv, DeliveryInv, Awaiting, Writes!ResponseInv, Writes!ResponseTyped,
                    Writes!TypedStream
<1>1. Writes!WriteInv' /\ Writes!ResponseInv'
  BY <1>0, Writes!StreamKeepsWrite, ReadKeepsResponse DEF IInv, GoesOn, Writes!AllRecords
<1>2. SeenInv'
  BY DEF IInv, SeenInv, GoesOn, Awaiting
<1>3. DeliveryInv'
  <2>1. UNCHANGED kind /\ pc' \in Awaiting
    BY DEF GoesOn
  <2>2. CASE UNCHANGED delivery
    BY <1>0, <2>1, <2>2 DEF DeliveryInv, Awaiting
  <2>3. CASE Delivered(delivery, delivery')
    <3>1. /\ IsDelivery(delivery') /\ Concatenates(delivery')
          /\ delivery'.deferred = delivery.deferred
      BY <1>0, <2>3 DEF Delivered, DeliveredUpTo
    <3>. QED
      BY <1>0, <2>1, <3>1 DEF DeliveryInv, Awaiting
  <2>. QED
    BY <2>2, <2>3 DEF GoesOn
<1>4. ReadInv'
  <2>1. CASE UNCHANGED <<delivery, stream>>
    BY <2>1 DEF IInv, ReadInv, GoesOn, Writes!Discarded
  <2>2. CASE /\ Readable /\ Delivered(delivery, delivery')
             /\ stream' = IF delivery'.discarded THEN Obs!Discard(stream) ELSE Obs!Drain(stream)
    <3>1. /\ ~ delivery'.discarded => stream'.activation = stream.activation
          /\ stream'.lifecycle = "COMPLETED" <=> stream.lifecycle = "COMPLETED"
      BY <1>0, <2>2 DEF Obs!Drain, Obs!Discard, Writes!StreamRecord
    <3>2. /\ delivery.discarded => aborted \/ delivery.failed
          /\ Writes!Discarded(stream) => delivery.discarded
          /\ delivery.semantic => stream.lifecycle = "COMPLETED"
      BY <2>2 DEF IInv, ReadInv, Readable
    <3>3. aborted => aborted'
      BY DEF GoesOn
    <3>. QED
      BY <2>2, <3>1, <3>2, <3>3 DEF ReadInv, Delivered, DeliveredUpTo, Writes!Discarded
  <2>. QED
    BY <2>1, <2>2 DEF GoesOn
<1>5. StreamInv'
  <2>1. ASSUME StreamIdle(stream) PROVE StreamIdle(stream')
    <3>1. StreamIdle(Obs!Drain(stream))
      BY <1>0, <2>1 DEF StreamIdle, Obs!Drain, Writes!StreamRecord
    <3>2. StreamIdle(Obs!Discard(stream))
      BY <1>0, <2>1 DEF StreamIdle, Obs!Discard, Writes!StreamRecord
    <3>. QED
      BY <2>1, <3>1, <3>2 DEF GoesOn
  <2>. QED
    BY <2>1 DEF IInv, StreamInv, GoesOn
<1>6. OutcomeInv' /\ SettlesAfterTheWrite'
  BY DEF IInv, GoesOn, OutcomeInv, SettlesAfterTheWrite, HandsOver, Awaiting
<1>7. SuccessIsWhole'
  <2>1. outcome' = "pending" /\ Concatenates(delivery')
    BY <1>3, <1>6 DEF DeliveryInv, OutcomeInv, GoesOn, Awaiting
  <2>. QED
    BY <2>1 DEF Concatenates, SuccessIsWhole, Success
<1>. QED
  BY <1>1, <1>2, <1>3, <1>4, <1>5, <1>6, <1>7 DEF IInv

LEMMA PreflightKeepsInv ==
  ASSUME IInv, Preflight
  PROVE  IInv'
<1>. USE ObservationAssumption
<1>1. /\ pc = "preflight" /\ pc' = "inserting" /\ Obs!ArmObservation
      /\ UNCHANGED <<net, kind, delivery, outcome, marked, reserved>>
      /\ write' = [Obs!NoWrite EXCEPT !.armed = TRUE] /\ sent' = {} /\ stream' = Obs!NewStream
  BY DEF Preflight, Obs!ArmObservation, registryVars
<1>2. Writes!WriteInv' /\ write'.armed
  BY <1>1 DEF IInv, Writes!WriteInv, Writes!NetTyped, Writes!WriteTyped, Writes!WriteRecord,
              Writes!UnselectedIsFresh, Writes!SelectedIsTrue, Obs!NoWrite
<1>3. delivery = NewDelivery(kind) /\ delivery.text = <<>>
  BY <1>1 DEF IInv, DeliveryInv, NewDelivery
<1>4. Writes!ResponseInv'
  <2>1. Writes!ArmObservation
    BY <1>1 DEF Obs!ArmObservation, Writes!ArmObservation, Obs!NoWrite, Writes!NoWrite,
                Obs!NewStream, Writes!NewStream
  <2>. QED
    BY <1>1, <1>3, <2>1, Writes!ArmKeepsResponse DEF IInv, Writes!AllRecords
<1>5. StreamInv' /\ ReadInv'
  BY <1>1, <1>3 DEF StreamInv, StreamIdle, Obs!NewStream, ReadInv, NewDelivery, Writes!Discarded
<1>6. SeenInv' /\ DeliveryInv' /\ OutcomeInv' /\ SettlesAfterTheWrite'
  BY <1>1, <1>2 DEF IInv, SeenInv, DeliveryInv, OutcomeInv, SettlesAfterTheWrite, HandsOver, Awaiting,
                    Concatenates
<1>7. SuccessIsWhole'
  BY <1>1, <1>3 DEF IInv, OutcomeInv, SuccessIsWhole, Success, NewDelivery
<1>. QED
  BY <1>2, <1>4, <1>5, <1>6, <1>7 DEF IInv

(* A turn that never began to insert has sent nothing, and told nothing. *)
PreflightEnds ==
  /\ pc' = "done"
  /\ write' = Obs!NoWrite /\ stream' = Obs!NewStream
  /\ UNCHANGED <<net, body, sent, kind, delivery, marked, reserved>>
  /\ sent = {}
  /\ outcome' \in {"aborted", "disconnected", "changed", "inputFailed"}

LEMMA PreflightFailsEnds ==
  ASSUME IInv, PreflightFails
  PROVE  PreflightEnds
BY DEF PreflightFails, PreflightEnds, Throw, Settle, registryVars, IInv, SeenInv

LEMMA PreflightFailsKeepsInv ==
  ASSUME IInv, PreflightFails
  PROVE  IInv'
<1>1. pc = "preflight" /\ PreflightEnds
  BY PreflightFailsEnds DEF PreflightFails
<1>2. Writes!WriteInv' /\ ~ write'.armed
  BY <1>1, NoWriteKeepsInv DEF IInv, PreflightEnds
<1>3. delivery' = NewDelivery(kind) /\ IsDelivery(delivery')
  BY <1>1 DEF IInv, DeliveryInv, PreflightEnds
<1>4. Writes!ResponseInv'
  BY <1>1, <1>3, NoWriteKeepsResponse DEF IInv, PreflightEnds
<1>5. SeenInv' /\ DeliveryInv' /\ ReadInv' /\ StreamInv' /\ SettlesAfterTheWrite'
  BY <1>1, <1>2, <1>3 DEF PreflightEnds, SeenInv, DeliveryInv, ReadInv, StreamInv, SettlesAfterTheWrite,
                          HandsOver, WriteInFlight, Awaiting
<1>6. OutcomeInv'
  BY <1>1 DEF PreflightEnds, IInv, OutcomeInv
<1>7. SuccessIsWhole'
  BY <1>1, <1>3 DEF PreflightEnds, SuccessIsWhole, Success, NewDelivery
<1>. QED
  BY <1>2, <1>4, <1>5, <1>6, <1>7 DEF IInv

(* A step of the turn after its preflight ends it or goes on. *)
LEMMA TurnStepEndsOrGoesOn ==
  ASSUME IInv, TurnStep, pc # "preflight"
  PROVE  pc \in Awaiting /\ (Ends \/ GoesOn)
<1>1. pc \in Awaiting
  BY DEF TurnStep, Preflight, PreflightFails, Insert, InsertFails, Send, SendFails, Poll, Locate,
         Revalidate, Awaiting
<1>2. Insert \/ InsertFails \/ Send \/ SendFails \/ Poll \/ Locate \/ Revalidate
  BY DEF TurnStep, Preflight, PreflightFails
<1>. QED
  BY <1>1, <1>2, InsertStep, InsertFailsStep, SendStep, SendFailsStep, PollStep, LocateStep,
     RevalidateStep DEF IInv

(* Before its preflight is over, the turn can only arm its observation or fail. *)
LEMMA FirstStep == ASSUME TurnStep, pc = "preflight" PROVE Preflight \/ PreflightFails
BY DEF TurnStep, Insert, InsertFails, Send, SendFails, Poll, Locate, Revalidate

LEMMA NetworkKeepsInv ==
  ASSUME IInv, NetworkEvent
  PROVE  IInv'
<1>1. /\ write.armed /\ ~ write.ambiguous /\ Obs!Network
      /\ UNCHANGED <<pc, kind, delivery, marked, reserved, outcome>>
  BY DEF NetworkEvent, ownVars, registryVars
<1>2. Writes!WriteInv'
  BY <1>1, NetworkKeepsWrite DEF IInv
<1>3. pc \in Awaiting
  BY <1>1 DEF IInv, SeenInv, Obs!NoWrite
<1>4. SeenInv'
  BY <1>1, <1>3, NetworkKeepsWhatWasSeen DEF IInv, SeenInv, Awaiting
<1>5. StreamInv'
  BY <1>1, <1>3, SentGrows, NetworkKeepsStreamIdle DEF IInv, StreamInv
<1>6. Writes!ResponseInv' /\ Writes!Onwards
  BY <1>1, NetworkKeepsResponse DEF IInv
<1>7. ReadInv'
  <2>1. UNCHANGED aborted
    BY DEF NetworkEvent
  <2>. QED
    BY <1>1, <1>3, <1>4, <1>6, <2>1 DEF IInv, ReadInv, SeenInv, Writes!Onwards, Writes!Readable
<1>8. DeliveryInv' /\ OutcomeInv' /\ SettlesAfterTheWrite'
  BY <1>1, <1>3 DEF IInv, DeliveryInv, OutcomeInv, SettlesAfterTheWrite, HandsOver, Awaiting
<1>9. SuccessIsWhole'
  <2>1. outcome' = "pending" /\ Concatenates(delivery')
    BY <1>1, <1>3 DEF IInv, DeliveryInv, OutcomeInv, Awaiting
  <2>. QED
    BY <2>1 DEF Concatenates, SuccessIsWhole, Success
<1>. QED
  BY <1>2, <1>4, <1>5, <1>6, <1>7, <1>8, <1>9 DEF IInv

(* The caller, the runtime and the clock. *)
LEMMA OthersKeepInv ==
  ASSUME IInv, CallerAborts \/ ControlChanges \/ Tick \/ Confirm \/ Rollback \/ UNCHANGED vars
  PROVE  IInv'
<1>. USE ObservationAssumption
<1>1. /\ UNCHANGED <<net, body, sent, write, stream, kind, pc, delivery, outcome>>
      /\ aborted => aborted'
  BY DEF CallerAborts, ControlChanges, Tick, Confirm, Rollback, vars, ownVars,
         observationVars, settledVars
<1>2. /\ pc = "done" => control' = control
      /\ \/ UNCHANGED <<marked, reserved>>
         \/ reserved # {} /\ reserved' = {} /\ (marked' = marked \/ marked' = TRUE)
  BY DEF CallerAborts, ControlChanges, Tick, Confirm, Rollback, Running, vars, ownVars, registryVars,
         settledVars
<1>3. Writes!WriteInv' /\ Writes!ResponseInv'
  BY <1>1, Writes!StreamKeepsWrite, Writes!UnchangedKeepsResponse
     DEF IInv, Writes!AllRecords, Writes!trackerVars
<1>4. SeenInv' /\ DeliveryInv' /\ ReadInv' /\ StreamInv'
  BY <1>1 DEF IInv, SeenInv, DeliveryInv, ReadInv, StreamInv, Writes!Discarded, Concatenates
<1>5. OutcomeInv'
  BY <1>1, <1>2 DEF IInv, OutcomeInv
<1>6. SettlesAfterTheWrite'
  BY <1>1, <1>2 DEF IInv, SettlesAfterTheWrite, HandsOver, WriteInFlight, Obs!InFlight
<1>7. SuccessIsWhole'
  <2>1. SuccessIsWhole /\ HeardText' = HeardText
    BY <1>1 DEF IInv, HeardText
  <2>. QED
    BY <1>1, <2>1 DEF SuccessIsWhole, Success, Obs!ListsTexts
<1>. QED
  BY <1>3, <1>4, <1>5, <1>6, <1>7 DEF IInv

LEMMA StepKeepsInv == IInv /\ [Next]_vars => IInv'
<1>. SUFFICES ASSUME IInv, [Next]_vars PROVE IInv'
  OBVIOUS
<1>1. CASE TurnStep /\ pc # "preflight"
  BY <1>1, TurnStepEndsOrGoesOn, EndsKeepsInv, GoesOnKeepsInv DEF Awaiting
<1>2. CASE TurnStep /\ pc = "preflight"
  BY <1>2, FirstStep, PreflightKeepsInv, PreflightFailsKeepsInv
<1>3. CASE NetworkEvent
  BY <1>3, NetworkKeepsInv
<1>4. CASE CallerAborts \/ ControlChanges \/ Tick \/ Confirm \/ Rollback \/ UNCHANGED vars
  BY <1>4, OthersKeepInv
<1>. QED
  BY <1>1, <1>2, <1>3, <1>4 DEF Next

LEMMA InvAlways == Spec => []IInv
BY InitHolds, StepKeepsInv, PTL DEF Spec

-----------------------------------------------------------------------------

(* The operation that follows a turn under the same lease never finds a      *)
(* write of that turn under way, unless it was the cancellation of a turn of *)
(* an existing thread: every error path of TurnExecutor.ts has waited for    *)
(* the settlement or marked the lease.                                       *)
THEOREM SettlesLast == Spec => []SettlesAfterTheWrite
BY InvAlways, PTL DEF IInv

(* A turn that reports success has given its caller COMPLETED, after the      *)
(* text in pieces and again as a whole: and that text is the text of the one *)
(* response there was, all of it, in its order.  No other turn ever tells    *)
(* its caller that it is complete.                                           *)
THEOREM SuccessIsNeverPartial == Spec => []SuccessIsWhole
BY InvAlways, PTL DEF IInv

(* Once a Project turn has begun to insert, it ends with a new conversation  *)
(* that was read twice and is reserved, with a marked lease, or with the     *)
(* runtime replaced, and its caller has heard nothing before.                *)
THEOREM ProjectsFailClosed == Spec => ProjectTurnsFailClosed
<1>. DEFINE A == kind = "PROJECT" /\ pc \notin {"preflight", "done"} =>
                   IF pc' = "done"
                     THEN \/ outcome' = "created" /\ reserved' = {locator} /\ locator \notin known
                          \/ outcome' = "uncertain" /\ marked'
                          \/ outcome' = "changed" /\ control = "changed"
                     ELSE delivery'.heard = <<>>
<1>1. IInv /\ [Next]_vars => [A]_vars
  <2>. SUFFICES ASSUME IInv, [Next]_vars, kind = "PROJECT", pc \notin {"preflight", "done"}
                PROVE  A \/ UNCHANGED vars
    BY DEF A
  <2>1. /\ delivery.heard = <<>> /\ delivery.deferred
    BY DEF IInv, DeliveryInv, Concatenates
  <2>2. CASE TurnStep
    <3>1. CASE Ends
      BY <3>1 DEF Ends, Fails, Succeeds, A
    <3>2. CASE GoesOn
      BY <2>1, <3>2 DEF GoesOn, Delivered, DeliveredUpTo, Awaiting, A
    <3>. QED
      BY <2>2, <3>1, <3>2, TurnStepEndsOrGoesOn
  <2>3. CASE NetworkEvent \/ CallerAborts \/ ControlChanges \/ Tick \/ Confirm \/ Rollback
    <3>1. UNCHANGED <<pc, delivery>>
      BY <2>3 DEF NetworkEvent, CallerAborts, ControlChanges, Tick, Confirm, Rollback, ownVars,
                  settledVars
    <3>. QED
      BY <2>1, <3>1 DEF A
  <2>. QED
    BY <2>2, <2>3 DEF Next
<1>2. Spec => [][A]_vars
  BY <1>1, InvAlways, PTL DEF Spec
<1>. QED
  BY <1>2 DEF ProjectTurnsFailClosed, A

(* Where the turn tells its caller something, it stays silent as it should. *)
LEMMA StepStaysSilent ==
  ASSUME IInv, [Next]_vars
  PROVE  (aborted => delivery'.heard = delivery.heard) /\ StaysSilent(delivery')
<1>1. ASSUME delivery'.heard = delivery.heard, Len(delivery.heard) \in Nat
      PROVE  StaysSilent(delivery')
  BY <1>1 DEF StaysSilent, Taken
<1>2. Len(delivery.heard) \in Nat
  <2>1. IsDelivery(delivery)
    BY DEF IInv, DeliveryInv
  <2>. QED
    BY <2>1 DEF IsDelivery, DeliveryRecord
<1>3. CASE TurnStep /\ pc # "preflight"
  <2>1. pc \in Awaiting /\ (Ends \/ GoesOn)
    BY <1>3, TurnStepEndsOrGoesOn
  <2>2. CASE Ends
    BY <2>2 DEF Ends, Fails, Succeeds, Told
  <2>3. CASE GoesOn
    <3>1. CASE UNCHANGED delivery
      BY <1>1, <1>2, <3>1
    <3>2. CASE Delivered(delivery, delivery') /\ (aborted => delivery'.heard = delivery.heard)
      BY <2>1, <3>2, DeliveredIsTold DEF IInv, Told
    <3>. QED
      BY <2>3, <3>1, <3>2 DEF GoesOn
  <2>. QED
    BY <2>1, <2>2, <2>3
<1>4. CASE TurnStep /\ pc = "preflight"
  <2>1. UNCHANGED delivery
    BY <1>4, FirstStep, PreflightFailsEnds DEF Preflight, PreflightEnds
  <2>. QED
    BY <1>1, <1>2, <2>1
<1>5. CASE ~ TurnStep
  <2>1. UNCHANGED delivery
    BY <1>5 DEF Next, NetworkEvent, CallerAborts, ControlChanges, Tick, Confirm, Rollback, ownVars,
                settledVars, vars
  <2>. QED
    BY <1>1, <1>2, <2>1
<1>. QED
  BY <1>3, <1>4, <1>5

(* A caller that has cancelled hears nothing in any later step.  One that    *)
(* cancels while it takes an event hears at most what the code still has in  *)
(* hand: the other deltas of that poll, but neither FINAL_TEXT nor           *)
(* COMPLETED; after FINAL_TEXT, COMPLETED; and of a Project turn, FINAL_TEXT *)
(* but never COMPLETED.                                                      *)
THEOREM CancellationIsHeeded == Spec => CancellationEndsTheStream
<1>. DEFINE h == delivery'.heard
            A == /\ aborted => h = delivery.heard
                 /\ \A i, j \in Taken(delivery') : i < j /\ h[i].left => MayFollow(h[i], h[j])
<1>1. IInv /\ [Next]_vars => [A]_vars
  <2>. SUFFICES ASSUME IInv, [Next]_vars PROVE A
    BY DEF A
  <2>. QED
    BY StepStaysSilent DEF StaysSilent
<1>2. Spec => [][A]_vars
  <2>. HIDE DEF A
  <2>. QED
    BY <1>1, InvAlways, PTL DEF Spec
<1>. QED
  BY <1>2 DEF CancellationEndsTheStream, A

-----------------------------------------------------------------------------
(* The types of what the turn keeps for itself.                             *)

PolledStates == {"NONE", "ACTIVE", "FINISHED"}

ClockTyped == age \in 0..2 /\ polledAge \in 0..2 /\ polled \in PolledStates

OwnTyped ==
  /\ kind \in AllKinds
  /\ control \in {"ok", "lost", "changed"}
  /\ aborted \in BOOLEAN /\ marked \in BOOLEAN
  /\ ClockTyped
  /\ locator \in Locators \cup {None}
  /\ known \subseteq Locators /\ reserved \subseteq Locators
  /\ outcome \in Outcomes

LEMMA InitIsTyped == Init => OwnTyped
<1>. SUFFICES ASSUME Init PROVE OwnTyped
  OBVIOUS
<1>1. kind \in AllKinds /\ locator \in Locators \cup {None} /\ ClockTyped
  BY KindsAssumption DEF Init, ClockTyped, PolledStates
<1>2. known \subseteq Locators
  <2>1. known \in {{}} \/ known \in SUBSET Locators
    BY DEF Init
  <2>. QED
    BY <2>1
<1>3. /\ control = "ok" /\ aborted = FALSE /\ marked = FALSE /\ reserved = {}
      /\ outcome = "pending"
  BY DEF Init
<1>. QED
  BY <1>1, <1>2, <1>3 DEF OwnTyped, Outcomes

LEMMA SettleTypes ==
  ASSUME OwnTyped, NEW o \in Outcomes, NEW d, Settle(o, d), marked' \in BOOLEAN,
         known' \subseteq Locators, reserved' \subseteq Locators
  PROVE  OwnTyped'
BY DEF OwnTyped, ClockTyped, PolledStates, Settle

LEMMA FailTypes ==
  ASSUME OwnTyped, NEW o \in Outcomes, NEW d, Throw(o, d) \/ FailClosed(d) \/ ThrowOrFailClosed(o, d)
  PROVE  OwnTyped'
<1>1. CASE Throw(o, d)
  BY <1>1, SettleTypes DEF Throw, OwnTyped, registryVars
<1>2. CASE FailClosed(d)
  BY <1>2, SettleTypes DEF FailClosed, OwnTyped, registryVars, Outcomes
<1>. QED
  BY <1>1, <1>2 DEF ThrowOrFailClosed

LEMMA UnreadableTypes ==
  ASSUME OwnTyped, NEW d, Unreadable(d)
  PROVE  OwnTyped'
BY FailTypes DEF Unreadable, Outcomes

LEMMA AwaitTypes ==
  ASSUME OwnTyped, NEW p, NEW d, Await(p, d), ClockTyped',
         locator' \in Locators \cup {None}, UNCHANGED registryVars
  PROVE  OwnTyped'
BY DEF OwnTyped, Await, Gone, registryVars

LEMMA SleepTypes ==
  ASSUME OwnTyped, NEW d, Sleep(d), age' \in 0..2,
         polled' \in PolledStates, locator' \in Locators \cup {None}
  PROVE  OwnTyped'
<1>1. ClockTyped'
  BY DEF Sleep, ClockTyped
<1>. QED
  BY <1>1, AwaitTypes DEF Sleep

LEMMA NowIsAnAge == OwnTyped => Now \in 0..2
BY DEF OwnTyped, ClockTyped, Now

LEMMA NewConversationTypes ==
  ASSUME OwnTyped, NEW d, PollNewConversation(d),
         write.lifecycle \in PolledStates
  PROVE  OwnTyped'
<1>1. /\ locator \in Locators \cup {None} /\ Now \in 0..2
      /\ "aborted" \in Outcomes
  BY NowIsAnAge DEF OwnTyped, Outcomes
<1>2. CASE /\ \E p \in {"locating", "revalidating"} : Await(p, d)
           /\ Seen /\ polledAge' \in {Now, 0} /\ UNCHANGED <<locator, registryVars>>
  <2>1. ClockTyped'
    BY <1>1, <1>2 DEF ClockTyped, Seen
  <2>. QED
    BY <1>1, <1>2, <2>1, AwaitTypes
<1>3. CASE Sleep(d) /\ Seen /\ UNCHANGED locator
  BY <1>1, <1>3, SleepTypes DEF Seen
<1>4. CASE ThrowOrFailClosed("aborted", d)
  BY <1>1, <1>4, FailTypes
<1>. QED
  BY <1>2, <1>3, <1>4 DEF PollNewConversation

LEMMA WrittenTypes ==
  ASSUME OwnTyped, NEW d, NEW reply, PollWritten(d, reply),
         write.lifecycle \in {"ACTIVE", "FINISHED", "FAILED"}
  PROVE  OwnTyped'
<1>1. /\ locator \in Locators \cup {None} /\ Now \in 0..2
      /\ {"aborted", "writeFailed", "responseFailed", "existing", "uncertain"} \subseteq Outcomes
  BY NowIsAnAge DEF OwnTyped, Outcomes
<1>2. CASE write.lifecycle # "FAILED" /\ Sleep(d) /\ Seen /\ UNCHANGED locator
  BY <1>1, <1>2, SleepTypes DEF Seen, PolledStates
<1>3. CASE write.lifecycle # "FAILED" /\ PollNewConversation(d)
  BY <1>3, NewConversationTypes DEF PolledStates
<1>4. CASE \E o \in Outcomes, e \in {d, FinalizeResponseDelivery(d, reply)} :
             Throw(o, e) \/ FailClosed(e) \/ ThrowOrFailClosed(o, e)
  BY <1>4, FailTypes
<1>5. \/ write.lifecycle # "FAILED" /\ Sleep(d) /\ Seen /\ UNCHANGED locator
      \/ write.lifecycle # "FAILED" /\ PollNewConversation(d)
      \/ \E o \in Outcomes, e \in {d, FinalizeResponseDelivery(d, reply)} :
           Throw(o, e) \/ FailClosed(e) \/ ThrowOrFailClosed(o, e)
  BY <1>1 DEF PollWritten, PollThreadFinished, PollThreadActive
<1>. QED
  BY <1>2, <1>3, <1>4, <1>5

LEMMA PollTypes ==
  ASSUME OwnTyped, write.lifecycle \in {"NONE", "ACTIVE", "FINISHED", "FAILED"}, Poll
  PROVE  OwnTyped'
<1>1. CASE Unreadable(delivery)
  BY <1>1, UnreadableTypes
<1>2. CASE ~ Unreadable(delivery)
  <2>1. PICK reply \in Replies :
          LET u    == UpdateDelivery(delivery, aborted, reply)
              d    == IF write.lifecycle = "NONE" THEN u ELSE ApplyResponseDeadline(u, aborted, Now)
          IN IF write.lifecycle = "NONE" THEN PollUnwritten(d) ELSE PollWritten(d, reply)
    BY <1>2 DEF Poll
  <2>. DEFINE u    == UpdateDelivery(delivery, aborted, reply)
              d    == IF write.lifecycle = "NONE" THEN u ELSE ApplyResponseDeadline(u, aborted, Now)
  <2>2. IF write.lifecycle = "NONE" THEN PollUnwritten(d) ELSE PollWritten(d, reply)
    BY <2>1
  <2>. HIDE DEF u, d
  <2>4. CASE PollUnwritten(d)
    <3>1. CASE FailClosed(d)
      BY <3>1, FailTypes DEF Outcomes
    <3>2. CASE Sleep(d) /\ UNCHANGED <<age, polled, locator>>
      BY <3>2, SleepTypes DEF OwnTyped, ClockTyped
    <3>. QED
      BY <2>4, <3>1, <3>2 DEF PollUnwritten
  <2>5. CASE write.lifecycle # "NONE" /\ PollWritten(d, reply)
    BY <2>5, WrittenTypes
  <2>. QED
    BY <2>2, <2>4, <2>5
<1>. QED
  BY <1>1, <1>2

LEMMA LocateTypes ==
  ASSUME OwnTyped, Locate
  PROVE  OwnTyped'
<1>1. CASE Unreadable(delivery)
  BY <1>1, UnreadableTypes
<1>2. CASE ~ Unreadable(delivery)
  <2>1. PICK reply \in Replies, l \in Locators \cup {None} :
          LET d    == UpdateDelivery(delivery, aborted, reply)
          IN IF write.lifecycle = "FAILED" THEN ThrowOrFailClosed("writeFailed", d)
             ELSE IF write.lifecycle = "ACTIVE" \/ (l # None /\ polled = "ACTIVE") THEN
                    Sleep(d) /\ locator' = l /\ UNCHANGED <<age, polled>>
             ELSE IF Gone(d) THEN ThrowOrFailClosed("aborted", d)
             ELSE IF l # None THEN Await("revalidating", d) /\ locator' = l /\ polledAge' = 0
                              /\ UNCHANGED <<age, polled, registryVars>>
             ELSE IF polled = "FINISHED" /\ polledAge >= 1 THEN ThrowOrFailClosed("notCreated", d)
             ELSE Sleep(d) /\ UNCHANGED <<locator, age, polled>>
    BY <1>2 DEF Locate
  <2>. DEFINE d    == UpdateDelivery(delivery, aborted, reply)
  <2>2. {"writeFailed", "aborted", "notCreated"} \subseteq Outcomes
    BY DEF Outcomes
  <2>3. \/ \E o \in Outcomes : ThrowOrFailClosed(o, d)
        \/ Sleep(d) /\ locator' \in {l, locator} /\ UNCHANGED <<age, polled>>
        \/ /\ Await("revalidating", d) /\ locator' = l /\ polledAge' = 0
           /\ UNCHANGED <<age, polled, registryVars>>
    BY <2>1, <2>2
  <2>. HIDE DEF d
  <2>5. CASE \E o \in Outcomes : ThrowOrFailClosed(o, d)
    BY <2>5, FailTypes
  <2>6. CASE Sleep(d) /\ locator' \in {l, locator} /\ UNCHANGED <<age, polled>>
    BY <2>6, SleepTypes DEF OwnTyped, ClockTyped
  <2>7. CASE /\ Await("revalidating", d) /\ locator' = l /\ polledAge' = 0
             /\ UNCHANGED <<age, polled, registryVars>>
    <3>1. ClockTyped'
      BY <2>7 DEF OwnTyped, ClockTyped
    <3>. QED
      BY <2>7, <3>1, AwaitTypes
  <2>. QED
    BY <2>3, <2>5, <2>6, <2>7
<1>. QED
  BY <1>1, <1>2

LEMMA RevalidateTypes ==
  ASSUME OwnTyped, Revalidate
  PROVE  OwnTyped'
<1>1. CASE Unreadable(delivery)
  BY <1>1, UnreadableTypes
<1>2. CASE ~ Unreadable(delivery)
  <2>1. PICK reply \in Replies, l \in Locators \cup {None} :
          LET d    == UpdateDelivery(delivery, aborted, reply)
          IN IF Gone(d) THEN ThrowOrFailClosed("aborted", d)
             ELSE IF Confirms(l) /\ ~ d.failed /\ ~ d.semantic THEN
                    Sleep(d) /\ UNCHANGED <<age, polled, locator>>
             ELSE IF Confirms(l) /\ kind = "FRESH" THEN ConcludeFresh(l, d, reply)
             ELSE IF Confirms(l) /\ kind = "PROJECT" THEN ConcludeProject(l, d, reply)
             ELSE IF age >= 1 THEN ThrowOrFailClosed("notCreated", d)
             ELSE Sleep(d) /\ UNCHANGED <<age, polled, locator>>
    BY <1>2 DEF Revalidate
  <2>. DEFINE d    == UpdateDelivery(delivery, aborted, reply)
  <2>2. {"aborted", "notCreated", "responseFailed", "existing", "created"} \subseteq Outcomes
    BY DEF Outcomes
  <2>3. \/ \E o \in Outcomes : ThrowOrFailClosed(o, d)
        \/ Sleep(d) /\ UNCHANGED <<age, polled, locator>>
        \/ Confirms(l) /\ (ConcludeFresh(l, d, reply) \/ ConcludeProject(l, d, reply))
    BY <2>1, <2>2
  <2>. HIDE DEF d
  <2>5. CASE \E o \in Outcomes : ThrowOrFailClosed(o, d)
    BY <2>5, FailTypes
  <2>6. CASE Sleep(d) /\ UNCHANGED <<age, polled, locator>>
    BY <2>6, SleepTypes DEF OwnTyped, ClockTyped
  <2>7. CASE Confirms(l) /\ ConcludeFresh(l, d, reply)
    <3>1. l \in Locators
      BY <2>7 DEF Confirms
    <3>2. \E o \in Outcomes : \E e : Settle(o, e) /\ known' = known \cup {l} /\ UNCHANGED <<reserved, marked>>
      BY <2>2, <2>7 DEF ConcludeFresh
    <3>. QED
      BY <3>1, <3>2, SettleTypes DEF OwnTyped
  <2>8. CASE Confirms(l) /\ ConcludeProject(l, d, reply)
    <3>1. l \in Locators
      BY <2>8 DEF Confirms
    <3>2. \/ \E e : FailClosed(e)
          \/ \E e : Settle("created", e) /\ reserved' = {l} /\ UNCHANGED <<known, marked>>
      BY <2>8 DEF ConcludeProject
    <3>. QED
      BY <2>2, <3>1, <3>2, SettleTypes, FailTypes DEF OwnTyped
  <2>. QED
    BY <2>3, <2>5, <2>6, <2>7, <2>8
<1>. QED
  BY <1>1, <1>2

(* The steps before the first poll, and those of others. *)
LEMMA InputTypes ==
  ASSUME OwnTyped, Preflight \/ PreflightFails \/ Insert \/ InsertFails \/ Send \/ SendFails
  PROVE  OwnTyped'
<1>. DEFINE Kept == UNCHANGED <<kind, control, aborted, clockVars, locator, registryVars, marked, outcome>>
<1>1. CASE Kept
  BY <1>1 DEF OwnTyped, ClockTyped, clockVars, registryVars
<1>2. CASE Unreadable(delivery)
  BY <1>2, UnreadableTypes
<1>3. CASE \E o \in Outcomes : Throw(o, delivery) \/ FailClosed(delivery) \/ ThrowOrFailClosed(o, delivery)
  BY <1>3, FailTypes
<1>4. {"changed", "uncertain", "inputFailed", "aborted", "disconnected"} \subseteq Outcomes
  BY DEF Outcomes
<1>5. Preflight \/ Send => Kept
  BY DEF Preflight, Send
<1>6. PreSubmitWrite => \E o \in Outcomes : Throw(o, delivery) \/ FailClosed(delivery)
  BY <1>4 DEF PreSubmitWrite
<1>7. PreflightFails \/ SendFails => \E o \in Outcomes : Throw(o, delivery) \/ FailClosed(delivery)
  BY <1>4 DEF PreflightFails, SendFails
<1>8. Insert => \/ Kept \/ Unreadable(delivery) \/ PreSubmitWrite
                \/ \E o \in Outcomes : ThrowOrFailClosed(o, delivery)
  BY <1>4 DEF Insert
<1>9. InsertFails => \/ Unreadable(delivery) \/ PreSubmitWrite
                     \/ \E o \in Outcomes : Throw(o, delivery) \/ FailClosed(delivery)
  BY <1>4 DEF InsertFails
<1>. HIDE DEF Kept
<1>. QED
  BY <1>1, <1>2, <1>3, <1>5, <1>6, <1>7, <1>8, <1>9

LEMMA OthersKeepTypes ==
  ASSUME OwnTyped,
         Confirm \/ Rollback \/ NetworkEvent \/ CallerAborts \/ ControlChanges \/ Tick \/ UNCHANGED vars
  PROVE  OwnTyped'
<1>1. CASE NetworkEvent \/ CallerAborts \/ ControlChanges \/ UNCHANGED vars
  BY <1>1 DEF OwnTyped, ClockTyped, NetworkEvent, CallerAborts, ControlChanges, vars, ownVars,
              registryVars, clockVars
<1>2. CASE Confirm \/ Rollback
  BY <1>2 DEF OwnTyped, ClockTyped, Confirm, Rollback, settledVars, clockVars
<1>3. CASE Tick
  <2>1. age' \in 0..2
    BY <1>3 DEF Tick, OwnTyped, ClockTyped
  <2>. QED
    BY <1>3, <2>1 DEF OwnTyped, ClockTyped, Tick, ownVars, registryVars
<1>. QED
  BY <1>1, <1>2, <1>3

LEMMA StepKeepsTypes == IInv /\ OwnTyped /\ [Next]_vars => OwnTyped'
<1>. SUFFICES ASSUME IInv, OwnTyped, [Next]_vars PROVE OwnTyped'
  OBVIOUS
<1>1. write.lifecycle \in {"NONE", "ACTIVE", "FINISHED", "FAILED"}
  BY DEF IInv, Writes!WriteInv, Writes!WriteTyped, Writes!WriteRecord
<1>. QED
  BY <1>1, PollTypes, LocateTypes, RevalidateTypes, InputTypes, OthersKeepTypes DEF Next, TurnStep

LEMMA TypesHold == IInv /\ OwnTyped => TypeOK
<1>. SUFFICES ASSUME IInv, OwnTyped PROVE TypeOK
  OBVIOUS
<1>1. IsDelivery(delivery) /\ pc \in Awaiting \cup {"preflight", "done"}
  BY DEF IInv, DeliveryInv, SeenInv
<1>2. \A i \in DOMAIN delivery.heard : delivery.heard[i].type \in EventTypes
  <2>1. delivery.heard \in Seq(Event) /\ \A e \in Event : e.type \in EventTypes
    BY <1>1 DEF IsDelivery, DeliveryRecord, Event
  <2>2. \A i \in DOMAIN delivery.heard : delivery.heard[i] \in Event
    BY <2>1
  <2>. QED
    BY <2>1, <2>2
<1>3. /\ DOMAIN delivery = {"deferred", "semantic", "failed", "discarded", "text", "heard"}
      /\ {delivery.deferred, delivery.semantic, delivery.failed, delivery.discarded} \subseteq BOOLEAN
      /\ Len(delivery.text) <= MaxText
  BY <1>1 DEF IsDelivery, DeliveryRecord
<1>. QED
  BY <1>1, <1>2, <1>3 DEF TypeOK, OwnTyped, ClockTyped, PolledStates, Awaiting

(* Whatever its caller, its page and its clock do, the turn keeps its types, *)
(* and never accumulates more text than maxAccumulatedTextChars, nor hands   *)
(* out a conversation outside its scope.                                     *)
THEOREM TextStaysBounded == Spec => []TypeOK
BY InitIsTyped, StepKeepsTypes, InvAlways, TypesHold, PTL DEF Spec

-----------------------------------------------------------------------------
(* The contract of a turn.  Each step maps to a step of TurnContract, or to *)
(* none.                                                                    *)

View == <<kind # "THREAD", Page, LastHeard(delivery.heard), Verdict>>

LEMMA PendingIsPending == ASSUME IInv PROVE (Verdict = "pending") <=> pc # "done"
BY DEF IInv, OutcomeInv, Verdict

LEMMA EndsImplements ==
  ASSUME IInv, Ends, pc # "done"
  PROVE  Contract!Next
<1>1. Verdict = "pending" /\ marked = FALSE
  BY PendingIsPending DEF IInv, OutcomeInv
<1>2. (kind # "THREAD")' = (kind # "THREAD") /\ Page' = Page
  BY DEF Ends, Page, WriteInFlight, Obs!InFlight
<1>3. LastHeard(delivery.heard) \in {"nothing", "text"}
  BY ConcatenationIsText DEF IInv, DeliveryInv
<1>4. CASE Fails
  <2>1. /\ LastHeard(delivery.heard)' \in {LastHeard(delivery.heard), "text", "whole"}
        /\ Page = "idle" => LastHeard(delivery.heard)' = LastHeard(delivery.heard)
    BY <1>4 DEF Fails, Told, Page
  <2>2. \/ Verdict' = "uncertain" \/ Verdict' = "replaced"
        \/ Verdict' = "failure" /\ (Page # "writing" \/ kind = "THREAD")
    BY <1>1, <1>4 DEF Fails, Verdict, Errors, Outcomes, Success, Quiet, Page
  <2>. QED
    BY <1>1, <1>2, <2>1, <2>2
       DEF Contract!Next, Contract!FailClosed, Contract!FailSafely, Contract!Abandon,
           Contract!GiveUp, Contract!Pending
<1>5. CASE Succeeds
  <2>1. Page = "settled" /\ Verdict' = "success" /\ LastHeard(delivery.heard)' = "completed"
    BY <1>1, <1>5 DEF Succeeds, HeardWhole, Page, Quiet, Verdict, Success
  <2>. QED
    BY <1>1, <1>2, <2>1 DEF Contract!Next, Contract!Succeed, Contract!Pending
<1>. QED
  BY <1>4, <1>5 DEF Ends

LEMMA GoesOnImplements ==
  ASSUME IInv, GoesOn, pc \in Awaiting
  PROVE  Contract!Next \/ UNCHANGED View
<1>1. Verdict = "pending" /\ UNCHANGED <<Verdict, Page, kind # "THREAD">>
  BY PendingIsPending DEF GoesOn, Verdict, Page, WriteInFlight, Obs!InFlight, Awaiting
<1>2. CASE delivery'.heard = delivery.heard
  BY <1>1, <1>2 DEF View
<1>3. CASE delivery'.heard # delivery.heard
  <2>1. Delivered(delivery, delivery') /\ Told(delivery')
    <3>1. Delivered(delivery, delivery') /\ (aborted => delivery'.heard = delivery.heard)
      BY <1>3 DEF GoesOn
    <3>. QED
      BY <3>1, DeliveredIsTold DEF IInv
  <2>2. Page # "idle"
    BY <1>3, <2>1 DEF Told, Page
  <2>3. LastHeard(delivery.heard) \in {"nothing", "text"}
    BY ConcatenationIsText DEF IInv, DeliveryInv, Awaiting
  <2>4. LastHeard(delivery.heard)' \in {"nothing", "text"}
    <3>1. IsDelivery(delivery') /\ Concatenates(delivery')
      BY <2>1 DEF Delivered, DeliveredUpTo, IInv, DeliveryInv, Awaiting
    <3>. QED
      BY <3>1, ConcatenationIsText
  <2>5. LastHeard(delivery.heard)' \in {LastHeard(delivery.heard), "text"}
    BY <2>1, <2>4 DEF Told
  <2>. QED
    BY <1>1, <2>2, <2>3, <2>5 DEF View, Contract!Next, Contract!Hear, Contract!Pending
<1>. QED
  BY <1>2, <1>3

LEMMA NetworkImplements ==
  ASSUME IInv, NetworkEvent
  PROVE  Contract!Next \/ UNCHANGED View
<1>1. /\ write.armed /\ Obs!Network /\ UNCHANGED <<kind, delivery, marked, outcome, pc>>
  BY DEF NetworkEvent, ownVars
<1>2. Verdict = "pending" /\ UNCHANGED <<Verdict, LastHeard(delivery.heard), kind # "THREAD">>
  BY <1>1, PendingIsPending DEF Verdict, IInv, SeenInv
<1>3. (sent' = {} => sent = {}) /\ (sent = {} => sent' = {} \/ Page' = "writing")
  BY <1>1, SentGrows DEF Page, IInv
<1>4. Page \in {"idle", "writing", "settled"} /\ (Page = "idle" => sent = {})
  BY DEF Page
<1>5. CASE sent' = {}
  <2>1. Page = "idle" /\ Page' = "idle"
    BY <1>3, <1>5 DEF Page, WriteInFlight
  <2>. QED
    BY <1>2, <2>1 DEF View
<1>6. CASE sent' # {}
  <2>1. Page' \in {"writing", "settled"} /\ (Page = "idle" => Page' = "writing")
    BY <1>3, <1>4, <1>6 DEF Page
  <2>. QED
    BY <1>2, <2>1 DEF Contract!Next, Contract!PageStep, Contract!Pending
<1>. QED
  BY <1>5, <1>6

LEMMA RollbackImplements ==
  ASSUME IInv, Rollback
  PROVE  Contract!Next
<1>1. /\ outcome = "created" /\ marked = FALSE /\ kind = "PROJECT" /\ marked' = TRUE
      /\ UNCHANGED <<kind, outcome, net, sent, delivery>>
  BY DEF Rollback, IInv, OutcomeInv, settledVars, observationVars
<1>2. Verdict = "success" /\ Verdict' = "uncertain"
  BY <1>1 DEF Verdict, Success
<1>3. UNCHANGED <<Page, LastHeard(delivery.heard), kind # "THREAD">>
  BY <1>1 DEF Page, WriteInFlight, Obs!InFlight
<1>. QED
  BY <1>1, <1>2, <1>3 DEF Contract!Next, Contract!TakeBack

LEMMA OthersImplement ==
  ASSUME IInv, CallerAborts \/ ControlChanges \/ Tick \/ Confirm \/ UNCHANGED vars
  PROVE  UNCHANGED View
<1>1. UNCHANGED <<net, sent, kind, delivery, outcome, marked>>
  BY DEF CallerAborts, ControlChanges, Tick, Confirm, vars, ownVars, observationVars, settledVars
<1>. QED
  BY <1>1 DEF View, Page, Verdict, WriteInFlight, Obs!InFlight

LEMMA PreflightImplements ==
  ASSUME IInv, Preflight \/ PreflightFails
  PROVE  Contract!Next \/ UNCHANGED View
<1>1. pc = "preflight" /\ sent = {} /\ Verdict = "pending" /\ marked = FALSE
  BY PendingIsPending DEF IInv, SeenInv, OutcomeInv, Preflight, PreflightFails
<1>2. sent' = {} /\ UNCHANGED <<kind, delivery, marked>>
  BY <1>1, PreflightFailsEnds DEF Preflight, Obs!ArmObservation, PreflightEnds
<1>3. Page = "idle" /\ UNCHANGED <<Page, LastHeard(delivery.heard), kind # "THREAD">>
  BY <1>1, <1>2 DEF Page, WriteInFlight
<1>4. CASE Preflight
  <2>1. UNCHANGED outcome
    BY <1>4 DEF Preflight
  <2>. QED
    BY <1>2, <1>3, <2>1 DEF View, Verdict
<1>5. CASE PreflightFails
  <2>1. Verdict' \in {"failure", "replaced"}
    BY <1>1, <1>2, <1>5, PreflightFailsEnds DEF PreflightEnds, Verdict, Success
  <2>. QED
    BY <1>1, <1>3, <2>1
       DEF Contract!Next, Contract!FailClosed, Contract!FailSafely, Contract!GiveUp, Contract!Pending
<1>. QED
  BY <1>4, <1>5

(* The turn of TurnExecutor.ts keeps what the scheduler and the caller rely   *)
(* on: its caller hears completion exactly when the turn succeeds, it         *)
(* succeeds only with its write at an end, and it fails without a mark only   *)
(* then, or as the cancellation of a turn of an existing thread.              *)
THEOREM ImplementsContract == Spec => RefinesContract
<1>1. Init => Contract!Init
  <2>. SUFFICES ASSUME Init PROVE Contract!Init
    OBVIOUS
  <2>1. Page = "idle" /\ Verdict = "pending"
    BY DEF Init, Page, WriteInFlight, Verdict
  <2>2. LastHeard(delivery.heard) = "nothing"
    BY DEF Init, NewDelivery, LastHeard
  <2>. QED
    BY <2>1, <2>2 DEF Contract!Init
<1>2. IInv /\ [Next]_vars => [Contract!Next]_(Contract!vars)
  <2>. SUFFICES ASSUME IInv, [Next]_vars PROVE Contract!Next \/ UNCHANGED View
    BY DEF Contract!vars, View
  <2>1. CASE TurnStep /\ pc # "preflight"
    BY <2>1, TurnStepEndsOrGoesOn, EndsImplements, GoesOnImplements DEF Awaiting
  <2>2. CASE TurnStep /\ pc = "preflight"
    BY <2>2, FirstStep, PreflightImplements
  <2>3. CASE NetworkEvent
    BY <2>3, NetworkImplements
  <2>4. CASE Rollback
    BY <2>4, RollbackImplements
  <2>5. CASE CallerAborts \/ ControlChanges \/ Tick \/ Confirm \/ UNCHANGED vars
    BY <2>5, OthersImplement
  <2>. QED
    BY <2>1, <2>2, <2>3, <2>4, <2>5 DEF Next
<1>. QED
  BY <1>1, <1>2, InvAlways, PTL DEF Spec, RefinesContract, Contract!Spec

=============================================================================

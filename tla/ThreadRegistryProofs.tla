------------------------- MODULE ThreadRegistryProofs -------------------------
(***************************************************************************)
(* Proofs about the registry, for every set of handles, locators,          *)
(* transactions and waiting callers.                                       *)
(*                                                                         *)
(* MapsAgree is inductive once a transaction is tied to the handle it      *)
(* reserved (TransactionInv).  What a waiting caller is told follows from  *)
(* WaitInv: a pending entry it holds is still the entry of its handle, and *)
(* a committed one has become the conversation of its handle.              *)
(***************************************************************************)
EXTENDS ThreadRegistry, TLAPS

(* A provisional entry belongs to a pending transaction, and to one handle. *)
TransactionInv ==
  /\ \A h \in Handles : provisional[h] # None =>
       settlement[provisional[h].transaction] = "pending"
  /\ \A g, h \in Handles :
       /\ provisional[g] # None
       /\ provisional[h] # None
       /\ provisional[g].transaction = provisional[h].transaction
       => g = h

(* What the entry a caller awaits has become, by the state of its promise. *)
Tracks(w) ==
  LET e == w.entry
      s == settlement[e.transaction]
  IN  /\ w.handle \in Handles
      /\ e \in Entry
      /\ s # "unused"
      /\ s = "pending" => provisional[w.handle] = e
      /\ s = "committed" => committed[w.handle] = e.locator

WaitInv ==
  \A w \in Waiters : waits[w].answer # "none" => Tracks(waits[w])

IInv ==
  /\ TypeOK
  /\ MapsAgree
  /\ TransactionInv
  /\ WaitInv
  /\ WaitersAreToldTheTruth

Parts == TypeOK /\ MapsAgree /\ TransactionInv

-----------------------------------------------------------------------------
(* None is no entry: `undefined` is distinguished from every map value. *)
LEMMA EntryFields ==
  ASSUME TypeOK, NEW h \in Handles, provisional[h] # None
  PROVE  /\ provisional[h] \in Entry
         /\ provisional[h].locator \in Locators
         /\ provisional[h].transaction \in Transactions
BY DEF TypeOK, Entry

LEMMA InitEstablishes == Init => IInv
<1> SUFFICES ASSUME Init PROVE IInv
  OBVIOUS
<1> USE DEF Init, RegistryInit, NoWait
<1>1. TypeOK
  BY DEF TypeOK, Settlement
<1>2. MapsAgree /\ TransactionInv
  BY DEF MapsAgree, TransactionInv, HandleExists, HasLocator
<1>3. WaitInv /\ WaitersAreToldTheTruth
  BY DEF WaitInv, WaitersAreToldTheTruth
<1> QED BY <1>1, <1>2, <1>3 DEF IInv

(* registerWithStatus() of a new locator. *)
LEMMA RegisterPreserves ==
  ASSUME Parts, NEW l \in Locators, NEW h \in Handles, Register(l, h), UNCHANGED waits
  PROVE  Parts'
<1> USE NoneAssumption DEF Parts, Register
<1>1. TypeOK'
  BY DEF TypeOK
<1>2. MapsAgree'
  BY DEF TypeOK, MapsAgree, HandleExists, HasLocator, LocatorOf
<1>3. TransactionInv'
  BY DEF TransactionInv
<1> QED BY <1>1, <1>2, <1>3

(* reserveProvisionalWithStatus() of a new locator. *)
LEMMA ReservePreserves ==
  ASSUME Parts, NEW l \in Locators, NEW h \in Handles, NEW t \in Transactions,
         ReserveProvisional(l, h, t), UNCHANGED waits
  PROVE  Parts'
<1> USE NoneAssumption DEF Parts, ReserveProvisional
<1> DEFINE e == [locator |-> l, transaction |-> t]
<1>1. e \in Entry /\ e.locator = l /\ e.transaction = t
  BY DEF Entry
<1>2. /\ provisional' = [provisional EXCEPT ![h] = e]
      /\ \A g \in Handles : provisional'[g] = IF g = h THEN e ELSE provisional[g]
  BY DEF TypeOK
<1>3. \A g \in Handles : provisional[g] # None => provisional[g].transaction # t
  BY DEF TransactionInv
<1> HIDE DEF e
<1>4. TypeOK'
  BY <1>1, <1>2 DEF TypeOK, Settlement
<1>5. e # None
  BY <1>1
<1>6. MapsAgree'
  BY <1>1, <1>2, <1>5 DEF TypeOK, MapsAgree, HandleExists, HasLocator, LocatorOf
<1>7. TransactionInv'
  BY <1>1, <1>2, <1>3 DEF TransactionInv, TypeOK
<1> QED BY <1>4, <1>6, <1>7

(* commitProvisional() of a transaction still pending. *)
LEMMA CommitPreserves ==
  ASSUME Parts, NEW t \in Transactions, CommitProvisional(t), UNCHANGED waits
  PROVE  Parts'
<1> USE NoneAssumption DEF Parts
<1>1. PICK h \in Handles :
        /\ Holds(h, t)
        /\ provisional' = [provisional EXCEPT ![h] = None]
        /\ committed' = [committed EXCEPT ![h] = provisional[h].locator]
        /\ settlement' = [settlement EXCEPT ![t] = "committed"]
        /\ UNCHANGED handleOf
  BY DEF CommitProvisional
<1>2. /\ provisional[h] # None
      /\ provisional[h].transaction = t
      /\ provisional[h].locator \in Locators
      /\ committed[h] = None
  BY <1>1, EntryFields DEF Holds, MapsAgree
<1>3. TypeOK'
  BY <1>1, <1>2 DEF TypeOK, Settlement
<1>4. \A g \in Handles : LocatorOf(g)' = LocatorOf(g)
  BY <1>1, <1>2 DEF LocatorOf, TypeOK
<1>5. MapsAgree'
  BY <1>1, <1>2, <1>4 DEF TypeOK, MapsAgree, HandleExists, HasLocator
<1>6. TransactionInv'
  BY <1>1, <1>2 DEF TransactionInv, TypeOK
<1> QED BY <1>3, <1>5, <1>6

(* rollbackProvisional() of a transaction still pending. *)
LEMMA RollbackPreserves ==
  ASSUME Parts, NEW t \in Transactions, RollbackProvisional(t), UNCHANGED waits
  PROVE  Parts'
<1> USE NoneAssumption DEF Parts
<1>1. PICK h \in Handles :
        /\ Holds(h, t)
        /\ provisional' = [provisional EXCEPT ![h] = None]
        /\ handleOf' = [l \in Locators |->
              IF l = provisional[h].locator /\ handleOf[l] = h THEN None ELSE handleOf[l]]
        /\ settlement' = [settlement EXCEPT ![t] = "rolledBack"]
        /\ UNCHANGED committed
  BY DEF RollbackProvisional
<1>2. /\ provisional[h] # None
      /\ provisional[h].transaction = t
      /\ provisional[h].locator \in Locators
      /\ committed[h] = None
      /\ handleOf[provisional[h].locator] = h
  BY <1>1, EntryFields DEF Holds, MapsAgree, HandleExists, LocatorOf
<1>3. TypeOK'
  BY <1>1, <1>2 DEF TypeOK, Settlement
<1>4. /\ \A g \in Handles : g # h => LocatorOf(g)' = LocatorOf(g)
      /\ ~ HandleExists(h)'
      /\ \A g \in Handles : g # h => HandleExists(g)' = HandleExists(g)
  BY <1>1, <1>2 DEF LocatorOf, HandleExists, TypeOK
<1>5. \A l \in Locators : HasLocator(l)' => handleOf'[l] = handleOf[l] /\ handleOf[l] # h
  BY <1>1, <1>2 DEF HasLocator, MapsAgree, LocatorOf
<1>6. \A g \in Handles : HandleExists(g)' =>
        g # h /\ LocatorOf(g) \in Locators /\ handleOf[LocatorOf(g)] = g
  BY <1>4, EntryFields DEF MapsAgree, HandleExists, LocatorOf, TypeOK
<1>7. MapsAgree'
  <2>1. \A g \in Handles : committed'[g] = None \/ provisional'[g] = None
    BY <1>1 DEF MapsAgree, TypeOK
  <2>2. \A g \in Handles : HandleExists(g)' => handleOf'[LocatorOf(g)'] = g
    BY <1>1, <1>4, <1>6
  <2>3. \A l \in Locators : HasLocator(l)' => LocatorOf(handleOf[l])' = l
    <3> SUFFICES ASSUME NEW l \in Locators, HasLocator(l)'
                 PROVE  LocatorOf(handleOf[l])' = l
      OBVIOUS
    <3>1. /\ handleOf'[l] = handleOf[l]
          /\ handleOf[l] # h
          /\ HasLocator(l)
          /\ handleOf[l] \in Handles
      BY <1>5 DEF HasLocator, TypeOK
    <3>2. LocatorOf(handleOf[l]) = l
      BY <3>1 DEF MapsAgree
    <3> QED BY <1>1, <3>1, <3>2 DEF LocatorOf, TypeOK
  <2> QED BY <2>1, <2>2, <2>3 DEF MapsAgree
<1>8. TransactionInv'
  BY <1>1, <1>2 DEF TransactionInv, TypeOK
<1> QED BY <1>3, <1>7, <1>8

-----------------------------------------------------------------------------
(* A settlement is final and a settled registration stays: what a caller   *)
(* waits for, and what it was told, survive every registration.            *)
LEMMA WaitsSurvive ==
  ASSUME IInv, Registrations, UNCHANGED waits
  PROVE  WaitInv' /\ WaitersAreToldTheTruth'
<1> USE NoneAssumption DEF IInv
<1>1. SUFFICES ASSUME NEW w \in Waiters, waits[w].answer # "none"
               PROVE  /\ Tracks(waits[w])'
                      /\ waits[w].answer = "registered" =>
                           committed'[waits[w].handle] = waits[w].entry.locator
                      /\ waits[w].answer = "notFound" =>
                           settlement'[waits[w].entry.transaction] = "rolledBack"
  BY DEF WaitInv, WaitersAreToldTheTruth
<1> DEFINE e == waits[w].entry
           g == waits[w].handle
           s == settlement[e.transaction]
<1>2. /\ g \in Handles
      /\ e \in Entry /\ e.locator \in Locators /\ e.transaction \in Transactions
      /\ s # "unused"
      /\ s = "pending" => provisional[g] = e
      /\ s = "committed" => committed[g] = e.locator
      /\ waits[w].answer = "registered" => committed[g] = e.locator
      /\ waits[w].answer = "notFound" => s = "rolledBack"
  BY <1>1 DEF WaitInv, Tracks, WaitersAreToldTheTruth, Entry
<1> HIDE DEF e, g, s
<1>3. SUFFICES /\ settlement'[e.transaction] # "unused"
               /\ settlement'[e.transaction] = "pending" => provisional'[g] = e
               /\ settlement'[e.transaction] = "committed" => committed'[g] = e.locator
               /\ committed[g] = e.locator => committed'[g] = e.locator
               /\ s = "rolledBack" => settlement'[e.transaction] = "rolledBack"
  BY <1>2 DEF Tracks, e, g, s
<1>4. CASE \E l \in Locators, h \in Handles : Register(l, h)
  <2>1. PICK l \in Locators, h \in Handles : Register(l, h)
    BY <1>4
  <2>2. committed[g] = e.locator => g # h
    BY <2>1, <1>2 DEF Register, HandleExists
  <2> QED BY <2>1, <2>2, <1>2 DEF Register, TypeOK, s
<1>5. CASE \E l \in Locators, h \in Handles, t \in Transactions : ReserveProvisional(l, h, t)
  <2>1. PICK l \in Locators, h \in Handles, t \in Transactions : ReserveProvisional(l, h, t)
    BY <1>5
  <2>2. e.transaction # t
    BY <2>1, <1>2 DEF ReserveProvisional, s
  <2>3. provisional[g] = e => g # h
    BY <2>1, <1>2 DEF ReserveProvisional, HandleExists
  <2> QED BY <2>1, <2>2, <2>3, <1>2 DEF ReserveProvisional, TypeOK, s
<1>6. CASE \E t \in Transactions : CommitProvisional(t)
  <2>1. PICK t \in Transactions, h \in Handles :
          /\ Holds(h, t)
          /\ provisional' = [provisional EXCEPT ![h] = None]
          /\ committed' = [committed EXCEPT ![h] = provisional[h].locator]
          /\ settlement' = [settlement EXCEPT ![t] = "committed"]
    BY <1>6 DEF CommitProvisional
  <2>2. /\ committed[h] = None
        /\ settlement[t] = "pending"
    BY <2>1 DEF Holds, MapsAgree, TransactionInv
  <2>3. CASE e.transaction = t
    <3>1. s = "pending" /\ provisional[g] = e
      BY <2>2, <2>3, <1>2 DEF s
    <3>2. g = h
      BY <2>1, <2>3, <3>1, <1>2 DEF Holds, TransactionInv
    <3> QED BY <2>1, <2>2, <2>3, <3>1, <3>2, <1>2 DEF TypeOK
  <2>4. CASE e.transaction # t
    <3>1. s = "pending" => g # h
      BY <2>1, <2>4, <1>2 DEF Holds
    <3>2. committed[g] = e.locator => g # h
      BY <2>2, <1>2
    <3> QED BY <3>1, <3>2, <2>1, <2>4, <1>2 DEF TypeOK, s
  <2> QED BY <2>3, <2>4
<1>7. CASE \E t \in Transactions : RollbackProvisional(t)
  <2>1. PICK t \in Transactions, h \in Handles :
          /\ Holds(h, t)
          /\ provisional' = [provisional EXCEPT ![h] = None]
          /\ settlement' = [settlement EXCEPT ![t] = "rolledBack"]
          /\ UNCHANGED committed
    BY <1>7 DEF RollbackProvisional
  <2>2. CASE e.transaction = t
    BY <2>1, <2>2, <1>2 DEF TypeOK, s
  <2>3. CASE e.transaction # t
    <3>1. s = "pending" => g # h
      BY <2>1, <2>3, <1>2 DEF Holds
    <3> QED BY <3>1, <2>1, <2>3, <1>2 DEF TypeOK, s
  <2> QED BY <2>2, <2>3
<1> QED BY <1>4, <1>5, <1>6, <1>7 DEF Registrations

LEMMA NextPreserves == IInv /\ [Next]_vars => IInv'
<1> SUFFICES ASSUME IInv, [Next]_vars PROVE IInv'
  OBVIOUS
<1>1. CASE Registrations /\ UNCHANGED waits
  <2>1. Parts'
    BY <1>1, RegisterPreserves, ReservePreserves, CommitPreserves, RollbackPreserves
    DEF Registrations, Parts, IInv
  <2> QED BY <2>1, <1>1, WaitsSurvive DEF Parts, IInv
<1>2. ASSUME NEW w \in Waiters, NEW h \in Handles, WaitForCommit(w, h)
      PROVE  IInv'
  <2> USE <1>2 DEF WaitForCommit, registryVars
  <2>1. /\ provisional[h] \in Entry
        /\ provisional[h].transaction \in Transactions
        /\ settlement[provisional[h].transaction] = "pending"
    BY EntryFields DEF IInv, TransactionInv
  <2>2. TypeOK'
    BY <2>1 DEF TypeOK, IInv
  <2>3. MapsAgree' /\ TransactionInv'
    BY DEF IInv, MapsAgree, TransactionInv, HandleExists, HasLocator, LocatorOf
  <2>4. \A v \in Waiters : v # w => waits'[v] = waits[v]
    BY DEF IInv, TypeOK
  <2>5. waits'[w] = [handle |-> h, entry |-> provisional[h], answer |-> "waiting"]
    BY DEF IInv, TypeOK
  <2>6. WaitInv' /\ WaitersAreToldTheTruth'
    BY <2>1, <2>4, <2>5 DEF IInv, WaitInv, WaitersAreToldTheTruth, Tracks
  <2> QED BY <2>2, <2>3, <2>6 DEF IInv
<1>3. ASSUME NEW w \in Waiters, WaitEnds(w)
      PROVE  IInv'
  <2> USE <1>3 DEF WaitEnds, registryVars
  <2>1. PICK a \in {"registered", "notFound", "aborted"} :
          /\ Decides(waits[w].entry.transaction, a)
          /\ waits' = [waits EXCEPT ![w].answer = a]
    OBVIOUS
  <2>2. Tracks(waits[w])
    BY DEF IInv, WaitInv
  <2>3. TypeOK'
    BY <2>1 DEF TypeOK, IInv
  <2>4. MapsAgree' /\ TransactionInv'
    BY DEF IInv, MapsAgree, TransactionInv, HandleExists, HasLocator, LocatorOf
  <2>5. \A v \in Waiters : v # w => waits'[v] = waits[v]
    BY <2>1 DEF IInv, TypeOK
  <2>6. /\ waits'[w].handle = waits[w].handle
        /\ waits'[w].entry = waits[w].entry
        /\ waits'[w].answer = a
    BY <2>1 DEF IInv, TypeOK
  <2>7. /\ a = "registered" => committed[waits[w].handle] = waits[w].entry.locator
        /\ a = "notFound" => settlement[waits[w].entry.transaction] = "rolledBack"
    BY <2>1, <2>2 DEF Decides, Tracks
  <2>8. WaitInv' /\ WaitersAreToldTheTruth'
    BY <2>2, <2>5, <2>6, <2>7 DEF IInv, WaitInv, WaitersAreToldTheTruth, Tracks
  <2> QED BY <2>3, <2>4, <2>8 DEF IInv
<1>4. CASE UNCHANGED vars
  BY <1>4 DEF vars, registryVars, IInv, TypeOK, MapsAgree, TransactionInv, WaitInv, Tracks,
     WaitersAreToldTheTruth, HandleExists, HasLocator, LocatorOf
<1> QED BY <1>1, <1>2, <1>3, <1>4 DEF Next

LEMMA Inductive == Spec => []IInv
BY InitEstablishes, NextPreserves, PTL DEF Spec

-----------------------------------------------------------------------------
(* The types of the maps, of the settlements and of what callers wait for. *)
THEOREM TypeCorrect == Spec => []TypeOK
<1>1. IInv => TypeOK
  BY DEF IInv
<1> QED BY <1>1, Inductive, PTL

(* The three maps of the registry stay each other's inverse, for every     *)
(* number of conversations and transactions.                               *)
THEOREM MapsStayInverse == Spec => []MapsAgree
<1>1. IInv => MapsAgree
  BY DEF IInv
<1> QED BY <1>1, Inductive, PTL

(* waitForCommit() never misleads its caller. *)
THEOREM WaitersAreRight == Spec => []WaitersAreToldTheTruth
<1>1. IInv => WaitersAreToldTheTruth
  BY DEF IInv
<1> QED BY <1>1, Inductive, PTL

(* A handle, once it resolves, resolves to the same conversation for ever. *)
THEOREM HandlesStayStable == Spec => HandlesAreStable
<1>1. IInv /\ [Next]_vars =>
        [\A h \in Handles :
           /\ committed[h] # None => committed'[h] = committed[h]
           /\ provisional[h] # None => committed'[h] \in {None, provisional[h].locator}]_vars
  <2> SUFFICES ASSUME IInv, Next, NEW h \in Handles
               PROVE  /\ committed[h] # None => committed'[h] = committed[h]
                      /\ provisional[h] # None =>
                           committed'[h] \in {None, provisional[h].locator}
    OBVIOUS
  <2> USE DEF IInv
  <2>1. provisional[h] # None => committed[h] = None
    BY DEF MapsAgree
  <2>2. CASE \E l \in Locators, g \in Handles : Register(l, g)
    BY <2>1, <2>2 DEF Register, HandleExists, TypeOK
  <2>3. CASE \E t \in Transactions : CommitProvisional(t)
    BY <2>1, <2>3 DEF CommitProvisional, Holds, MapsAgree, TypeOK
  <2>4. CASE UNCHANGED committed
    BY <2>1, <2>4
  <2> QED BY <2>2, <2>3, <2>4
      DEF Next, Registrations, ReserveProvisional, RollbackProvisional, WaitForCommit, WaitEnds,
          registryVars
<1> QED BY <1>1, Inductive, PTL DEF Spec, HandlesAreStable

=============================================================================

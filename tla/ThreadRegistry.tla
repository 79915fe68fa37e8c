---------------------------- MODULE ThreadRegistry ----------------------------
(***************************************************************************)
(* The registry of conversations (routing/ThreadRegistry.ts).              *)
(*                                                                         *)
(* A conversation locator is known to the outside by an opaque handle.  A  *)
(* committed handle resolves to its locator for ever.  The conversation a  *)
(* Project turn created is first reserved by a transaction: its handle is  *)
(* taken and its locator owned, but it neither resolves nor is listed      *)
(* until the transaction commits, and a rollback frees both.  Callers that *)
(* name a provisional handle wait for the settlement of the transaction.   *)
(***************************************************************************)
EXTENDS Naturals

CONSTANTS
  Handles,        \* what the handle factory can return
  Locators,       \* conversation locators
  Transactions,   \* registration tokens, each made by at most one reservation
  Waiters,        \* the calls of waitForCommit(), each made at most once
  None            \* `undefined`

Entry == [locator : Locators, transaction : Transactions]

ASSUME NoneAssumption ==
  /\ None \notin Handles
  /\ None \notin Locators
  /\ None \notin Transactions
  /\ None \notin Entry

VARIABLES
  committed,      \* committedHandleToLocator
  handleOf,       \* locatorToHandle
  provisional,    \* provisionalHandleToEntry
  settlement,     \* the promise of each transaction
  waits           \* the handle and entry each call of waitForCommit() awaits, its answer

registryVars == <<committed, handleOf, provisional, settlement>>

vars == <<registryVars, waits>>

NoWait == [handle |-> None, entry |-> None, answer |-> "none"]

Settlement == {"unused", "pending", "committed", "rolledBack"}

-----------------------------------------------------------------------------
RegistryInit ==
  /\ committed = [h \in Handles |-> None]
  /\ handleOf = [l \in Locators |-> None]
  /\ provisional = [h \in Handles |-> None]
  /\ settlement = [t \in Transactions |-> "unused"]

Init ==
  /\ RegistryInit
  /\ waits = [w \in Waiters |-> NoWait]

(* Mutant of HandleExists: only committed handles are taken. *)
HandleCommitted(h) == committed[h] # None

HandleExists(h) == committed[h] # None \/ provisional[h] # None

HasLocator(l) == handleOf[l] # None

Resolves(h) == committed[h] # None

KnownThreads == {h \in Handles : committed[h] # None}

(* registerWithStatus() of an unknown locator, with a handle of the factory *)
(* that does not collide.  Known locators and eight collisions in a row     *)
(* change nothing: the call returns the handle or throws.                   *)
Register(l, h) ==
  /\ ~ HasLocator(l)
  /\ ~ HandleExists(h)
  /\ committed' = [committed EXCEPT ![h] = l]
  /\ handleOf' = [handleOf EXCEPT ![l] = h]
  /\ UNCHANGED <<provisional, settlement>>

ReserveProvisional(l, h, t) ==
  /\ ~ HasLocator(l)
  /\ ~ HandleExists(h)
  /\ settlement[t] = "unused"
  /\ provisional' = [provisional EXCEPT ![h] = [locator |-> l, transaction |-> t]]
  /\ handleOf' = [handleOf EXCEPT ![l] = h]
  /\ settlement' = [settlement EXCEPT ![t] = "pending"]
  /\ UNCHANGED committed

(* provisionalTransactionToHandle holds t: neither committed nor rolled back. *)
Holds(h, t) == provisional[h] # None /\ provisional[h].transaction = t

(* Mutant of CommitProvisional: the entry is stored, not its locator. *)
CommitEntry(t) ==
  \E h \in Handles :
    /\ Holds(h, t)
    /\ provisional' = [provisional EXCEPT ![h] = None]
    /\ committed' = [committed EXCEPT ![h] = provisional[h]]
    /\ settlement' = [settlement EXCEPT ![t] = "committed"]
    /\ UNCHANGED handleOf

CommitProvisional(t) ==
  \E h \in Handles :
    /\ Holds(h, t)
    /\ provisional' = [provisional EXCEPT ![h] = None]
    /\ committed' = [committed EXCEPT ![h] = provisional[h].locator]
    /\ settlement' = [settlement EXCEPT ![t] = "committed"]
    /\ UNCHANGED handleOf

(* Mutant of RollbackProvisional: the locator keeps its dead handle. *)
RollbackKeepsLocator(t) ==
  \E h \in Handles :
    /\ Holds(h, t)
    /\ provisional' = [provisional EXCEPT ![h] = None]
    /\ settlement' = [settlement EXCEPT ![t] = "rolledBack"]
    /\ UNCHANGED <<committed, handleOf>>

(* The locator is freed only if it still belongs to this handle. *)
RollbackProvisional(t) ==
  \E h \in Handles :
    /\ Holds(h, t)
    /\ provisional' = [provisional EXCEPT ![h] = None]
    /\ handleOf' = [l \in Locators |->
                      IF l = provisional[h].locator /\ handleOf[l] = h THEN None ELSE handleOf[l]]
    /\ settlement' = [settlement EXCEPT ![t] = "rolledBack"]
    /\ UNCHANGED committed

-----------------------------------------------------------------------------
(* waitForCommit(h) of a handle that is provisional; a committed handle    *)
(* returns and an unknown one throws at once, changing nothing.            *)
WaitForCommit(w, h) ==
  /\ waits[w].answer = "none"
  /\ provisional[h] # None
  /\ waits' = [waits EXCEPT ![w] =
                 [handle |-> h, entry |-> provisional[h], answer |-> "waiting"]]
  /\ UNCHANGED registryVars

(* Mutant of Decides: a waiter takes any settlement for a registration. *)
DecidesOnSettlement(t, answer) ==
  answer # "aborted" => settlement[t] \in {"committed", "rolledBack"}

(* The race between the settlement and the caller's signal, which may also *)
(* be decided for the signal after the transaction settled.                *)
Decides(t, answer) ==
  CASE answer = "registered" -> settlement[t] = "committed"
    [] answer = "notFound"   -> settlement[t] = "rolledBack"
    [] OTHER                 -> TRUE

WaitEnds(w) ==
  /\ waits[w].answer = "waiting"
  /\ \E a \in {"registered", "notFound", "aborted"} :
       /\ Decides(waits[w].entry.transaction, a)
       /\ waits' = [waits EXCEPT ![w].answer = a]
  /\ UNCHANGED registryVars

Registrations ==
  \/ \E l \in Locators, h \in Handles : Register(l, h)
  \/ \E l \in Locators, h \in Handles, t \in Transactions : ReserveProvisional(l, h, t)
  \/ \E t \in Transactions : CommitProvisional(t) \/ RollbackProvisional(t)

Next ==
  \/ Registrations /\ UNCHANGED waits
  \/ \E w \in Waiters, h \in Handles : WaitForCommit(w, h)
  \/ \E w \in Waiters : WaitEnds(w)

Spec == Init /\ [][Next]_vars

-----------------------------------------------------------------------------
(* Every map has its type. *)
TypeOK ==
  /\ committed \in [Handles -> Locators \cup {None}]
  /\ handleOf \in [Locators -> Handles \cup {None}]
  /\ provisional \in [Handles -> Entry \cup {None}]
  /\ settlement \in [Transactions -> Settlement]
  /\ waits \in [Waiters -> [handle : Handles \cup {None}, entry : Entry \cup {None},
                            answer : {"none", "waiting", "registered", "notFound", "aborted"}]]

(* The locator a handle stands for, committed or reserved. *)
LocatorOf(h) ==
  IF committed[h] # None THEN committed[h]
  ELSE IF provisional[h] # None THEN provisional[h].locator ELSE None

(* The maps stay each other's inverse through every mixture of             *)
(* registrations, commits and rollbacks: no conversation has two handles,  *)
(* no handle two conversations, and no locator stays owned by a handle     *)
(* that is gone (it could then never be registered again).                 *)
MapsAgree ==
  /\ \A h \in Handles : committed[h] = None \/ provisional[h] = None
  /\ \A h \in Handles : HandleExists(h) => handleOf[LocatorOf(h)] = h
  /\ \A l \in Locators : HasLocator(l) => LocatorOf(handleOf[l]) = l

(* A handle given to a client names the same conversation for ever; one    *)
(* that is reserved becomes that conversation's handle or nothing.         *)
HandlesAreStable ==
  [][\A h \in Handles :
       /\ committed[h] # None => committed'[h] = committed[h]
       /\ provisional[h] # None => committed'[h] \in {None, provisional[h].locator}]_vars

(* A caller told that the provisional handle it waited for is registered   *)
(* finds it resolving to the conversation it was reserved for, whatever    *)
(* happened since; one told it was not found waited for a reservation that *)
(* was undone, and cannot be confused by a later owner of the handle.      *)
WaitersAreToldTheTruth ==
  \A w \in Waiters :
    /\ waits[w].answer = "registered" => committed[waits[w].handle] = waits[w].entry.locator
    /\ waits[w].answer = "notFound" => settlement[waits[w].entry.transaction] = "rolledBack"

=============================================================================

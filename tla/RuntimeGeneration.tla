-------------------------- MODULE RuntimeGeneration --------------------------
(***************************************************************************)
(* Runtime identities, generations and leases (domain/RuntimeGeneration).  *)
(*                                                                         *)
(* A RuntimeGenerationTracker remembers the identity (pid and creation     *)
(* time) it saw last and numbers each change of identity.  A lease is a    *)
(* snapshot of the pair (generation, identity); every mutating operation   *)
(* carries the lease under which it was scheduled.                         *)
(***************************************************************************)
EXTENDS Naturals

CONSTANTS
  Identities,   \* identities a main process can have: a pid with its creation time
  NoIdentity    \* the `null` observation: no main process is running

ASSUME NoIdentityAssumption == NoIdentity \notin Identities

(* The private state of a tracker: generation, currentIdentity, lastIdentity. *)
Tracker ==
  [generation : Nat,
   current    : Identities \cup {NoIdentity},
   last       : Identities \cup {NoIdentity}]

InitialTracker ==
  [generation |-> 0, current |-> NoIdentity, last |-> NoIdentity]

Lease == [generation : Nat, identity : Identities]

(* observe(): `null` clears only the current identity, so the same process *)
(* seen again after a gap keeps its generation.                            *)
Observe(t, id) ==
  IF id = NoIdentity
    THEN [t EXCEPT !.current = NoIdentity]
    ELSE [generation |-> IF t.last = id THEN t.generation ELSE t.generation + 1,
          current    |-> id,
          last       |-> id]

(* getCurrentRuntimeLease() returns instead of throwing RuntimeNotObserved. *)
Observed(t) == t.current # NoIdentity /\ t.generation # 0

CurrentLease(t) == [generation |-> t.generation, identity |-> t.current]

(* Mutant of LeaseIsCurrent: the lease of a process nobody sees is current. *)
LeaseIsLatest(t, lease) == CurrentLease(t) = lease

(* assertRuntimeLeaseCurrent(lease) returns instead of throwing. *)
LeaseIsCurrent(t, lease) == Observed(t) /\ CurrentLease(t) = lease

=============================================================================

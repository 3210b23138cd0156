---- MODULE Coordinator ----
(***************************************************************************)
(* execution.Coordinator: the one object through which a session that can  *)
(* change the device's UI takes and gives back the device.  Ownership is   *)
(* explicit, so that a finalizer running long after its session ended      *)
(* releases exactly the generation it acquired and never a later one.      *)
(*                                                                         *)
(* The operators below are the methods of the Coordinator, each one        *)
(* critical section of its mutex.  The modules of the session managers     *)
(* conjoin them to their own steps.                                        *)
(***************************************************************************)
EXTENDS Integers

CONSTANT MaxGeneration    \* bound on the identities minted in a behaviour

ASSUME MaxGenerationAssumption == MaxGeneration \in Nat

VARIABLES
  generation,   \* the counter every new identity takes its generation from
  active,       \* the identity that owns the device, or NoIdentity
  hosted        \* a replay run on behalf of the owner, or NoIdentity

coordinatorVars == <<generation, active, hosted>>

Kinds == {"exploration", "recording", "replay", "performance", "startup"}

Generations == 1 .. MaxGeneration

\* An execution identity.  Session id and owner token are random and unique
\* to the identity; the generation, which nothing reuses, stands for both.
Identity == [kind : Kinds, generation : Generations]

NoIdentity == [kind |-> "none", generation |-> 0]

Session(kind, g) == [kind |-> kind, generation |-> g]

\* Mutant: the counter and the identity minted from it come apart.
NewIdentitySkipsOne(kind) == Session(kind, generation + 2)

NewIdentity(kind) == Session(kind, generation + 1)

\* Every identity handed out so far: what a caller may present, however late.
Issued == {id \in Identity : id.generation <= generation}

CoordinatorTypeOK ==
  /\ generation \in 0 .. MaxGeneration
  /\ active \in Identity \cup {NoIdentity}
  /\ hosted \in Identity \cup {NoIdentity}

CoordinatorInit ==
  /\ generation = 0
  /\ active = NoIdentity
  /\ hosted = NoIdentity

Owned == active # NoIdentity

\* Mutant: an owned device is handed to the next caller.
AcquireOwned(kind) ==
  /\ generation < MaxGeneration
  /\ generation' = generation + 1
  /\ active' = NewIdentity(kind)
  /\ UNCHANGED hosted

\* Acquire succeeds only on a free device; a refused call is ErrOwned and
\* changes nothing, so callers test Owned for it.
Acquire(kind) ==
  /\ generation < MaxGeneration
  /\ ~Owned
  /\ generation' = generation + 1
  /\ active' = NewIdentity(kind)
  /\ UNCHANGED hosted

SameOwner(slot, identity) == slot # NoIdentity /\ slot = identity

\* Mutant: a second child may displace the one that is hosted.
AcquireHostedTwice(parent, kind) ==
  /\ generation < MaxGeneration
  /\ SameOwner(active, parent)
  /\ generation' = generation + 1
  /\ hosted' = NewIdentity(kind)
  /\ UNCHANGED active

\* A child session of the current owner: refused when the parent is not the
\* owner any more, and when another child is already hosted.
AcquireHosted(parent, kind) ==
  /\ generation < MaxGeneration
  /\ SameOwner(active, parent)
  /\ hosted = NoIdentity
  /\ generation' = generation + 1
  /\ hosted' = NewIdentity(kind)
  /\ UNCHANGED active

Validates(identity) == SameOwner(hosted, identity) \/ SameOwner(active, identity)

\* Mutant: a release frees the device whoever calls it.
ReleaseUnchecked(identity) ==
  /\ active' = NoIdentity
  /\ hosted' = NoIdentity
  /\ UNCHANGED generation

\* Releasing the child leaves the parent; releasing the parent drops both;
\* any other identity is a late duplicate and changes nothing.
Release(identity) ==
  /\ \/ /\ SameOwner(hosted, identity)
        /\ hosted' = NoIdentity
        /\ UNCHANGED active
     \/ /\ ~SameOwner(hosted, identity)
        /\ SameOwner(active, identity)
        /\ active' = NoIdentity
        /\ hosted' = NoIdentity
     \/ /\ ~Validates(identity)
        /\ UNCHANGED <<active, hosted>>
  /\ UNCHANGED generation

-----------------------------------------------------------------------------

\* What the generations of the two slots always satisfy: a child is hosted
\* only under an owner and is younger than it.
CoordinatorInv ==
  /\ active.generation <= generation
  /\ hosted.generation <= generation
  /\ hosted # NoIdentity => Owned /\ active.generation < hosted.generation
====

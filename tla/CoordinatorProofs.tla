---- MODULE CoordinatorProofs ----
(***************************************************************************)
(* What each method of execution.Coordinator does to the ownership of the  *)
(* device, for every state it may be called in: the lemmas on which the    *)
(* proofs about the session managers rest.                                 *)
(***************************************************************************)
EXTENDS Coordinator, TLAPS

\* Init: the empty coordinator is well formed.
LEMMA CoordinatorInitially ==
  CoordinatorInit => CoordinatorTypeOK /\ CoordinatorInv
BY MaxGenerationAssumption
   DEF CoordinatorInit, CoordinatorTypeOK, CoordinatorInv, NoIdentity, Owned

\* Acquire: it succeeds on a free device only, with an identity younger than
\* every other, and leaves nothing hosted.
LEMMA AcquireTakesFreeDevice ==
  ASSUME CoordinatorTypeOK, CoordinatorInv, NEW kind \in Kinds, Acquire(kind)
  PROVE  /\ CoordinatorTypeOK' /\ CoordinatorInv'
         /\ active = NoIdentity
         /\ generation' = generation + 1
         /\ generation' \in Generations
         /\ active' = Session(kind, generation')
         /\ hosted' = NoIdentity
<1>1. /\ generation \in 0 .. MaxGeneration
      /\ generation < MaxGeneration
      /\ active = NoIdentity
      /\ hosted = NoIdentity /\ hosted' = hosted
      /\ generation' = generation + 1
      /\ active' = Session(kind, generation')
  BY DEF CoordinatorTypeOK, CoordinatorInv, Acquire, Owned, NewIdentity
<1>2. generation' \in Generations /\ generation' \in 0 .. MaxGeneration
  BY <1>1, MaxGenerationAssumption DEF Generations
<1>3. active' \in Identity /\ active'.generation = generation'
  BY <1>1, <1>2 DEF Session, Identity
<1>4. CoordinatorTypeOK'
  BY <1>1, <1>2, <1>3 DEF CoordinatorTypeOK
<1>5. CoordinatorInv'
  BY <1>1, <1>2, <1>3 DEF CoordinatorInv, NoIdentity
<1> QED
  BY <1>1, <1>2, <1>4, <1>5

\* AcquireHosted: the parent keeps the device, and the child is younger.
LEMMA AcquireHostedKeepsOwner ==
  ASSUME CoordinatorTypeOK, CoordinatorInv, NEW kind \in Kinds, NEW parent,
         AcquireHosted(parent, kind)
  PROVE  /\ CoordinatorTypeOK' /\ CoordinatorInv'
         /\ active # NoIdentity /\ active' = active
         /\ hosted = NoIdentity
         /\ generation' = generation + 1
         /\ generation' \in Generations
         /\ hosted' = Session(kind, generation')
<1>1. /\ generation \in 0 .. MaxGeneration
      /\ generation < MaxGeneration
      /\ active # NoIdentity /\ active' = active
      /\ active \in Identity /\ active.generation <= generation
      /\ hosted = NoIdentity
      /\ generation' = generation + 1
      /\ hosted' = Session(kind, generation')
  BY DEF CoordinatorTypeOK, CoordinatorInv, AcquireHosted, SameOwner, NewIdentity
<1>2. generation' \in Generations /\ generation' \in 0 .. MaxGeneration
  BY <1>1, MaxGenerationAssumption DEF Generations
<1>3. hosted' \in Identity /\ hosted'.generation = generation'
  BY <1>1, <1>2 DEF Session, Identity
<1>4. active.generation \in 0 .. MaxGeneration
  BY <1>1, MaxGenerationAssumption DEF Identity, Generations
<1>5. CoordinatorTypeOK'
  BY <1>1, <1>2, <1>3 DEF CoordinatorTypeOK
<1>6. CoordinatorInv'
  BY <1>1, <1>2, <1>3, <1>4 DEF CoordinatorInv, Owned
<1> QED
  BY <1>1, <1>2, <1>5, <1>6

\* Release: at most the slot that holds the identity becomes free, the child
\* with its parent; the counter never moves back.
LEMMA ReleaseFreesOnlyIdentity ==
  ASSUME CoordinatorTypeOK, CoordinatorInv, NEW identity, Release(identity)
  PROVE  /\ CoordinatorTypeOK' /\ CoordinatorInv'
         /\ generation' = generation
         /\ active' = IF active = identity THEN NoIdentity ELSE active
         /\ hosted' \in {hosted, NoIdentity}
<1>1. /\ generation \in 0 .. MaxGeneration /\ generation' = generation
      /\ active \in Identity \cup {NoIdentity}
      /\ hosted \in Identity \cup {NoIdentity}
      /\ active.generation <= generation /\ hosted.generation <= generation
      /\ hosted # NoIdentity => /\ active # NoIdentity
                                /\ active.generation < hosted.generation
  BY DEF CoordinatorTypeOK, CoordinatorInv, Release, Owned
<1>2. active.generation \in 0 .. MaxGeneration /\ hosted.generation \in 0 .. MaxGeneration
  BY <1>1, MaxGenerationAssumption DEF Identity, Generations, NoIdentity
<1>3. hosted # NoIdentity => active # hosted
  BY <1>1, <1>2
<1>4. /\ active' = IF active = identity THEN NoIdentity ELSE active
      /\ hosted' \in {hosted, NoIdentity}
      /\ active' = NoIdentity => hosted' = NoIdentity
  BY <1>1, <1>3 DEF Release, SameOwner, Validates
<1>5. NoIdentity.generation = 0
  BY DEF NoIdentity
<1>6. CoordinatorTypeOK'
  BY <1>1, <1>4 DEF CoordinatorTypeOK
<1>7. CoordinatorInv'
  <2>1. active'.generation <= generation'
    BY <1>1, <1>4, <1>5
  <2>2. hosted'.generation <= generation'
    BY <1>1, <1>4, <1>5
  <2>3. hosted' # NoIdentity => Owned' /\ active'.generation < hosted'.generation
    BY <1>1, <1>4 DEF Owned
  <2> QED
    BY <2>1, <2>2, <2>3 DEF CoordinatorInv
<1> QED
  BY <1>1, <1>4, <1>6, <1>7

-----------------------------------------------------------------------------
(* The coordinator alone is a device lease: what DeviceLease says of the   *)
(* sessions is what its two slots say.  The managers implement the lease   *)
(* because their sessions stand where the coordinator says.                *)

\* What a session is to the device, as the coordinator knows it.
Standing(g) ==
  IF g > generation THEN "new"
  ELSE IF active.generation = g THEN "host"
  ELSE IF hosted.generation = g THEN "guest"
  ELSE "over"

standing == [g \in Generations |-> Standing(g)]

Slots == INSTANCE DeviceLease WITH lease <- standing

\* Where each generation stands.
LEMMA GenerationsAreOrdered ==
  ASSUME CoordinatorTypeOK, CoordinatorInv
  PROVE  /\ generation \in 0 .. MaxGeneration
         /\ active.generation \in 0 .. generation
         /\ hosted.generation \in 0 .. generation
         /\ active = NoIdentity <=> active.generation = 0
         /\ hosted = NoIdentity <=> hosted.generation = 0
         /\ hosted # NoIdentity => /\ active # NoIdentity
                                   /\ active.generation < hosted.generation
BY MaxGenerationAssumption
   DEF CoordinatorTypeOK, CoordinatorInv, Owned, Identity, Generations, NoIdentity

\* The generation of the next identity is the first that stands as new.
LEMMA NextIsFresh ==
  ASSUME CoordinatorTypeOK, CoordinatorInv, generation + 1 \in Generations
  PROVE  Slots!Fresh(generation + 1)
<1>1. generation \in Nat
  BY GenerationsAreOrdered, MaxGenerationAssumption
<1>2. ASSUME NEW g \in Generations
      PROVE  Standing(g) = "new" <=> g >= generation + 1
  <2>1. g \in Nat /\ (g > generation <=> g >= generation + 1)
    BY <1>1, MaxGenerationAssumption DEF Generations
  <2> QED
    BY <2>1 DEF Standing
<1>3. {g \in Generations : Standing(g) = "new"} = (generation + 1) .. MaxGeneration
  BY <1>1, <1>2, MaxGenerationAssumption DEF Generations
<1>4. Slots!In("new") = {g \in Generations : Standing(g) = "new"}
  BY DEF Slots!In, Slots!Sessions, standing, Generations
<1> QED
  BY <1>3, <1>4 DEF Slots!Fresh

\* Acquire begins a session of the lease.
LEMMA AcquireBegins ==
  ASSUME CoordinatorTypeOK, CoordinatorInv, NEW kind \in Kinds, Acquire(kind)
  PROVE  Slots!LeaseNext
<1> DEFINE s == generation + 1
<1>1. /\ active = NoIdentity /\ generation' = s /\ s \in Generations
      /\ active' = Session(kind, s) /\ hosted' = NoIdentity
  BY AcquireTakesFreeDevice
<1>2. /\ generation \in Nat /\ active.generation = 0 /\ hosted.generation = 0
      /\ active'.generation = s /\ hosted'.generation = 0
  BY <1>1, GenerationsAreOrdered, MaxGenerationAssumption DEF Session, NoIdentity
<1>3. \A g \in Generations : Standing(g) # "host"
  BY <1>2 DEF Standing, Generations
<1>4. \A g \in Generations : Standing(g)' = IF g = s THEN "host" ELSE Standing(g)
  BY <1>1, <1>2 DEF Standing, Generations
<1>5. Slots!In("host") = {}
  BY <1>3 DEF Slots!In, Slots!Sessions, standing, Generations
<1>6. standing' = [standing EXCEPT ![s] = "host"]
  BY <1>4 DEF standing
<1>7. Slots!Begin(s)
  BY <1>1, <1>5, <1>6, NextIsFresh DEF Slots!Begin
<1> QED
  BY <1>1, <1>7 DEF Slots!LeaseNext, Slots!Sessions, Generations

\* AcquireHosted begins a guest beside the host.
LEMMA AcquireHostedBeginsGuest ==
  ASSUME CoordinatorTypeOK, CoordinatorInv, NEW kind \in Kinds, NEW parent,
         AcquireHosted(parent, kind)
  PROVE  Slots!LeaseNext
<1> DEFINE s == generation + 1
<1>1. /\ active # NoIdentity /\ active' = active /\ hosted = NoIdentity
      /\ generation' = s /\ s \in Generations
      /\ hosted' = Session(kind, s)
  BY AcquireHostedKeepsOwner
<1>2. /\ generation \in Nat /\ active.generation \in 1 .. generation
      /\ hosted.generation = 0 /\ hosted'.generation = s
  BY <1>1, GenerationsAreOrdered, MaxGenerationAssumption DEF Session, NoIdentity
<1>3. active.generation \in Generations /\ Standing(active.generation) = "host"
  BY <1>2, GenerationsAreOrdered, MaxGenerationAssumption DEF Standing, Generations
<1>4. \A g \in Generations : Standing(g) # "guest"
  BY <1>2 DEF Standing, Generations
<1>5. \A g \in Generations : Standing(g)' = IF g = s THEN "guest" ELSE Standing(g)
  BY <1>1, <1>2 DEF Standing, Generations
<1>6. Slots!In("host") # {} /\ Slots!In("guest") = {}
  BY <1>3, <1>4 DEF Slots!In, Slots!Sessions, standing, Generations
<1>7. standing' = [standing EXCEPT ![s] = "guest"]
  BY <1>5 DEF standing
<1>8. Slots!BeginGuest(s)
  BY <1>1, <1>6, <1>7, NextIsFresh DEF Slots!BeginGuest
<1> QED
  BY <1>1, <1>8 DEF Slots!LeaseNext, Slots!Sessions, Generations

\* Release ends the guest, or the host with its guest, or nothing.
LEMMA ReleaseEnds ==
  ASSUME CoordinatorTypeOK, CoordinatorInv, NEW identity, Release(identity)
  PROVE  [Slots!LeaseNext]_standing
<1>1. /\ \A g \in Generations : standing[g] = Standing(g)
      /\ standing' = [g \in Generations |-> Standing(g)']
  BY DEF standing
<1>2. generation' = generation
  BY DEF Release
<1>3. NoIdentity.generation = 0
  BY DEF NoIdentity
<1>4. CASE SameOwner(hosted, identity)
  <2> DEFINE s == hosted.generation
  <2>1. hosted # NoIdentity /\ hosted' = NoIdentity /\ active' = active
    BY <1>4 DEF Release, SameOwner, Validates
  <2>2. s \in Generations /\ s <= generation /\ active.generation # s
    BY <2>1, GenerationsAreOrdered, MaxGenerationAssumption DEF Generations
  <2>3. standing[s] = "guest"
    BY <1>1, <2>2, GenerationsAreOrdered, MaxGenerationAssumption DEF Standing, Generations
  <2>4. \A g \in Generations : Standing(g)' = IF g = s THEN "over" ELSE Standing(g)
    BY <1>2, <1>3, <2>1, <2>2, GenerationsAreOrdered, MaxGenerationAssumption
       DEF Standing, Generations
  <2>5. standing' = [g \in Generations |-> IF g = s THEN "over" ELSE standing[g]]
    BY <1>1, <2>4
  <2>6. Slots!EndGuest(s)
    <3>1. [g \in Generations |-> IF g = s THEN "over" ELSE standing[g]]
            = [standing EXCEPT ![s] = "over"]
      BY DEF standing
    <3> QED
      BY <2>3, <2>5, <3>1 DEF Slots!EndGuest
  <2> QED
    BY <2>2, <2>6 DEF Slots!LeaseNext, Slots!Sessions, Generations
<1>5. CASE ~SameOwner(hosted, identity) /\ SameOwner(active, identity)
  <2> DEFINE s == active.generation
  <2>1. active # NoIdentity /\ active' = NoIdentity /\ hosted' = NoIdentity
    BY <1>5 DEF Release, SameOwner, Validates
  <2>2. s \in Generations /\ s <= generation
    BY <2>1, GenerationsAreOrdered, MaxGenerationAssumption DEF Generations
  <2>3. standing[s] = "host"
    BY <1>1, <2>2, GenerationsAreOrdered, MaxGenerationAssumption DEF Standing, Generations
  <2>4. \A g \in Generations :
          Standing(g)' = IF Standing(g) \in {"host", "guest"} THEN "over" ELSE Standing(g)
    BY <1>2, <1>3, <2>1, GenerationsAreOrdered, MaxGenerationAssumption
       DEF Standing, Generations
  <2>5. standing' = [g \in Generations |-> IF standing[g] \in {"host", "guest"} THEN "over" ELSE standing[g]]
    BY <1>1, <2>4
  <2>6. Slots!EndHost(s)
    BY <2>3, <2>5 DEF Slots!EndHost, Slots!Sessions, standing, Generations
  <2> QED
    BY <2>2, <2>6 DEF Slots!LeaseNext, Slots!Sessions, Generations
<1>6. CASE ~Validates(identity)
  <2>1. active' = active /\ hosted' = hosted
    BY <1>6 DEF Release, Validates
  <2>2. \A g \in Generations : Standing(g)' = Standing(g)
    BY <1>2, <2>1 DEF Standing
  <2> QED
    BY <1>1, <2>2 DEF standing
<1> QED
  BY <1>4, <1>5, <1>6 DEF Validates

\* A step that leaves the coordinator alone leaves every session where it stands.
LEMMA CoordinatorIdles ==
  ASSUME UNCHANGED coordinatorVars
  PROVE  UNCHANGED standing
BY DEF standing, Standing, coordinatorVars
====

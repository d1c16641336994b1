------------------------ MODULE RedisSemaphoreProofs ------------------------
(***************************************************************************)
(* Proofs about RedisSemaphore for any number of clients, any maxsize, any *)
(* expiry and timeout.                                                     *)
(***************************************************************************)
EXTENDS RedisSemaphore, FiniteSetTheorems, FunctionTheorems, TLAPS

\* The inductive invariant.
IInv ==
  /\ TypeOK
  /\ CapacityRespected
  /\ ClockReadInPast
  /\ YoungHolderKeepsSlot

-----------------------------------------------------------------------------
\* The initial states satisfy the invariant.
LEMMA InitIInv == Init => IInv
<1> SUFFICES ASSUME Init PROVE IInv
  OBVIOUS
<1>1. DOMAIN zset = {}
  BY DEF Init
<1>2. TypeOK
  BY <1>1, SemaphoreAssumption DEF Init, TypeOK, Identifiers
<1>3. CapacityRespected
  BY <1>1, FS_EmptySet, SemaphoreAssumption DEF CapacityRespected
<1>4. ClockReadInPast
  BY DEF Init, ClockReadInPast
<1>5. YoungHolderKeepsSlot
  BY DEF Init, YoungHolderKeepsSlot, Active
<1> QED
  BY <1>2, <1>3, <1>4, <1>5 DEF IInv

\* A client's identifier is one of the identifiers.
LEMMA IdentifierType ==
  ASSUME TypeOK, NEW c \in Clients
  PROVE  Identifier(c) \in Identifiers
BY SemaphoreAssumption DEF TypeOK, Identifier, Identifiers

\* The cleanup only removes members.
LEMMA UnexpiredSubset ==
  ASSUME NEW t, IsFiniteSet(DOMAIN zset)
  PROVE  /\ Unexpired(t) \in SUBSET DOMAIN zset
         /\ IsFiniteSet(Unexpired(t))
         /\ Cardinality(Unexpired(t)) <= Cardinality(DOMAIN zset)
BY FS_Subset DEF Unexpired

\* Every step keeps the types.
LEMMA StepTypeOK ==
  ASSUME TypeOK, [Next]_vars
  PROVE  TypeOK'
<1> USE SemaphoreAssumption
<1>1. ASSUME NEW c \in Clients, Acquire(c) PROVE TypeOK'
  BY <1>1 DEF Acquire, TypeOK
<1>2. ASSUME NEW c \in Clients, Send(c) PROVE TypeOK'
  BY <1>2 DEF Send, TypeOK
<1>3. ASSUME NEW c \in Clients, TimeOut(c) PROVE TypeOK'
  BY <1>3 DEF TimeOut, TypeOK
<1>4. ASSUME NEW c \in Clients, Granted(c) PROVE TypeOK'
  <2>1. DOMAIN zset' = Unexpired(sentNow[c]) \cup {Identifier(c)}
    BY <1>4 DEF Granted
  <2>2. DOMAIN zset' \in SUBSET Identifiers
    BY <2>1, IdentifierType DEF Unexpired, TypeOK
  <2>3. zset' \in [DOMAIN zset' -> Nat]
    BY <1>4, <2>1 DEF Granted, TypeOK, Unexpired
  <2> QED
    BY <1>4, <2>2, <2>3 DEF Granted, TypeOK
<1>5. ASSUME NEW c \in Clients, Refused(c) PROVE TypeOK'
  <2>1. DOMAIN zset' \in SUBSET Identifiers /\ zset' \in [DOMAIN zset' -> Nat]
    BY <1>5 DEF Refused, Unexpired, TypeOK
  <2> QED
    BY <1>5, <2>1 DEF Refused, TypeOK
<1>6. ASSUME NEW c \in Clients, Release(c) PROVE TypeOK'
  <2>1. DOMAIN zset' \in SUBSET Identifiers /\ zset' \in [DOMAIN zset' -> Nat]
    BY <1>6 DEF Release, AfterRelease, TypeOK
  <2> QED
    BY <1>6, <2>1 DEF Release, TypeOK
<1>7. ASSUME NEW c \in Clients, Crash(c) PROVE TypeOK'
  BY <1>7 DEF Crash, TypeOK
<1>8. CASE Tick
  BY <1>8 DEF Tick, TypeOK
<1>9. CASE UNCHANGED vars
  BY <1>9 DEF vars, TypeOK
<1> QED
  BY <1>1, <1>2, <1>3, <1>4, <1>5, <1>6, <1>7, <1>8, <1>9 DEF Next, Step

\* Every step keeps the sorted set within maxsize members.
LEMMA StepCapacity ==
  ASSUME TypeOK, CapacityRespected, [Next]_vars
  PROVE  CapacityRespected'
<1> USE SemaphoreAssumption
<1>1. ASSUME NEW c \in Clients, Granted(c) PROVE CapacityRespected'
  <2> DEFINE kept == Unexpired(sentNow[c])
  <2>1. IsFiniteSet(kept) /\ Cardinality(kept) < MaxSize /\ Cardinality(kept) \in Nat
    BY <1>1, UnexpiredSubset, FS_CardinalityType DEF Granted, HasRoom, CapacityRespected
  <2>2. /\ IsFiniteSet(kept \cup {Identifier(c)})
        /\ Cardinality(kept \cup {Identifier(c)}) <= Cardinality(kept) + 1
    BY <2>1, FS_AddElement
  <2>3. DOMAIN zset' = kept \cup {Identifier(c)}
    BY <1>1 DEF Granted
  <2>4. Cardinality(kept \cup {Identifier(c)}) \in Nat
    BY <2>2, FS_CardinalityType
  <2> HIDE DEF kept
  <2> QED
    BY <2>1, <2>2, <2>3, <2>4 DEF CapacityRespected
<1>2. ASSUME DOMAIN zset' \in SUBSET DOMAIN zset PROVE CapacityRespected'
  BY <1>2, FS_Subset, FS_CardinalityType DEF CapacityRespected
<1>3. ASSUME NEW c \in Clients, Refused(c) PROVE CapacityRespected'
  BY <1>2, <1>3 DEF Refused, Unexpired
<1>4. ASSUME NEW c \in Clients, Release(c) PROVE CapacityRespected'
  BY <1>2, <1>4 DEF Release, AfterRelease
<1>5. ASSUME UNCHANGED zset PROVE CapacityRespected'
  BY <1>5 DEF CapacityRespected
<1> QED
  BY <1>1, <1>3, <1>4, <1>5
  DEF Next, Step, Acquire, Send, TimeOut, Crash, Tick, vars

\* Every step keeps the clients' clock values in the past.
LEMMA StepClockRead ==
  ASSUME TypeOK, ClockReadInPast, [Next]_vars
  PROVE  ClockReadInPast'
<1>1. ASSUME NEW c \in Clients, Send(c) PROVE ClockReadInPast'
  BY <1>1 DEF Send, ClockReadInPast, TypeOK
<1>2. CASE Tick
  BY <1>2 DEF Tick, ClockReadInPast, TypeOK
<1>3. ASSUME UNCHANGED <<now, sentNow>> PROVE ClockReadInPast'
  BY <1>3 DEF ClockReadInPast
<1> QED
  BY <1>1, <1>2, <1>3
  DEF Next, Step, Acquire, TimeOut, Granted, Refused, Release, Crash, vars

\* Only a grant to c makes c a young holder.
LEMMA NonGrantKeepsHolders ==
  ASSUME TypeOK, [Next]_vars, NEW c \in Clients, c \in Active', ~Granted(c)
  PROVE  c \in Active /\ Identifier(c)' = Identifier(c) /\ sentNow'[c] = sentNow[c]
<1> USE SemaphoreAssumption
<1> DEFINE Kept == c \in Active /\ Identifier(c)' = Identifier(c) /\ sentNow'[c] = sentNow[c]
<1>1. ASSUME NEW d \in Clients, Acquire(d) PROVE Kept
  BY <1>1 DEF Acquire, Active, Identifier, TypeOK
<1>2. ASSUME NEW d \in Clients, Send(d) PROVE Kept
  BY <1>2 DEF Send, Active, Identifier, TypeOK
<1>3. ASSUME NEW d \in Clients, TimeOut(d) PROVE Kept
  BY <1>3 DEF TimeOut, Active, Identifier, TypeOK
<1>4. ASSUME NEW d \in Clients, Granted(d) PROVE Kept
  BY <1>4 DEF Granted, Active, Identifier, TypeOK
<1>5. ASSUME NEW d \in Clients, Refused(d) PROVE Kept
  BY <1>5 DEF Refused, Active, Identifier, TypeOK
<1>6. ASSUME NEW d \in Clients, Release(d) PROVE Kept
  BY <1>6 DEF Release, Active, Identifier, TypeOK
<1>7. ASSUME NEW d \in Clients, Crash(d) PROVE Kept
  BY <1>7 DEF Crash, Active, Identifier, TypeOK
<1>8. CASE Tick
  BY <1>8 DEF Tick, Active, Identifier, TypeOK
<1>9. CASE UNCHANGED vars
  BY <1>9 DEF vars, Active, Identifier
<1> QED
  BY <1>1, <1>2, <1>3, <1>4, <1>5, <1>6, <1>7, <1>8, <1>9 DEF Next, Step

\* Every step leaves the slots of young holders alone.
LEMMA StepYoungHolder ==
  ASSUME TypeOK, ClockReadInPast, YoungHolderKeepsSlot, [Next]_vars
  PROVE  YoungHolderKeepsSlot'
<1> USE SemaphoreAssumption
<1> SUFFICES ASSUME NEW c \in Clients, c \in Active'
             PROVE  /\ Identifier(c)' \in DOMAIN zset'
                    /\ zset'[Identifier(c)'] = sentNow'[c]
  BY DEF YoungHolderKeepsSlot, Active
<1>1. CASE Granted(c)
  BY <1>1 DEF Granted, Identifier
<1>2. CASE ~Granted(c)
  <2>1. c \in Active /\ Identifier(c)' = Identifier(c) /\ sentNow'[c] = sentNow[c]
    BY <1>2, NonGrantKeepsHolders
  <2>2. Identifier(c) \in DOMAIN zset /\ zset[Identifier(c)] = sentNow[c]
    BY <2>1 DEF YoungHolderKeepsSlot
  <2>3. now < zset[Identifier(c)] + HolderExpiry
    BY <2>1, <2>2 DEF Active
  <2>4. \A d \in Clients : Identifier(c) \in Unexpired(sentNow[d])
    BY <2>2, <2>3 DEF Unexpired, ClockReadInPast, TypeOK
  <2>5. ASSUME NEW d \in Clients, Granted(d)
        PROVE  Identifier(c) \in DOMAIN zset' /\ zset'[Identifier(c)] = sentNow[c]
    BY <1>2, <2>2, <2>4, <2>5 DEF Granted, Identifier
  <2>6. ASSUME NEW d \in Clients, Refused(d)
        PROVE  Identifier(c) \in DOMAIN zset' /\ zset'[Identifier(c)] = sentNow[c]
    BY <2>2, <2>4, <2>6 DEF Refused
  <2>7. ASSUME NEW d \in Clients, Release(d)
        PROVE  Identifier(c) \in DOMAIN zset' /\ zset'[Identifier(c)] = sentNow[c]
    <3>1. d # c
      BY <2>7 DEF Release, Active, TypeOK
    <3> QED
      BY <2>2, <2>7, <3>1 DEF Release, AfterRelease, Identifier
  <2>8. ASSUME UNCHANGED zset
        PROVE  Identifier(c) \in DOMAIN zset' /\ zset'[Identifier(c)] = sentNow[c]
    BY <2>2, <2>8
  <2>9. Identifier(c) \in DOMAIN zset' /\ zset'[Identifier(c)] = sentNow[c]
    BY <2>5, <2>6, <2>7, <2>8
    DEF Next, Step, Acquire, Send, TimeOut, Crash, Tick, vars
  <2> QED
    BY <2>1, <2>9
<1> QED
  BY <1>1, <1>2

\* The invariant is inductive.
LEMMA StepIInv == IInv /\ [Next]_vars => IInv'
BY StepTypeOK, StepCapacity, StepClockRead, StepYoungHolder DEF IInv

\* The invariant holds in every reachable state.
THEOREM Invariance == Spec => []IInv
<1>1. Init => IInv
  BY InitIInv
<1>2. IInv /\ [Next]_vars => IInv'
  BY StepIInv
<1> QED
  BY <1>1, <1>2, PTL DEF Spec

-----------------------------------------------------------------------------
\* Every variable of the semaphore always has its type.
THEOREM TypeCorrect == Spec => []TypeOK
<1>1. IInv => TypeOK
  BY DEF IInv
<1> QED
  BY <1>1, Invariance, PTL

\* The sorted set never has more than maxsize members.
THEOREM Capacity == Spec => []CapacityRespected
<1>1. IInv => CapacityRespected
  BY DEF IInv
<1> QED
  BY <1>1, Invariance, PTL

\* Nobody's cleanup reclaims the slot of a holder younger than HOLDER_EXPIRY.
THEOREM YoungHolders == Spec => []YoungHolderKeepsSlot
<1>1. IInv => YoungHolderKeepsSlot
  BY DEF IInv
<1> QED
  BY <1>1, Invariance, PTL

\* Young holders are no more than the members kept by any client's cleanup.
LEMMA ActiveBelowKept ==
  ASSUME IInv, NEW d \in Clients
  PROVE  /\ IsFiniteSet(Active)
         /\ Cardinality(Active) <= Cardinality(Unexpired(sentNow[d]))
<1> DEFINE kept == Unexpired(sentNow[d])
           f == [c \in Active |-> Identifier(c)]
<1>1. \A c \in Active : f[c] \in kept
  BY SemaphoreAssumption DEF IInv, YoungHolderKeepsSlot, Active, Unexpired, ClockReadInPast, TypeOK
<1>2. f \in Injection(Active, kept)
  BY <1>1 DEF Injection, IsInjective, Identifier
<1>3. IsFiniteSet(kept)
  BY UnexpiredSubset DEF IInv, CapacityRespected
<1> QED
  BY <1>2, <1>3, FS_Injection

\* There are never more young holders than slots.
LEMMA ActiveBounded == IInv => InUseBounded
<1> SUFFICES ASSUME IInv PROVE InUseBounded
  OBVIOUS
<1> DEFINE f == [c \in Active |-> Identifier(c)]
<1>1. f \in Injection(Active, DOMAIN zset)
  BY DEF Injection, IsInjective, Identifier, IInv, YoungHolderKeepsSlot
<1>2. IsFiniteSet(DOMAIN zset) /\ Cardinality(DOMAIN zset) <= MaxSize
  BY DEF IInv, CapacityRespected
<1>3. /\ IsFiniteSet(Active)
      /\ Cardinality(Active) <= Cardinality(DOMAIN zset)
  BY <1>1, <1>2, FS_Injection
<1> QED
  BY <1>2, <1>3, FS_CardinalityType, SemaphoreAssumption DEF InUseBounded

\* At most maxsize clients are in their `with` body within HOLDER_EXPIRY.
THEOREM InUse == Spec => []InUseBounded
BY ActiveBounded, Invariance, PTL

\* A member leaves the set only by its own client's release or by old age.
THEOREM OnlyOwnerOrExpiry == Spec => OnlyOwnerOrExpiryFrees
<1> USE SemaphoreAssumption
<1> DEFINE Freed(id) ==
      \/ pc[id[1]] = "holding" /\ pc'[id[1]] = "idle" /\ id = Identifier(id[1])
      \/ zset[id] + HolderExpiry <= now
<1>1. ASSUME IInv, [Next]_vars, NEW id \in DOMAIN zset \ DOMAIN zset'
      PROVE  Freed(id)
  <2>1. ASSUME NEW c \in Clients, id \notin Unexpired(sentNow[c]) PROVE Freed(id)
    <3>1. zset[id] \in Nat /\ now \in Nat /\ sentNow[c] \in Nat /\ HolderExpiry \in Nat
      BY <1>1 DEF IInv, TypeOK
    <3>2. sentNow[c] <= now
      BY <1>1 DEF IInv, ClockReadInPast
    <3>3. ~(zset[id] > sentNow[c] - HolderExpiry)
      BY <2>1 DEF Unexpired
    <3> QED
      BY <3>1, <3>2, <3>3
  <2>2. ASSUME NEW c \in Clients, Granted(c) PROVE Freed(id)
    BY <2>1, <2>2 DEF Granted
  <2>3. ASSUME NEW c \in Clients, Refused(c) PROVE Freed(id)
    BY <2>1, <2>3 DEF Refused
  <2>4. ASSUME NEW c \in Clients, Release(c) PROVE Freed(id)
    <3>1. id = Identifier(c)
      BY <1>1, <2>4 DEF Release, AfterRelease
    <3>2. id[1] = c
      BY <3>1 DEF Identifier
    <3>3. pc[c] = "holding" /\ pc'[c] = "idle"
      BY <1>1, <2>4 DEF Release, IInv, TypeOK
    <3> QED
      BY <3>1, <3>2, <3>3
  <2>5. ~UNCHANGED zset
    OBVIOUS
  <2>6. (\E c \in Clients : Granted(c) \/ Refused(c) \/ Release(c)) \/ UNCHANGED zset
    BY <1>1 DEF Next, Step, Acquire, Send, TimeOut, Crash, Tick, vars
  <2> HIDE DEF Freed
  <2> QED
    BY <2>2, <2>3, <2>4, <2>5, <2>6
<1>2. IInv /\ [Next]_vars => [\A id \in DOMAIN zset \ DOMAIN zset' : Freed(id)]_vars
  BY <1>1
<1> QED
  BY <1>2, Invariance, PTL DEF Spec, OnlyOwnerOrExpiryFrees

\* The semaphore implements the counting semaphore.
THEOREM Refinement == Spec => ImplementsCountingSemaphore
<1> USE SemaphoreAssumption
<1>1. Init => Abstract!Init
  BY DEF Init, Abstract!Init, Active
<1>2. ASSUME IInv, [Next]_vars
      PROVE  Abstract!Next \/ UNCHANGED Active
  <2>1. ASSUME NEW c \in Clients, Granted(c)
        PROVE  Abstract!Next \/ UNCHANGED Active
    <3>1. Active' = Active \/ Active' = Active \cup {c}
      BY <2>1 DEF Granted, Active, IInv, TypeOK
    <3>2. c \notin Active
      BY <2>1 DEF Granted, Active
    <3>3. Cardinality(Active) < MaxSize
      <4>1. /\ IsFiniteSet(Active)
            /\ Cardinality(Active) <= Cardinality(Unexpired(sentNow[c]))
        BY <1>2, ActiveBelowKept
      <4>2. /\ IsFiniteSet(Unexpired(sentNow[c]))
            /\ Cardinality(Unexpired(sentNow[c])) < MaxSize
        BY <1>2, <2>1, UnexpiredSubset DEF Granted, HasRoom, IInv, CapacityRespected
      <4> QED
        BY <4>1, <4>2, FS_CardinalityType
    <3> QED
      BY <3>1, <3>2, <3>3
      DEF Abstract!Next, Abstract!Enter, Abstract!Cardinality, Cardinality
  <2>2. ASSUME Active' \in SUBSET Active
        PROVE  Abstract!Next \/ UNCHANGED Active
    <3>1. Active' = Active \ (Active \ Active')
      BY <2>2
    <3> QED
      BY <3>1, <2>2 DEF Abstract!Next, Abstract!Leave
  <2>3. ASSUME ~\E c \in Clients : Granted(c)
        PROVE  Active' \in SUBSET Active
    <3> SUFFICES ASSUME NEW c \in Clients, c \in Active' PROVE c \in Active
      BY DEF Active
    <3> QED
      BY <1>2, <2>3, NonGrantKeepsHolders DEF IInv
  <2> QED
    BY <2>1, <2>2, <2>3
<1> QED
  BY <1>1, <1>2, Invariance, PTL DEF Spec, ImplementsCountingSemaphore, Abstract!Spec
=============================================================================

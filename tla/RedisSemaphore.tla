--------------------------- MODULE RedisSemaphore ---------------------------
(***************************************************************************)
(* utils.RedisSemaphore: a semaphore kept in one Redis sorted set.  The    *)
(* members are the uuids of the holders, a member's score is the time its  *)
(* holder read just before it asked for the slot.  Acquiring runs one Lua  *)
(* script on the server (drop expired members, count, add); the client     *)
(* polls it until it gets a slot or its timeout has passed.                *)
(*                                                                         *)
(* The client reads the clock BEFORE it sends the script, so the script    *)
(* may run with an old time; a client may die, or lose the connection, at  *)
(* any point and then never removes its member.                            *)
(***************************************************************************)
EXTENDS Integers, FiniteSets

CONSTANTS
  Clients,        \* the processes that share the semaphore
  MaxSize,        \* maxsize (NETBOX_MAX_CONNECTIONS)
  HolderExpiry,   \* HOLDER_EXPIRY, in ticks
  Timeout,        \* the acquire timeout, in ticks
  MaxCalls,       \* bound: acquire calls of all clients
  MaxTime         \* bound: the last tick of the clock

ASSUME SemaphoreAssumption ==
  /\ IsFiniteSet(Clients)
  /\ MaxSize \in Nat
  /\ HolderExpiry \in Nat
  /\ Timeout \in Nat
  /\ MaxCalls \in Nat
  /\ MaxTime \in Nat

VARIABLES
  now,       \* the clock
  zset,      \* the sorted set: member -> score
  pc,        \* where each client is in its `with semaphore:` statement
  begun,     \* how many acquire calls have begun
  call,      \* which of them is each client's latest
  sentNow,   \* the `now` each client passes to the script
  endTime    \* the deadline of each client's current call

vars == <<now, zset, pc, begun, call, sentNow, endTime>>

-----------------------------------------------------------------------------
\* The uuid4 of an acquire call: never equal to that of another one.
Identifiers == Clients \X (0..MaxCalls)

Identifier(c) == <<c, call[c]>>

\* Mutant: reclaim a holder one tick too early.
UnexpiredTooEarly(t) == {id \in DOMAIN zset : zset[id] > t + 1 - HolderExpiry}

\* What ZREMRANGEBYSCORE key 0 (t - expiry) leaves.
Unexpired(t) == {id \in DOMAIN zset : zset[id] > t - HolderExpiry}

\* Mutant: ZCARD <= maxsize.
HasRoomOffByOne(members) == Cardinality(members) <= MaxSize

\* ZCARD < maxsize.
HasRoom(members) == Cardinality(members) < MaxSize

\* Mutant: release deletes the key.
AfterReleaseDel(c) == [id \in {} |-> 0]

\* ZREM key identifier.
AfterRelease(c) == [id \in DOMAIN zset \ {Identifier(c)} |-> zset[id]]

\* Clients that hold a slot and have not overstayed the expiry.
Active == {c \in Clients : pc[c] = "holding" /\ now < sentNow[c] + HolderExpiry}

-----------------------------------------------------------------------------
Init ==
  /\ now = 0
  /\ zset = [id \in {} |-> 0]
  /\ pc = [c \in Clients |-> "idle"]
  /\ begun = 0
  /\ call = [c \in Clients |-> 0]
  /\ sentNow = [c \in Clients |-> 0]
  /\ endTime = [c \in Clients |-> 0]

\* acquire(): a fresh identifier and a deadline.
Acquire(c) ==
  /\ pc[c] = "idle"
  /\ begun < MaxCalls
  /\ now + Timeout <= MaxTime
  /\ begun' = begun + 1
  /\ call' = [call EXCEPT ![c] = begun + 1]
  /\ endTime' = [endTime EXCEPT ![c] = now + Timeout]
  /\ pc' = [pc EXCEPT ![c] = "trying"]
  /\ UNCHANGED <<now, zset, sentNow>>

\* The head of the polling loop, in time: read the clock, send the script.
Send(c) ==
  /\ pc[c] = "trying"
  /\ now < endTime[c]
  /\ sentNow' = [sentNow EXCEPT ![c] = now]
  /\ pc' = [pc EXCEPT ![c] = "sent"]
  /\ UNCHANGED <<now, zset, begun, call, endTime>>

\* Mutant: the loop has no deadline.
TimeOutNever(c) ==
  /\ pc[c] = "trying"
  /\ now > endTime[c] + MaxTime
  /\ pc' = [pc EXCEPT ![c] = "idle"]
  /\ UNCHANGED <<now, zset, begun, call, sentNow, endTime>>

\* The head of the polling loop, too late: acquire returns False and
\* __enter__ raises TimeoutError.
TimeOut(c) ==
  /\ pc[c] = "trying"
  /\ now >= endTime[c]
  /\ pc' = [pc EXCEPT ![c] = "idle"]
  /\ UNCHANGED <<now, zset, begun, call, sentNow, endTime>>

\* The script finds a free slot.
Granted(c) ==
  LET kept == Unexpired(sentNow[c]) IN
  /\ pc[c] = "sent"
  /\ HasRoom(kept)
  /\ zset' = [id \in kept \cup {Identifier(c)} |->
                IF id = Identifier(c) THEN sentNow[c] ELSE zset[id]]
  /\ pc' = [pc EXCEPT ![c] = "holding"]
  /\ UNCHANGED <<now, begun, call, sentNow, endTime>>

\* The script finds none; the client sleeps and polls again.
Refused(c) ==
  LET kept == Unexpired(sentNow[c]) IN
  /\ pc[c] = "sent"
  /\ ~HasRoom(kept)
  /\ zset' = [id \in kept |-> zset[id]]
  /\ pc' = [pc EXCEPT ![c] = "trying"]
  /\ UNCHANGED <<now, begun, call, sentNow, endTime>>

\* release(): ZREM of the client's own member, which may be gone already.
Release(c) ==
  /\ pc[c] = "holding"
  /\ zset' = AfterRelease(c)
  /\ pc' = [pc EXCEPT ![c] = "idle"]
  /\ UNCHANGED <<now, begun, call, sentNow, endTime>>

\* The process is killed, or a Redis call raises: the `with` statement is
\* left without a ZREM.
Crash(c) ==
  /\ pc[c] # "idle"
  /\ pc' = [pc EXCEPT ![c] = "idle"]
  /\ UNCHANGED <<now, zset, begun, call, sentNow, endTime>>

Tick ==
  /\ now < MaxTime
  /\ now' = now + 1
  /\ UNCHANGED <<zset, pc, begun, call, sentNow, endTime>>

Step(c) ==
  Acquire(c) \/ Send(c) \/ TimeOut(c) \/ Granted(c) \/ Refused(c) \/ Release(c)

Next == (\E c \in Clients : Step(c) \/ Crash(c)) \/ Tick

Spec == Init /\ [][Next]_vars

\* A polling client keeps running and the clock keeps going; nobody has to
\* start a call or to leave the body of its `with` statement.
Poll(c) == Send(c) \/ TimeOut(c) \/ Granted(c) \/ Refused(c)

FairSpec == Spec /\ WF_vars(Tick) /\ \A c \in Clients : WF_vars(Poll(c))

-----------------------------------------------------------------------------
\* Every variable has its type.
TypeOK ==
  /\ now \in Nat
  /\ DOMAIN zset \in SUBSET Identifiers
  /\ zset \in [DOMAIN zset -> Nat]
  /\ pc \in [Clients -> {"idle", "trying", "sent", "holding"}]
  /\ begun \in 0..MaxCalls
  /\ call \in [Clients -> 0..MaxCalls]
  /\ sentNow \in [Clients -> Nat]
  /\ endTime \in [Clients -> Nat]

\* The sorted set never has more than maxsize members, whatever clients race,
\* die or run the script with an old clock value.
CapacityRespected ==
  /\ IsFiniteSet(DOMAIN zset)
  /\ Cardinality(DOMAIN zset) <= MaxSize

\* No other client's cleanup takes the slot of a holder younger than
\* HOLDER_EXPIRY, although cleanups run with times read by others.
YoungHolderKeepsSlot ==
  \A c \in Active :
    /\ Identifier(c) \in DOMAIN zset
    /\ zset[Identifier(c)] = sentNow[c]

\* A client's clock value is never ahead of the clock: with the invariants
\* around it, what makes them inductive.
ClockReadInPast == \A c \in Clients : sentNow[c] <= now

\* What the semaphore is for: of the clients that are in the body of the
\* `with` statement and within HOLDER_EXPIRY, at most maxsize at a time.
InUseBounded == Cardinality(Active) <= MaxSize

\* A member disappears only through its own client's release or because it
\* is at least HOLDER_EXPIRY old by the true clock.
OnlyOwnerOrExpiryFrees ==
  [][\A id \in DOMAIN zset \ DOMAIN zset' :
       \/ pc[id[1]] = "holding" /\ pc'[id[1]] = "idle" /\ id = Identifier(id[1])
       \/ zset[id] + HolderExpiry <= now]_vars

\* Every acquire call comes to an end: with a slot, or with False once the
\* timeout has passed.
AcquireReturns ==
  \A c \in Clients : pc[c] \in {"trying", "sent"} ~> pc[c] \in {"idle", "holding"}

\* RedisSemaphore implements CountingSemaphore; who is inside is read off the
\* clients, not off Redis.
Abstract == INSTANCE CountingSemaphore WITH active <- Active

ImplementsCountingSemaphore == Abstract!Spec

=============================================================================

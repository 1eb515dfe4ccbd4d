--------------------------- MODULE AllocationProofs ----------------------------
(***************************************************************************)
(* Allocations of the TURN server and their address: the range of ports,   *)
(* and the age of what DNS.Get returns, for any number of callers, of      *)
(* ports and of tries, and any minute and second.                          *)
(***************************************************************************)
EXTENDS Allocation, TLAPS

-----------------------------------------------------------------------------
\* The range of the relay's ports

\* Size and Drawn do not wrap for a range that config.Get accepts, or wrap twice.
LEMMA SizeOfRange ==
    ASSUME NEW r \in Range, r.min # 0, r.min <= r.max
    PROVE  Size(r) = r.max - r.min + 1
<1> USE ModulusAssumption DEF Range, UInt16
<1>1. CASE r.max = Modulus - 1
  <2>1. Add(r.max, 1) = 0
    BY <1>1 DEF Add
  <2>2. (0 - r.min) % Modulus = Modulus - r.min
    OBVIOUS
  <2> QED
    BY <1>1, <2>1, <2>2 DEF Size, Sub
<1>2. CASE r.max # Modulus - 1
  <2>1. Add(r.max, 1) = r.max + 1
    BY <1>2 DEF Add
  <2>2. (r.max + 1 - r.min) % Modulus = r.max + 1 - r.min
    BY <1>2
  <2> QED
    BY <2>1, <2>2 DEF Size, Sub
<1> QED
  BY <1>1, <1>2

\* What is drawn does not wrap.
LEMMA DrawnInRange ==
    ASSUME NEW r \in Range, r.min # 0, r.min <= r.max, NEW k \in 0..(r.max - r.min)
    PROVE  Drawn(r, k) = r.min + k
<1> USE ModulusAssumption DEF Range, UInt16
<1>1. r.min + k \in 0..(Modulus - 1)
  OBVIOUS
<1>2. (r.min + k) % Modulus = r.min + k
  BY <1>1
<1> QED
  BY <1>2 DEF Drawn, Add

\* What can be drawn for a range is the range.
LEMMA PortsOfRange ==
    ASSUME NEW r \in Range, r.min # 0, r.min <= r.max
    PROVE  Size(r) > 0 /\ Ports(r) = r.min..r.max
<1>1. Size(r) = r.max - r.min + 1
  BY SizeOfRange
<1>2. r.min \in Int /\ r.max \in Int
  BY DEF Range, UInt16
<1>3. 0..(Size(r) - 1) = 0..(r.max - r.min)
  BY <1>1, <1>2
<1>4. Ports(r) = {r.min + k : k \in 0..(r.max - r.min)}
  BY <1>3, DrawnInRange DEF Ports
<1>5. {r.min + k : k \in 0..(r.max - r.min)} = r.min..r.max
  <2>1. ASSUME NEW n \in r.min..r.max
        PROVE  n \in {r.min + k : k \in 0..(r.max - r.min)}
    <3>1. n - r.min \in 0..(r.max - r.min) /\ n = r.min + (n - r.min)
      BY <1>2
    <3> QED
      BY <3>1
  <2>2. ASSUME NEW k \in 0..(r.max - r.min)
        PROVE  r.min + k \in r.min..r.max
    BY <1>2
  <2> QED
    BY <2>1, <2>2
<1> QED
  BY <1>1, <1>2, <1>4, <1>5

\* A generator with a range has one that config.Get accepted; what is bound with a
\* range was drawn from it.
IInv ==
    /\ range # NoRange => range \in Range /\ range.min # 0 /\ range.min <= range.max
    /\ PortsInRange

\* The invariant holds for every range the configuration accepts.
LEMMA InitInv == Init => IInv
<1> SUFFICES ASSUME Init PROVE IInv
  OBVIOUS
<1>1. PICK r \in Range : Accepted(r) /\ range = Generator(r)
  BY DEF Init
<1>2. DOMAIN bound = {}
  BY DEF Init, Empty
<1> QED
  BY <1>1, <1>2 DEF IInv, PortsInRange, Accepted, Generator

\* No step of an allocation breaks it.
LEMMA NextInv == IInv /\ [Next]_vars => IInv'
<1> SUFFICES ASSUME IInv, [Next]_vars PROVE IInv'
  OBVIOUS
<1>1. range' = range
  BY DEF Next, vars, Start, Listen, Miss, ListenAnywhere, Release
<1> SUFFICES ASSUME range # NoRange PROVE PortsInRange'
  BY <1>1 DEF IInv, PortsInRange
<1>2. ASSUME NEW a, Listen(a)
      PROVE  PortsInRange'
  <2>1. PICK port \in Ports(range) : bound' = Put(bound, a, port)
    BY <1>2 DEF Listen
  <2>2. port \in range.min..range.max
    BY PortsOfRange DEF IInv
  <2> QED
    BY <1>1, <2>1, <2>2 DEF IInv, PortsInRange, Put
<1>3. ASSUME NEW a, Release(a)
      PROVE  PortsInRange'
  BY <1>1, <1>3 DEF Release, IInv, PortsInRange, Without
<1>4. ASSUME NEW a, Start(a) \/ Miss(a)
      PROVE  PortsInRange'
  BY <1>1, <1>4 DEF Start, Miss, IInv, PortsInRange
<1>5. CASE UNCHANGED vars
  BY <1>5 DEF vars, IInv, PortsInRange
<1> QED
  BY <1>2, <1>3, <1>4, <1>5 DEF Next, ListenAnywhere

\* The ports of every relay lie in the configured range, however wide a port number
\* is, at whichever end of it the range lies, and whatever is free.
THEOREM RelaysStayInRange == Spec => []PortsInRange
<1>1. IInv => PortsInRange
  BY DEF IInv
<1> QED
  BY <1>1, InitInv, NextInv, PTL DEF Spec

\* Every port of the range can be drawn and no other, and Intn is never asked for a
\* number below 0: the subtraction undoes the overflow of max + 1.
THEOREM TheRangeIsDrawn == Spec => []DrawsTheWholeRange
<1>1. IInv => DrawsTheWholeRange
  BY PortsOfRange DEF IInv, DrawsTheWholeRange
<1> QED
  BY <1>1, InitInv, NextInv, PTL DEF Spec

-----------------------------------------------------------------------------
\* The address, and allocations that need it

\* Whether n is no longer than r is kept, and whether it is just that.
Fresh(r, n) == (r = Failure => n <= Second) /\ (r # Failure => n <= Minute)
Lasts(r, n) == (r = Failure => n = Second) /\ (r # Failure => n = Minute)

Answer == [result : Address \cup {Failure}, age : Nat]

\* What is cached may be used for as long as its kind is kept, counted from its lookup;
\* before the first lookup nothing may.
CacheInv ==
    /\ pc \in [Caller -> {"idle", "waits", "looking"}]
    /\ now \in Nat
    /\ result \in Address \cup {Failure}
    /\ \/ fetched = Never /\ refetch = Never
       \/ fetched \in 0..now /\ refetch \in Nat /\ Lasts(result, refetch - fetched)
    /\ got \in [Caller -> Answer]
    /\ \A c \in Caller : Fresh(got[c].result, got[c].age)

AllocationInv == IInv /\ CacheInv

-----------------------------------------------------------------------------

LEMMA InitAllocationInv == AllocationInit => AllocationInv
<1> SUFFICES ASSUME AllocationInit PROVE AllocationInv
  OBVIOUS
<1>1. IInv
  BY InitInv DEF AllocationInit
<1>2. CacheInv
  BY TimeAssumption DEF AllocationInit, CacheInit, CacheInv, Answer, Fresh, Never
<1> QED
  BY <1>1, <1>2 DEF AllocationInv

\* What an allocation does to its port is a step of RelayPorts, or none.
LEMMA PortsStep == [AllocationNext]_allocationVars => [Next]_vars
<1> SUFFICES ASSUME [AllocationNext]_allocationVars PROVE [Next]_vars
  OBVIOUS
<1>1. CASE UNCHANGED allocationVars
  BY <1>1 DEF allocationVars, vars
<1>2. CASE LoopAsks \/ TimePasses
  BY <1>2 DEF LoopAsks, TimePasses, vars
<1>3. ASSUME NEW a \in Allocation, Draws(a) \/ Binds(a) \/ Expires(a)
      PROVE  [Next]_vars
  BY <1>3 DEF Draws, Binds, Expires, Next
<1>4. ASSUME NEW c \in Caller, Gets(c) \/ Resolves(c)
      PROVE  [Next]_vars
  BY <1>4 DEF Gets, Resolves, vars
<1> QED
  BY <1>1, <1>2, <1>3, <1>4 DEF AllocationNext

\* What a caller of Get gets is as fresh as it should be, if what it was given is.
LEMMA ReturnsFresh ==
    ASSUME CacheInv, NEW c \in Caller, NEW r \in Address \cup {Failure}, NEW age \in Nat,
           Fresh(r, age), Returns(c, r, age)
    PROVE  got' \in [Caller -> Answer] /\ \A d \in Caller : Fresh(got'[d].result, got'[d].age)
<1>1. got' = [got EXCEPT ![c] = [result |-> r, age |-> age]]
  BY DEF Returns
<1>2. got' \in [Caller -> Answer]
  BY <1>1 DEF CacheInv, Answer
<1>3. \A d \in Caller : got'[d] = IF d = c THEN [result |-> r, age |-> age] ELSE got[d]
  BY <1>1 DEF CacheInv
<1>4. \A d \in Caller : Fresh(got'[d].result, got'[d].age)
  <2> TAKE d \in Caller
  <2>1. CASE d = c
    BY <1>3, <2>1
  <2>2. CASE d # c
    BY <1>3, <2>2 DEF CacheInv
  <2> QED
    BY <2>1, <2>2
<1> QED
  BY <1>2, <1>4

\* No step of a caller, of the clock or of an allocation breaks the cache.
LEMMA CacheStep ==
    ASSUME CacheInv, [AllocationNext]_allocationVars
    PROVE  CacheInv'
<1> USE TimeAssumption
<1>1. ASSUME UNCHANGED <<now, result, refetch, fetched, got>>,
             pc' \in [Caller -> {"idle", "waits", "looking"}]
      PROVE  CacheInv'
  BY <1>1 DEF CacheInv, Fresh, Lasts
<1>2. CASE UNCHANGED allocationVars
  BY <1>1, <1>2 DEF allocationVars, cacheVars, CacheInv
<1>3. CASE LoopAsks
  BY <1>1, <1>3 DEF LoopAsks, Get, CacheInv
<1>4. CASE TimePasses
  BY <1>4 DEF TimePasses, Tick, CacheInv, Fresh, Lasts
<1>5. ASSUME NEW a \in Allocation, Draws(a) \/ Binds(a) \/ Expires(a)
      PROVE  CacheInv'
  BY <1>1, <1>5 DEF Draws, Binds, Expires, Get, cacheVars, CacheInv
<1>6. ASSUME NEW c \in Caller, Cached(c)
      PROVE  CacheInv'
  <2>1. fetched # Never /\ now - fetched \in Nat /\ Fresh(result, now - fetched)
    BY <1>6 DEF Cached, CacheInv, Never, Fresh, Lasts
  <2>2. got' \in [Caller -> Answer] /\ \A d \in Caller : Fresh(got'[d].result, got'[d].age)
    BY <1>6, <2>1, ReturnsFresh DEF Cached, CacheInv
  <2> QED
    BY <1>6, <2>2 DEF Cached, Returns, CacheInv, Fresh, Lasts
<1>7. ASSUME NEW c \in Caller, LookUp(c)
      PROVE  CacheInv'
  BY <1>1, <1>7 DEF LookUp, CacheInv
<1>8. ASSUME NEW c \in Caller, Found(c)
      PROVE  CacheInv'
  <2>1. PICK r \in Address \cup {Failure} :
            result' = r /\ fetched' = now /\ Kept(c, r) /\ Returns(c, r, 0)
    BY <1>8 DEF Found
  <2>2. got' \in [Caller -> Answer] /\ \A d \in Caller : Fresh(got'[d].result, got'[d].age)
    <3>1. Fresh(r, 0)
      BY DEF Fresh
    <3> QED
      BY <2>1, <3>1, ReturnsFresh
  <2>3. refetch' \in Nat /\ Lasts(r, refetch' - now)
    BY <2>1 DEF Kept, Lasts, CacheInv
  <2>4. now' = now /\ pc' \in [Caller -> {"idle", "waits", "looking"}]
    BY <1>8, <2>1 DEF Found, Returns, CacheInv
  <2>5. now' \in Nat /\ fetched' \in 0..now'
    BY <2>1, <2>4 DEF CacheInv
  <2>6. Lasts(r, refetch' - fetched')
    BY <2>1, <2>3
  <2> QED
    BY <2>1, <2>2, <2>3, <2>4, <2>5, <2>6 DEF CacheInv, Fresh, Lasts
<1> QED
  BY <1>2, <1>3, <1>4, <1>5, <1>6, <1>7, <1>8 DEF AllocationNext, Gets, Resolves

LEMMA AllocationInvHolds == AllocationSpec => []AllocationInv
<1>1. AllocationInv /\ [AllocationNext]_allocationVars => AllocationInv'
  BY NextInv, PortsStep, CacheStep DEF AllocationInv
<1> QED
  BY <1>1, InitAllocationInv, PTL DEF AllocationSpec

-----------------------------------------------------------------------------

\* The ports of every allocation lie in the configured range, whatever the allocations
\* wait for meanwhile.
THEOREM AllocationsStayInRange == AllocationSpec => []PortsInRange
<1>1. AllocationInv => PortsInRange
  BY DEF AllocationInv, IInv
<1> QED
  BY <1>1, AllocationInvHolds, PTL

\* Nobody gets an address older than a minute or a failure older than a second, however
\* many wait for the lock and however long.
THEOREM NobodyGetsAnOldAnswer == AllocationSpec => []AnswersAreFresh
<1>1. AllocationInv => AnswersAreFresh
  BY DEF AllocationInv, CacheInv, AnswersAreFresh, Fresh
<1> QED
  BY <1>1, AllocationInvHolds, PTL

\* Between two lookups there is always more than a second, also when the first failed.
THEOREM LookupsAreApart == AllocationSpec => ResolverIsSpared
<1> DEFINE Spared == \A c \in Caller :
        pc[c] = "waits" /\ pc'[c] = "looking" /\ fetched # Never => now > fetched + Second
<1>1. AllocationInv /\ [AllocationNext]_allocationVars => [Spared]_cacheVars
  <2> SUFFICES ASSUME AllocationInv, [AllocationNext]_allocationVars, NEW c \in Caller,
                      pc[c] = "waits", pc'[c] = "looking", fetched # Never
               PROVE  now > fetched + Second
    OBVIOUS
  <2>1. CASE UNCHANGED allocationVars
    BY <2>1 DEF allocationVars, cacheVars
  <2>2. CASE LoopAsks
    BY <2>2 DEF LoopAsks, Get, AllocationInv, CacheInv
  <2>3. CASE TimePasses
    BY <2>3 DEF TimePasses, Tick
  <2>4. ASSUME NEW a \in Allocation, Draws(a) \/ Binds(a) \/ Expires(a)
        PROVE  now > fetched + Second
    BY <2>4 DEF Draws, Binds, Expires, Get, cacheVars, AllocationInv, CacheInv
  <2>5. ASSUME NEW d \in Caller, Cached(d) \/ Found(d)
        PROVE  now > fetched + Second
    BY <2>5 DEF Cached, Found, Returns, AllocationInv, CacheInv
  <2>6. ASSUME NEW d \in Caller, LookUp(d)
        PROVE  now > fetched + Second
    BY <2>6, TimeAssumption DEF LookUp, AllocationInv, CacheInv, Lasts
  <2> QED
    BY <2>1, <2>2, <2>3, <2>4, <2>5, <2>6 DEF AllocationNext, Gets, Resolves
<1> QED
  BY <1>1, AllocationInvHolds, PTL DEF AllocationSpec, ResolverIsSpared
=============================================================================

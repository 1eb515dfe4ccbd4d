------------------------------ MODULE Allocation ------------------------------
(***************************************************************************)
(* An allocation of the TURN server (turn/server.go, Generator): a port is *)
(* bound, and then the address to advertise is asked for, behind the lock  *)
(* that the main loop takes for every session (ws/room.go, newSession).    *)
(***************************************************************************)
EXTENDS RelayPorts, AddressCache

CONSTANT Loop  \* the main loop, as a caller

ASSUME CallerAssumption == Caller = Allocation \cup {Loop} /\ Loop \notin Allocation

VARIABLE
    relays  \* the allocations in use, and what each advertises

allocationVars == <<vars, cacheVars, relays>>

AllocationInit ==
    /\ Init
    /\ CacheInit
    /\ relays = Empty

-----------------------------------------------------------------------------

Draws(a) == pc[a] = "idle" /\ (Start(a) \/ Miss(a)) /\ UNCHANGED <<cacheVars, relays>>

\* The generator has a port, and Generator asks for the address.
Binds(a) == (Listen(a) \/ ListenAnywhere(a)) /\ Get(a) /\ UNCHANGED relays

\* With an error the port is returned all the same, to a caller that takes the error for
\* an allocation that is not: nobody closes it.
Returned(c) ==
    relays' = IF c \in Allocation /\ pc'[c] = "idle" /\ got'[c].result # Failure
              THEN Put(relays, c, got'[c].result) ELSE relays

Gets(c) == (Cached(c) \/ LookUp(c)) /\ Returned(c) /\ UNCHANGED vars
Resolves(c) == Found(c) /\ Returned(c) /\ UNCHANGED vars

\* The loop is about to announce a session.
LoopAsks == Get(Loop) /\ UNCHANGED <<vars, relays>>

Expires(a) ==
    /\ a \in DOMAIN relays
    /\ Release(a)
    /\ relays' = Without(relays, {a})
    /\ UNCHANGED cacheVars

TimePasses == Tick /\ UNCHANGED <<vars, relays>>

AllocationNext ==
    \/ LoopAsks \/ TimePasses
    \/ \E a \in Allocation : Draws(a) \/ Binds(a) \/ Expires(a)
    \/ \E c \in Caller : Gets(c) \/ Resolves(c)

AllocationSpec == AllocationInit /\ [][AllocationNext]_allocationVars

\* Lookups end, the resolver having its own timeouts, and the mutex starves nobody.
AllocationFairness ==
    \A c \in Caller : WF_allocationVars(Resolves(c)) /\ SF_allocationVars(Gets(c))

FairAllocationSpec == AllocationSpec /\ AllocationFairness

-----------------------------------------------------------------------------

\* The ports that stay bound for ever: each lookup that fails under an allocation leaves
\* one behind, of a range that may be small.
Lost == {a \in DOMAIN bound : a \notin DOMAIN relays /\ pc[a] = "idle"}
=============================================================================

------------------------------ MODULE RelayPorts ------------------------------
(***************************************************************************)
(* The UDP ports the TURN server relays on (turn/portrange.go,             *)
(* turn/none.go, turn/server.go) and the range the configuration accepts   *)
(* for them (config/config.go), in unsigned arithmetic that wraps.         *)
(***************************************************************************)
EXTENDS Integers, FiniteSets, Maps

CONSTANTS
    Modulus,    \* 65536: ports are uint16
    Allocation, \* allocations under way or in use
    MaxTries,   \* 10
    NoRange     \* the configuration of a server that limits no ports

ASSUME ModulusAssumption == Modulus \in Nat /\ Modulus > 1
ASSUME MaxTriesAssumption == MaxTries \in Nat \ {0}

VARIABLES
    range,  \* the generator: NoRange or a RelayAddressGeneratorPortRange
    tries,  \* of the allocations that draw ports, how many they have drawn
    bound   \* the ports of those that have one

vars == <<range, tries, bound>>

UInt16 == 0..(Modulus - 1)
Range == [min: UInt16, max: UInt16]

Add(a, b) == (a + b) % Modulus
Sub(a, b) == (a - b) % Modulus

\* Mutant: min and max are not compared.
AcceptedInAnyOrder(r) == (r.min = 0) = (r.max = 0)

\* What config.Get lets pass.
Accepted(r) ==
    \/ r.min = 0 /\ r.max = 0
    \/ r.min # 0 /\ r.max # 0 /\ r.min <= r.max

\* Config.PortRange and generator.
Generator(r) == IF r.min # 0 /\ r.max # 0 THEN r ELSE NoRange

Init ==
    /\ \E r \in Range : Accepted(r) /\ range = Generator(r)
    /\ tries = Empty
    /\ bound = Empty

-----------------------------------------------------------------------------

\* The argument of Intn.
Size(r) == Sub(Add(r.max, 1), r.min)

Drawn(r, k) == Add(r.min, k)

Ports(r) == {Drawn(r, k) : k \in 0..(Size(r) - 1)}

\* AllocatePacketConn with no port asked for.
Start(a) ==
    /\ a \notin DOMAIN tries \cup DOMAIN bound
    /\ range # NoRange
    /\ tries' = Put(tries, a, 0)
    /\ UNCHANGED <<range, bound>>

Taken == {bound[b] : b \in DOMAIN bound}

\* A port is drawn and is free.
Listen(a) ==
    /\ a \in DOMAIN tries
    /\ \E port \in Ports(range) \ Taken : bound' = Put(bound, a, port)
    /\ tries' = Without(tries, {a})
    /\ UNCHANGED range

\* A port is drawn that this server or somebody else listens on; after MaxTries of
\* them the allocation fails.
Miss(a) ==
    /\ a \in DOMAIN tries
    /\ tries' = IF tries[a] + 1 < MaxTries
                THEN [tries EXCEPT ![a] = @ + 1] ELSE Without(tries, {a})
    /\ UNCHANGED <<range, bound>>

\* Without a range the system picks any free port.
ListenAnywhere(a) ==
    /\ a \notin DOMAIN tries \cup DOMAIN bound
    /\ range = NoRange
    /\ \E port \in (UInt16 \ {0}) \ Taken : bound' = Put(bound, a, port)
    /\ UNCHANGED <<range, tries>>

\* The allocation expires.
Release(a) ==
    /\ a \in DOMAIN bound
    /\ bound' = Without(bound, {a})
    /\ UNCHANGED <<range, tries>>

Next ==
    \E a \in Allocation :
        Start(a) \/ Listen(a) \/ Miss(a) \/ ListenAnywhere(a) \/ Release(a)

Spec == Init /\ [][Next]_vars

-----------------------------------------------------------------------------
\* Properties

\* "Limit the ports that TURN will use" (screego.config.example): with a range, every
\* relay listens inside of it, also when the range reaches the last port, for which
\* max + 1 is 0.
PortsInRange ==
    range # NoRange => \A a \in DOMAIN bound : bound[a] \in range.min..range.max

\* The ports that can be drawn are those of the range, none left out and none else:
\* a range of one port is not empty and Intn never gets 0, which it panics at.
DrawsTheWholeRange ==
    range # NoRange => Size(range) > 0 /\ Ports(range) = range.min..range.max
=============================================================================

----------------------------- MODULE AddressCache -----------------------------
(***************************************************************************)
(* The server's external address when it is given by a domain              *)
(* (config/ipdns/dns.go): whoever needs it, the main loop among them,      *)
(* takes a lock and looks it up if what is cached is too old.  Allocation  *)
(* has the next-state relation.                                            *)
(***************************************************************************)
EXTENDS Integers

CONSTANTS
    Caller,   \* the main loop and the allocations of the TURN server
    Address,  \* what the domain may resolve to
    Failure,  \* a lookup that fails or finds no address
    Minute,   \* how long an address is kept
    Second,   \* how long a failure is
    MaxTime   \* bounds the clock

ASSUME FailureAssumption == Failure \notin Address
ASSUME TimeAssumption ==
    Second \in Nat /\ Minute \in Nat /\ MaxTime \in Nat /\ Second <= Minute

VARIABLES
    now,      \* the clock
    pc,       \* where each caller is in Get
    lock,     \* DNS.Mutex: who holds it
    result,   \* DNS.v4, DNS.v6 and DNS.err
    refetch,  \* DNS.refetch
    fetched,  \* when result was: not kept by the program
    got       \* what each caller's last Get returned, and how old it was then

cacheVars == <<now, pc, lock, result, refetch, fetched, got>>

Free == "free"
Never == -1

CacheInit ==
    /\ now = 0
    /\ pc = [c \in Caller |-> "idle"]
    /\ lock = Free
    /\ result = Failure
    /\ refetch = Never
    /\ fetched = Never
    /\ got = [c \in Caller |-> [result |-> Failure, age |-> 0]]

Tick ==
    /\ now < MaxTime
    /\ now' = now + 1
    /\ UNCHANGED <<pc, lock, result, refetch, fetched, got>>

Get(c) ==
    /\ pc[c] = "idle"
    /\ pc' = [pc EXCEPT ![c] = "waits"]
    /\ UNCHANGED <<now, lock, result, refetch, fetched, got>>

Returns(c, r, age) ==
    /\ pc' = [pc EXCEPT ![c] = "idle"]
    /\ got' = [got EXCEPT ![c] = [result |-> r, age |-> age]]

\* The lock is taken and what is cached will do.
Cached(c) ==
    /\ pc[c] = "waits" /\ lock = Free
    /\ ~(refetch < now)
    /\ Returns(c, result, now - fetched)
    /\ UNCHANGED <<now, lock, result, refetch, fetched>>

\* The lock is taken and kept for a lookup.
LookUp(c) ==
    /\ pc[c] = "waits" /\ lock = Free
    /\ refetch < now
    /\ lock' = c
    /\ pc' = [pc EXCEPT ![c] = "looking"]
    /\ UNCHANGED <<now, result, refetch, fetched, got>>

\* Mutants: a failure is kept like an address; it does not set refetch; the lock is
\* released on success only.
KeptForAMinute(c, r) ==
    /\ refetch' = now + Minute
    /\ lock' = Free

KeptIfGood(c, r) ==
    /\ refetch' = IF r = Failure THEN refetch ELSE now + Minute
    /\ lock' = Free

KeptLocked(c, r) ==
    /\ refetch' = IF r = Failure THEN now + Second ELSE now + Minute
    /\ lock' = IF r = Failure THEN c ELSE Free

\* The end of Get: how long r is kept; the lock is released.
Kept(c, r) ==
    /\ refetch' = IF r = Failure THEN now + Second ELSE now + Minute
    /\ lock' = Free

\* A failure replaces the address there was.
Found(c) ==
    /\ pc[c] = "looking"
    /\ \E r \in Address \cup {Failure} :
        /\ result' = r
        /\ fetched' = now
        /\ Kept(c, r)
        /\ Returns(c, r, 0)
    /\ UNCHANGED now

-----------------------------------------------------------------------------
\* Properties

\* No caller gets an address older than a minute or a failure older than a second,
\* however long it waited behind another's lookup.
AnswersAreFresh ==
    \A c \in Caller :
        got[c].age <= IF got[c].result = Failure THEN Second ELSE Minute

\* "don't spam the dns server": callers that pile up behind a lookup that fails do not
\* repeat it one after the other.
ResolverIsSpared ==
    [][\A c \in Caller :
        pc[c] = "waits" /\ pc'[c] = "looking" /\ fetched # Never => now > fetched + Second]_cacheVars

\* Every call returns, a failed lookup before it or not; the main loop is one of the
\* callers and everybody waits for it, and allocations wait with their port bound.
CallsReturn == \A c \in Caller : (pc[c] = "waits") ~> (pc[c] = "idle")
=============================================================================

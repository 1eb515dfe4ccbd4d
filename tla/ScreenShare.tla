----------------------------- MODULE ScreenShare -----------------------------
(***************************************************************************)
(* What the server promises its users, with no message, session or         *)
(* credential in sight: people enter and leave rooms, some of those inside *)
(* share their screen, and at every moment each shared screen is fed to    *)
(* exactly the other people of that room.                                  *)
(***************************************************************************)
CONSTANTS
    Person,
    Place,
    Nowhere

VARIABLES
    where,    \* the room each person is in, or Nowhere
    sharing,  \* who shares a screen
    feeds     \* pairs: the screen of the first is shown to the second

svars == <<where, sharing, feeds>>

\* The feeds there should be.
Feeds(w, sharers) ==
    {f \in sharers \X Person :
        /\ f[1] # f[2]
        /\ w[f[1]] = w[f[2]]
        /\ w[f[2]] # Nowhere}

Init ==
    /\ where = [p \in Person |-> Nowhere]
    /\ sharing = {}
    /\ feeds = {}

Enter(p, place) ==
    /\ where[p] = Nowhere
    /\ where' = [where EXCEPT ![p] = place]
    /\ UNCHANGED sharing

\* One person goes, or the whole room is sent away.
Depart(P) ==
    /\ \A p \in P : where[p] # Nowhere
    /\ where' = [p \in Person |-> IF p \in P THEN Nowhere ELSE where[p]]
    /\ sharing' = sharing \ P

Leave(p) == Depart({p})

Clear(place) == Depart({p \in Person : where[p] = place})

Share(p) ==
    /\ where[p] # Nowhere
    /\ sharing' = sharing \cup {p}
    /\ UNCHANGED where

Unshare(p) ==
    /\ sharing' = sharing \ {p}
    /\ UNCHANGED where

Next ==
    /\ \/ \E p \in Person :
            \/ \E place \in Place : Enter(p, place)
            \/ Leave(p) \/ Share(p) \/ Unshare(p)
       \/ \E place \in Place : Clear(place)
    /\ feeds' = Feeds(where', sharing')

Spec == Init /\ [][Next]_svars
=============================================================================

--------------------------- MODULE HandshakeProofs ---------------------------
(***************************************************************************)
(* Proofs that no handshake between two pages stalls and no viewer's peer  *)
(* outlives its session, for any number of pages and shares.  PagesInv     *)
(* (PagesProofs.tla) excludes that a message comes too early or too late;  *)
(* here it is that something is there at all: for what each end waits for, *)
(* the message, the handler or the end that is to come.                    *)
(***************************************************************************)
EXTENDS PagesProofs

-----------------------------------------------------------------------------
\* How a handshake goes on

\* Each m in queue q has an n behind it.
Trailed(q, m, n) == \A i \in DOMAIN q : q[i] = m => \E j \in (i + 1)..Len(q) : q[j] = n

LEMMA TrailedTail ==
    ASSUME NEW S, NEW q \in Seq(S), q # <<>>, NEW m, NEW n, Trailed(q, m, n)
    PROVE  Trailed(Tail(q), m, n) /\ (Head(q) = m => Holds(Tail(q), n))
<1>1. /\ Len(q) \in Nat \ {0} /\ DOMAIN q = 1..Len(q) /\ Len(Tail(q)) = Len(q) - 1
      /\ DOMAIN Tail(q) = 1..(Len(q) - 1) /\ \A i \in 1..(Len(q) - 1) : Tail(q)[i] = q[i + 1]
      /\ Head(q) = q[1]
  BY HeadTailProperties, LenProperties
<1>2. ASSUME NEW i \in DOMAIN Tail(q), Tail(q)[i] = m
      PROVE  \E j \in (i + 1)..Len(Tail(q)) : Tail(q)[j] = n
  <2>1. i + 1 \in DOMAIN q /\ q[i + 1] = m /\ i \in Nat
    BY <1>1, <1>2
  <2>2. PICK j \in (i + 1 + 1)..Len(q) : q[j] = n
    BY <2>1 DEF Trailed
  <2>3. j - 1 \in (i + 1)..Len(Tail(q)) /\ Tail(q)[j - 1] = n
    BY <1>1, <2>1, <2>2
  <2> QED BY <2>3
<1>3. ASSUME Head(q) = m PROVE Holds(Tail(q), n)
  <2>1. 1 \in DOMAIN q /\ q[1] = m
    BY <1>1, <1>3
  <2>2. PICK j \in (1 + 1)..Len(q) : q[j] = n
    BY <2>1 DEF Trailed
  <2>3. j - 1 \in DOMAIN Tail(q) /\ Tail(q)[j - 1] = n
    BY <1>1, <2>2
  <2> QED BY <2>3 DEF Holds
<1> QED BY <1>2, <1>3 DEF Trailed

LEMMA TrailedAppend ==
    ASSUME NEW S, NEW q \in Seq(S), NEW x \in S, NEW m, NEW n
    PROVE  /\ Trailed(q, m, n) /\ x # m => Trailed(Append(q, x), m, n)
           /\ x = n /\ x # m => Trailed(Append(q, x), m, n)
<1>1. /\ Len(q) \in Nat /\ DOMAIN q = 1..Len(q) /\ Len(Append(q, x)) = Len(q) + 1
      /\ DOMAIN Append(q, x) = 1..(Len(q) + 1)
      /\ \A i \in 1..Len(q) : Append(q, x)[i] = q[i]
      /\ Append(q, x)[Len(q) + 1] = x
  BY AppendProperties, LenProperties
<1>2. ASSUME Trailed(q, m, n) \/ x = n, x # m, NEW i \in DOMAIN Append(q, x), Append(q, x)[i] = m
      PROVE  \E j \in (i + 1)..Len(Append(q, x)) : Append(q, x)[j] = n
  <2>1. i \in DOMAIN q /\ q[i] = m
    BY <1>1, <1>2
  <2>2. CASE Trailed(q, m, n)
    <3>1. PICK j \in (i + 1)..Len(q) : q[j] = n
      BY <2>1, <2>2 DEF Trailed
    <3>2. j \in (i + 1)..Len(Append(q, x)) /\ Append(q, x)[j] = n
      BY <1>1, <2>1, <3>1
    <3> QED BY <3>2
  <2>3. CASE x = n
    <3>1. Len(q) + 1 \in (i + 1)..Len(Append(q, x)) /\ Append(q, x)[Len(q) + 1] = n
      BY <1>1, <2>1, <2>3
    <3> QED BY <3>1
  <2> QED BY <1>2, <2>2, <2>3
<1> QED BY <1>2 DEF Trailed

\* A page has peers for what it watches, and if it does not share, the loop, which may
\* think it does, is yet to hear of its stopping.  S are those who share for the loop.
Own(p, S, g, a, i) ==
    /\ \A s \in DOMAIN g.clients : s \in Proper /\ s.client = p
    /\ \A s : Holds(i, CS(s)) => s.client = p
    /\ g.phase # "shut" /\ ~g.stream =>
        /\ p \in S => Holds(a, Msg("stopshare"))
        /\ Trailed(a, Msg("share"), Msg("stopshare"))

\* The client's side of s: announced once and not after its end; once it is over the page
\* has no peer, or will be told; and what answers an offer is a peer that waits for one.
Watched(s, O, C, j) ==
    C.phase # "shut" =>
        /\ Once(j, CS(s)) /\ Free(j, CS(s), ES(s))
        /\ Holds(j, CS(s)) => s \notin DOMAIN C.clients /\ s \notin C.answering
        /\ s \notin O /\ (Live(C.clients, s) \/ Holds(j, CS(s))) => EndIn(j, s)
        /\ s \in O /\ s \in C.answering => Waits(C, s)

\* An offer that is yet to leave the host, and one that has.
Coming(s, H, a, i) == Holds(i, HS(s)) \/ s \in H.offering \/ Holds(a, HO(s))
Asked(s, C, j) == Holds(j, HO(s)) \/ s \in C.answering

Offered(H, s) == s \in DOMAIN H.hosts /\ H.hosts[s] = "offered"

\* While s is open and both pages are there: a client that waits has an offer to come,
\* unless the host has stopped, and a host that has made one an answer.
Going(s, O, H, a, i, C, b, j) ==
    s \in O /\ H.phase # "shut" /\ C.phase # "shut" =>
        /\ (Waits(C, s) \/ Holds(j, CS(s))) /\ ~Holds(a, Msg("stopshare")) =>
                Coming(s, H, a, i) \/ Asked(s, C, j)
        /\ Offered(H, s) =>
                Holds(a, HO(s)) \/ Asked(s, C, j) \/ Holds(b, CA(s)) \/ Holds(i, CA(s))

OwnOf(p) == Own(p, Sharing, page[p], toServer[p], toPage[p])
WatchedOf(s) == Watched(s, Open, page[s.client], toPage[s.client])
GoingOf(s) ==
    Going(s, Open, page[s.host], toServer[s.host], toPage[s.host],
          page[s.client], toServer[s.client], toPage[s.client])

CallInv ==
    /\ \A p \in Client : OwnOf(p)
    /\ \A s \in Proper : WatchedOf(s) /\ GoingOf(s)

\* When the host turns from H, a, i to G, d, k nothing of its part is lost.
HostGoes(s, O, H, a, i, G, d, k) ==
    s \in O /\ G.phase # "shut" =>
        /\ H.phase # "shut"
        /\ Holds(d, Msg("stopshare"))
              \/ (~Holds(a, Msg("stopshare")) /\ (Coming(s, H, a, i) => Coming(s, G, d, k)))
        /\ Offered(G, s) =>
              \/ Holds(d, HO(s))
              \/ /\ Offered(H, s)
                 /\ Holds(a, HO(s)) => Holds(d, HO(s))
                 /\ Holds(i, CA(s)) => Holds(k, CA(s))

LEMMA HostGoesOn ==
    ASSUME NEW s, NEW O, NEW H, NEW a, NEW i, NEW C, NEW b, NEW j,
           NEW G, NEW d, NEW k, HostGoes(s, O, H, a, i, G, d, k),
           Going(s, O, H, a, i, C, b, j)
    PROVE  Going(s, O, G, d, k, C, b, j)
BY DEF HostGoes, Going

\* Nor of the client's when it turns from C, b, j to D, e, l.
ClientGoes(s, O, C, b, j, D, e, l) ==
    s \in O /\ D.phase # "shut" =>
        /\ C.phase # "shut"
        /\ Waits(D, s) \/ Holds(l, CS(s)) =>
              /\ Waits(C, s) \/ Holds(j, CS(s))
              /\ Asked(s, C, j) => Asked(s, D, l)
        /\ Asked(s, C, j) \/ Holds(b, CA(s)) => Asked(s, D, l) \/ Holds(e, CA(s))

LEMMA ClientGoesOn ==
    ASSUME NEW s, NEW O, NEW H, NEW a, NEW i, NEW C, NEW b, NEW j,
           NEW D, NEW e, NEW l, ClientGoes(s, O, C, b, j, D, e, l),
           Going(s, O, H, a, i, C, b, j)
    PROVE  Going(s, O, H, a, i, D, e, l)
BY DEF ClientGoes, Going

\* What the client is told of s does not grow, nor what it has of it.
WatchesLess(s, O, C, j, D, l) ==
    D.phase # "shut" =>
        /\ C.phase # "shut"
        /\ Once(j, CS(s)) => Once(l, CS(s))
        /\ Free(j, CS(s), ES(s)) => Free(l, CS(s), ES(s))
        /\ Holds(l, CS(s)) => Holds(j, CS(s))
        /\ s \in DOMAIN D.clients => s \in DOMAIN C.clients
        /\ Live(D.clients, s) => Live(C.clients, s)
        /\ s \in D.answering => s \in C.answering \/ (s \in DOMAIN C.clients /\ Waits(D, s))
        /\ Waits(C, s) /\ s \in D.answering => Waits(D, s)
        /\ EndIn(j, s) => EndIn(l, s) \/ (~Live(D.clients, s) /\ ~Holds(l, CS(s)))

LEMMA WatchedLess ==
    ASSUME NEW s, NEW O, NEW C, NEW j, NEW D, NEW l,
           WatchesLess(s, O, C, j, D, l), Watched(s, O, C, j)
    PROVE  Watched(s, O, D, l)
BY DEF WatchesLess, Watched

-----------------------------------------------------------------------------
\* What a page does to it

\* Who shares is in a room, and whose screen is sent shares, for the loop.
Sharers ==
    /\ Sharing \subseteq DOMAIN connected
    /\ \A s \in Open : s.host \in Sharing

LEMMA SharersKnown == LInv => Sharers
<1> SUFFICES ASSUME LInv PROVE Sharers
  OBVIOUS
<1>1. \A h : h \in Sharing <=> \E r \in DOMAIN rooms : h \in Streamers(rooms[r].users)
  BY DEF Sharing
<1>2. ASSUME NEW h \in Sharing PROVE h \in DOMAIN connected
  BY <1>1 DEF LInv, IInv, ConnectedMatchesRooms, Streamers
<1>3. ASSUME NEW s \in Open PROVE s.host \in Sharing
  <2>1. PICK r \in DOMAIN rooms : s \in rooms[r].sessions
    BY DEF Open
  <2>2. s.host \in DOMAIN rooms[r].users /\ rooms[r].users[s.host].streaming
    BY <2>1 DEF LInv, IInv, SessionsJoinMembers
  <2> QED BY <1>1, <2>2 DEF Streamers
<1> QED BY <1>2, <1>3 DEF Sharers

\* As CallInv would have it of p's page, what it has written and what it has yet to read.
CallFits(p, g, a, i) ==
    /\ Own(p, Sharing, g, a, i)
    /\ \A s \in Proper : s.client = p =>
        /\ Watched(s, Open, g, i)
        /\ ClientGoes(s, Open, page[p], toServer[p], toPage[p], g, a, i)
    /\ \A s \in Proper : s.host = p =>
            HostGoes(s, Open, page[p], toServer[p], toPage[p], g, a, i)

\* A step of p's page keeps it.
LEMMA CallStep ==
    ASSUME PagesInv, CallInv, NEW p \in Client, NEW g, NEW a, NEW i,
           PageBecomes(p, g, a, i), CallFits(p, g, a, i), Open' = Open, Sharing' = Sharing
    PROVE  CallInv'
<1>1. /\ page = [d \in Client |-> page[d]] /\ toServer \in [Client -> Seq(Wire)]
      /\ toPage \in [Client -> Seq(Wire)]
  BY DEF PagesInv, PagesType
<1>2. /\ page'[p] = g /\ toServer'[p] = a /\ toPage'[p] = i
      /\ \A d \in Client \ {p} :
            page'[d] = page[d] /\ toServer'[d] = toServer[d] /\ toPage'[d] = toPage[d]
  BY <1>1 DEF PageBecomes
<1>3. ASSUME NEW d \in Client PROVE Own(d, Sharing', page'[d], toServer'[d], toPage'[d])
  <2>1. CASE d = p
    BY <1>2, <2>1 DEF CallFits
  <2>2. CASE d # p
    <3>1. Own(d, Sharing, page[d], toServer[d], toPage[d])
      BY DEF CallInv, OwnOf
    <3> QED BY <1>2, <2>2, <3>1
  <2> QED BY <2>1, <2>2
<1>4. ASSUME NEW s \in Proper
      PROVE  /\ Watched(s, Open, page'[s.client], toPage'[s.client])
             /\ Going(s, Open, page'[s.host], toServer'[s.host], toPage'[s.host],
                      page'[s.client], toServer'[s.client], toPage'[s.client])
  <2>1. s.host \in Client /\ s.client \in Client /\ s.host # s.client
    BY DEF Proper, Session
  <2>2. /\ Watched(s, Open, page[s.client], toPage[s.client])
        /\ Going(s, Open, page[s.host], toServer[s.host], toPage[s.host],
                 page[s.client], toServer[s.client], toPage[s.client])
    BY DEF CallInv, WatchedOf, GoingOf
  <2>3. CASE s.host = p
    <3>1. HostGoes(s, Open, page[p], toServer[p], toPage[p], g, a, i)
      BY <2>3 DEF CallFits
    <3>2. Going(s, Open, g, a, i, page[s.client], toServer[s.client], toPage[s.client])
      BY <2>2, <2>3, <3>1, HostGoesOn
    <3> QED BY <1>2, <2>1, <2>2, <2>3, <3>2
  <2>4. CASE s.client = p
    <3>1. /\ Watched(s, Open, g, i)
          /\ ClientGoes(s, Open, page[p], toServer[p], toPage[p], g, a, i)
      BY <2>4 DEF CallFits
    <3>2. Going(s, Open, page[s.host], toServer[s.host], toPage[s.host], g, a, i)
      BY <2>2, <2>4, <3>1, ClientGoesOn
    <3> QED BY <1>2, <2>1, <2>4, <3>1, <3>2
  <2>5. CASE s.host # p /\ s.client # p
    BY <1>2, <2>1, <2>2, <2>5
  <2> QED BY <2>3, <2>4, <2>5
<1>5. \A d \in Client : OwnOf(d)'
  BY <1>3 DEF OwnOf
<1>6. \A s \in Proper : WatchedOf(s)' /\ GoingOf(s)'
  BY <1>4 DEF WatchedOf, GoingOf
<1> QED BY <1>5, <1>6 DEF CallInv

\* One that leaves the loop alone.
LEMMA QuietCallStep ==
    ASSUME PagesInv, CallInv, NEW p \in Client, NEW g, NEW a, NEW i,
           PageBecomes(p, g, a, i), CallFits(p, g, a, i), UNCHANGED vars
    PROVE  CallInv'
<1>1. Open' = Open /\ Sharing' = Sharing
  BY DEF vars, Open, Sharing
<1> QED BY <1>1, CallStep

\* A page that is shut is owed nothing.
LEMMA ShutCallFits ==
    ASSUME PagesInv, CallInv, NEW p \in Client, NEW g, g.phase = "shut",
           DOMAIN g.clients \subseteq DOMAIN page[p].clients, NEW a
    PROVE  CallFits(p, g, a, <<>>)
<1>1. Own(p, Sharing, page[p], toServer[p], toPage[p])
  BY DEF CallInv, OwnOf
<1>2. Own(p, Sharing, g, a, <<>>)
  BY <1>1, EmptyQueue DEF Own
<1> QED BY <1>2 DEF CallFits, Watched, ClientGoes, HostGoes

\* Writing loses nothing.
LEMMA GrownQueue ==
    ASSUME NEW q \in Seq(Wire), NEW m \in Wire, NEW a, a = q \/ a = Append(q, m)
    PROVE  /\ \A n : Holds(q, n) => Holds(a, n)
           /\ a = Append(q, m) => Holds(a, m)
<1>1. CASE a = q /\ a # Append(q, m)
  BY <1>1
<1>2. CASE a = Append(q, m)
  <2> DEFINE w == <<m>>
  <2>1. a = q \o w /\ w \in Seq(Wire)
    BY <1>2, AppendedQueue
  <2>2. Holds(w, m)
    BY SingleQueue
  <2> HIDE DEF w
  <2>3. \A n : Holds(q \o w, n) <=> Holds(q, n) \/ Holds(w, n)
    BY <2>1, JoinedQueue
  <2> QED BY <2>1, <2>2, <2>3
<1> QED BY <1>1, <1>2

\* What a page has of its own is no more, and a page that is there and does not share did
\* not before, nor writes that it does.
LEMMA OwnStill ==
    ASSUME NEW p, NEW S, NEW G, NEW a \in Seq(Wire), NEW i, Own(p, S, G, a, i),
           NEW g, NEW d, NEW k, DOMAIN g.clients \subseteq DOMAIN G.clients,
           \A m : Holds(k, m) => Holds(i, m),
           g.phase # "shut" /\ ~g.stream => G.phase # "shut" /\ ~G.stream,
           NEW m \in Wire, m # Msg("share"), d = a \/ d = Append(a, m)
    PROVE  Own(p, S, g, d, k)
<1>1. \A n : Holds(a, n) => Holds(d, n)
  BY GrownQueue
<1>2. Trailed(a, Msg("share"), Msg("stopshare")) => Trailed(d, Msg("share"), Msg("stopshare"))
  BY TrailedAppend
<1> QED BY <1>1, <1>2 DEF Own

\* The host's part of s, and the client's, is as much under way as before.
HostCalm(s, H, G) ==
    G.phase # "shut" =>
        /\ H.phase # "shut"
        /\ s \in H.offering => s \in G.offering
        /\ Offered(G, s) => Offered(H, s)

ClientCalm(s, C, D) ==
    D.phase # "shut" =>
        /\ C.phase # "shut"
        /\ (s \in C.answering) <=> (s \in D.answering)
        /\ s \in DOMAIN D.clients => s \in DOMAIN C.clients
        /\ Live(D.clients, s) => Live(C.clients, s)
        /\ Waits(D, s) => Waits(C, s)
        /\ Waits(C, s) /\ s \in D.answering => Waits(D, s)

\* Another message is read,
LEMMA HostReadsOn ==
    ASSUME NEW s, NEW O, NEW H, NEW a, NEW i \in Seq(Wire), i # <<>>, NEW G, HostCalm(s, H, G),
           Head(i) \notin {HS(s), CA(s)}
    PROVE  HostGoes(s, O, H, a, i, G, a, Tail(i))
<1>1. \A m : Holds(i, m) => m = Head(i) \/ Holds(Tail(i), m)
  BY TailQueue
<1>2. /\ Holds(i, HS(s)) => Holds(Tail(i), HS(s))
      /\ Holds(i, CA(s)) => Holds(Tail(i), CA(s))
  BY <1>1
<1> QED BY <1>2 DEF HostCalm, HostGoes, Coming

LEMMA ClientReadsOn ==
    ASSUME NEW s, NEW O, NEW C, NEW b, NEW j \in Seq(Wire), j # <<>>, NEW D, ClientCalm(s, C, D),
           Head(j) \notin {HO(s), CS(s), ES(s)},
           Head(j) = Msg("closewriter") => D.phase = "shut"
    PROVE  /\ ClientGoes(s, O, C, b, j, D, b, Tail(j))
           /\ WatchesLess(s, O, C, j, D, Tail(j))
<1>1. /\ \A m : Holds(Tail(j), m) => Holds(j, m)
      /\ \A m : Holds(j, m) => m = Head(j) \/ Holds(Tail(j), m)
      /\ \A m : Once(j, m) => Once(Tail(j), m)
  BY TailQueue
<1>2. Free(j, CS(s), ES(s)) => Free(Tail(j), CS(s), ES(s))
  BY TailOrder
<1>3. Holds(j, HO(s)) <=> Holds(Tail(j), HO(s))
  BY <1>1
<1>4. Asked(s, C, j) /\ D.phase # "shut" => Asked(s, D, Tail(j))
  BY <1>3 DEF Asked, ClientCalm
<1>5. D.phase # "shut" /\ EndIn(j, s) => EndIn(Tail(j), s)
  BY <1>1 DEF EndIn
<1>6. ClientGoes(s, O, C, b, j, D, b, Tail(j))
  BY <1>1, <1>4 DEF ClientCalm, ClientGoes
<1>7. WatchesLess(s, O, C, j, D, Tail(j))
  BY <1>1, <1>2, <1>5 DEF ClientCalm, WatchesLess
<1> QED BY <1>6, <1>7

\* and more is written.
LEMMA HostWritesOn ==
    ASSUME NEW s, NEW O, NEW H, NEW a, NEW i, NEW G, HostCalm(s, H, G),
           NEW d, \A n : Holds(a, n) => Holds(d, n)
    PROVE  HostGoes(s, O, H, a, i, G, d, i)
BY DEF HostCalm, HostGoes, Coming

LEMMA ClientWritesOn ==
    ASSUME NEW s, NEW O, NEW C, NEW b, NEW j, NEW D, ClientCalm(s, C, D),
           NEW e, \A n : Holds(b, n) => Holds(e, n)
    PROVE  ClientGoes(s, O, C, b, j, D, e, j) /\ WatchesLess(s, O, C, j, D, j)
BY DEF ClientCalm, ClientGoes, Asked, WatchesLess

\* What fits a page in the room that hears something.
LEMMA ReadCallFits ==
    ASSUME PagesInv, CallInv, NEW p \in Client, toPage[p] # <<>>, NEW g,
           DOMAIN g.clients \subseteq DOMAIN page[p].clients,
           g.phase # "shut" /\ ~g.stream => page[p].phase # "shut" /\ ~page[p].stream,
           \A s \in Proper : s.client = p =>
              \/ /\ ClientCalm(s, page[p], g)
                 /\ Head(toPage[p]) \notin {HO(s), CS(s), ES(s)}
                 /\ Head(toPage[p]) = Msg("closewriter") => g.phase = "shut"
              \/ /\ Watched(s, Open, g, Tail(toPage[p]))
                 /\ ClientGoes(s, Open, page[p], toServer[p], toPage[p],
                               g, toServer[p], Tail(toPage[p])),
           \A s \in Proper : s.host = p =>
              \/ HostCalm(s, page[p], g) /\ Head(toPage[p]) \notin {HS(s), CA(s)}
              \/ HostGoes(s, Open, page[p], toServer[p], toPage[p], g, toServer[p], Tail(toPage[p]))
    PROVE  CallFits(p, g, toServer[p], Tail(toPage[p]))
<1>1. toServer[p] \in Seq(Wire) /\ toPage[p] \in Seq(Wire)
  BY PageFacts
<1>2. \A m : Holds(Tail(toPage[p]), m) => Holds(toPage[p], m)
  BY <1>1, TailQueue
<1>3. Own(p, Sharing, page[p], toServer[p], toPage[p])
  BY DEF CallInv, OwnOf
<1>4. Msg("room") \in Wire /\ Msg("room") # Msg("share")
  BY Words DEF Plain
<1>5. Own(p, Sharing, g, toServer[p], Tail(toPage[p]))
  BY <1>1, <1>2, <1>3, <1>4, OwnStill
<1>6. ASSUME NEW s \in Proper, s.client = p
      PROVE  /\ Watched(s, Open, g, Tail(toPage[p]))
             /\ ClientGoes(s, Open, page[p], toServer[p], toPage[p],
                           g, toServer[p], Tail(toPage[p]))
  <2>1. CASE /\ ClientCalm(s, page[p], g)
             /\ Head(toPage[p]) \notin {HO(s), CS(s), ES(s)}
             /\ Head(toPage[p]) = Msg("closewriter") => g.phase = "shut"
    <3>1. /\ ClientGoes(s, Open, page[p], toServer[p], toPage[p],
                        g, toServer[p], Tail(toPage[p]))
          /\ WatchesLess(s, Open, page[p], toPage[p], g, Tail(toPage[p]))
      BY <1>1, <2>1, ClientReadsOn
    <3>2. Watched(s, Open, page[p], toPage[p])
      BY <1>6 DEF CallInv, WatchedOf
    <3> QED BY <3>1, <3>2, WatchedLess
  <2> QED BY <1>6, <2>1
<1>7. ASSUME NEW s \in Proper, s.host = p
      PROVE  HostGoes(s, Open, page[p], toServer[p], toPage[p], g, toServer[p], Tail(toPage[p]))
  BY <1>1, <1>7, HostReadsOn
<1> QED BY <1>5, <1>6, <1>7 DEF CallFits

\* What fits a page that writes something.
LEMMA WriteCallFits ==
    ASSUME PagesInv, CallInv, NEW p \in Client, NEW g,
           DOMAIN g.clients \subseteq DOMAIN page[p].clients, NEW a,
           NEW m \in Wire, a = toServer[p] \/ a = Append(toServer[p], m),
           g.phase # "shut" /\ ~g.stream =>
              \/ page[p].phase # "shut" /\ ~page[p].stream /\ m # Msg("share")
              \/ Holds(a, Msg("stopshare")) /\ Trailed(a, Msg("share"), Msg("stopshare")),
           \A s \in Proper : s.client = p =>
              \/ ClientCalm(s, page[p], g)
              \/ /\ Watched(s, Open, g, toPage[p])
                 /\ ClientGoes(s, Open, page[p], toServer[p], toPage[p], g, a, toPage[p]),
           \A s \in Proper : s.host = p =>
              \/ HostCalm(s, page[p], g)
              \/ HostGoes(s, Open, page[p], toServer[p], toPage[p], g, a, toPage[p])
    PROVE  CallFits(p, g, a, toPage[p])
<1>1. toServer[p] \in Seq(Wire)
  BY PageFacts
<1>2. \A n : Holds(toServer[p], n) => Holds(a, n)
  BY <1>1, GrownQueue
<1>3. Own(p, Sharing, page[p], toServer[p], toPage[p])
  BY DEF CallInv, OwnOf
<1>4. Own(p, Sharing, g, a, toPage[p])
  <2>1. CASE g.phase = "shut" \/ g.stream \/ ~(m # Msg("share") /\ page[p].phase # "shut" /\ ~page[p].stream)
    BY <1>3, <2>1 DEF Own
  <2>2. CASE m # Msg("share") /\ page[p].phase # "shut" /\ ~page[p].stream
    BY <1>1, <1>3, <2>2, OwnStill
  <2> QED BY <2>1, <2>2
<1>5. ASSUME NEW s \in Proper, s.client = p
      PROVE  /\ Watched(s, Open, g, toPage[p])
             /\ ClientGoes(s, Open, page[p], toServer[p], toPage[p], g, a, toPage[p])
  <2>1. CASE ClientCalm(s, page[p], g)
    <3>1. /\ ClientGoes(s, Open, page[p], toServer[p], toPage[p], g, a, toPage[p])
          /\ WatchesLess(s, Open, page[p], toPage[p], g, toPage[p])
      BY <1>2, <2>1, ClientWritesOn
    <3>2. Watched(s, Open, page[p], toPage[p])
      BY <1>5 DEF CallInv, WatchedOf
    <3> QED BY <3>1, <3>2, WatchedLess
  <2> QED BY <1>5, <2>1
<1>6. ASSUME NEW s \in Proper, s.host = p
      PROVE  HostGoes(s, Open, page[p], toServer[p], toPage[p], g, a, toPage[p])
  BY <1>2, <1>6, HostWritesOn
<1> QED BY <1>4, <1>5, <1>6 DEF CallFits

\* The websocket goes, one way or the other,
LEMMA LoseCalls == ASSUME PagesInv, CallInv, NEW p \in Client, Lose(p) PROVE CallInv'
<1>1. IsPage(page[p])
  BY PageFacts
<1>2. PICK n \in 0..Len(toServer[p]) :
        toServer' = [toServer EXCEPT ![p] = Append(SubSeq(@, 1, n), Msg("disconnected"))]
  BY DEF Lose, Hangs
<1>3. PICK g : g = [page[p] EXCEPT !.phase = "shut"]
  OBVIOUS
<1>4. PICK a : a = Append(SubSeq(toServer[p], 1, n), Msg("disconnected"))
  OBVIOUS
<1>5. PageBecomes(p, g, a, <<>>) /\ UNCHANGED vars
  BY <1>2, <1>3, <1>4 DEF Lose, Hangs, PageBecomes
<1>6. g.phase = "shut" /\ g.clients = page[p].clients
  BY <1>1, <1>3, PhaseTurned DEF Phase
<1>7. CallFits(p, g, a, <<>>)
  BY <1>6, ShutCallFits
<1> QED BY <1>5, <1>7, QuietCallStep

LEMMA QuitCalls == ASSUME PagesInv, CallInv, NEW p \in Client, Quit(p) PROVE CallInv'
<1>1. PICK n \in 0..Len(toServer[p]) :
        toServer' = [toServer EXCEPT ![p] = Append(SubSeq(@, 1, n), Msg("disconnected"))]
  BY DEF Quit, Hangs
<1>2. PICK g : g = [Away EXCEPT !.phase = "shut"]
  OBVIOUS
<1>3. PICK a : a = Append(SubSeq(toServer[p], 1, n), Msg("disconnected"))
  OBVIOUS
<1>4. PageBecomes(p, g, a, <<>>) /\ UNCHANGED vars
  BY <1>1, <1>2, <1>3 DEF Quit, Hangs, PageBecomes
<1>5. g.phase = "shut" /\ DOMAIN g.clients = {}
  BY <1>2, AwayFields DEF Phase
<1>6. CallFits(p, g, a, <<>>)
  BY <1>5, ShutCallFits
<1> QED BY <1>4, <1>6, QuietCallStep

LEMMA LeaveRoomCalls == ASSUME PagesInv, CallInv, NEW p \in Client, LeaveRoom(p) PROVE CallInv'
<1>1. IsPage(page[p])
  BY PageFacts
<1>2. PICK g : g = [Stop(page[p]) EXCEPT !.phase = "shut"]
  OBVIOUS
<1>3. PICK a : a = toServer[p] \o <<Msg("stopshare"), Msg("disconnected")>>
  OBVIOUS
<1>4. PageBecomes(p, g, a, <<>>) /\ UNCHANGED vars
  BY <1>2, <1>3 DEF LeaveRoom, PageBecomes
<1>5. g.phase = "shut" /\ g.clients = page[p].clients
  BY <1>1, <1>2 DEF Stop, IsPage
<1>6. CallFits(p, g, a, <<>>)
  BY <1>5, ShutCallFits
<1> QED BY <1>4, <1>6, QuietCallStep

LEMMA OnCloseCalls == ASSUME PagesInv, CallInv, NEW p \in Client, OnClose(p) PROVE CallInv'
<1>1. /\ IsPage(page[p]) /\ toPage[p] \in Seq(Wire)
      /\ InPhase(p, connected, told, page[p], toServer[p], toPage[p])
  BY PageFacts
<1>2. /\ toPage[p] # <<>> /\ Head(toPage[p]) \in Wire /\ Head(toPage[p]).type = "closewriter"
  BY HeardMessage DEF OnClose
<1>3. Head(toPage[p]) = Msg("closewriter")
  BY <1>2, Spelled DEF Plain
<1>4. Tail(toPage[p]) = <<>>
  BY <1>1, <1>2, <1>3, TailQueue DEF InPhase
<1>5. PICK g : g = [page[p] EXCEPT !.phase = "shut"]
  OBVIOUS
<1>6. PageBecomes(p, g, toServer[p], <<>>) /\ UNCHANGED vars
  <2>1. page' = [page EXCEPT ![p] = g]
    BY <1>5 DEF OnClose
  <2>2. PageBecomes(p, g, toServer[p], Tail(toPage[p]))
    BY <2>1, OnlyHears DEF OnClose
  <2> QED BY <1>4, <2>2 DEF OnClose
<1>7. g.phase = "shut" /\ g.clients = page[p].clients
  BY <1>1, <1>5, PhaseTurned DEF Phase
<1>8. CallFits(p, g, toServer[p], <<>>)
  BY <1>7, ShutCallFits
<1> QED BY <1>6, <1>8, QuietCallStep

\* and begins with a page the loop does not know, with no session and not sharing.
LEMMA EnterCalls ==
    ASSUME LInv, PagesInv, CallInv, NEW p \in Client, Enter(p) PROVE CallInv'
<1>1. InPhase(p, connected, told, page[p], toServer[p], toPage[p])
  BY PageFacts
<1>2. /\ page[p] = [Away EXCEPT !.phase = "away"] /\ toServer[p] = <<>> /\ toPage[p] = <<>>
      /\ p \notin DOMAIN connected
  BY <1>1 DEF Enter, InPhase
<1>3. PICK g : g = [page[p] EXCEPT !.phase = "opening"]
  OBVIOUS
<1>4. PICK a : a = <<Msg("enter")>>
  OBVIOUS
<1>5. PageBecomes(p, g, a, <<>>)
  BY <1>2, <1>3, <1>4 DEF Enter, PageBecomes, PagesInv, PagesType
<1>6. g = [Away EXCEPT !.phase = "opening"]
  BY <1>2, <1>3 DEF Away
<1>7. /\ g.phase = "opening" /\ ~g.stream /\ DOMAIN g.clients = {}
      /\ g.offering = {} /\ g.answering = {}
  BY <1>6, AwayFields DEF Phase
<1>8. rooms' = rooms
  BY DEF Enter, Connect
<1>9. Open' = Open /\ Sharing' = Sharing
  BY <1>8 DEF Open, Sharing
<1>10. p \notin Sharing /\ \A s \in Open : p \notin {s.host, s.client}
  BY <1>2, SharersKnown, LoopHolds DEF Sharers, Loop
<1>11. ~Holds(a, Msg("share"))
  BY <1>4, SingleQueue, Words
<1>12. Trailed(a, Msg("share"), Msg("stopshare"))
  BY <1>11 DEF Trailed, Holds
<1>13. Own(p, Sharing, g, a, <<>>)
  BY <1>7, <1>10, <1>12, EmptyQueue DEF Own
<1>14. ASSUME NEW s, p \in {s.host, s.client}
       PROVE  /\ Watched(s, Open, g, <<>>)
              /\ ClientGoes(s, Open, page[p], toServer[p], toPage[p], g, a, <<>>)
              /\ HostGoes(s, Open, page[p], toServer[p], toPage[p], g, a, <<>>)
  <2>1. s \notin Open
    BY <1>10, <1>14
  <2>2. ~Live(g.clients, s) /\ ~Holds(<<>>, CS(s))
    BY <1>7, EmptyQueue DEF Live
  <2>3. Once(<<>>, CS(s)) /\ Free(<<>>, CS(s), ES(s))
    BY EmptyQueue
  <2>4. Watched(s, Open, g, <<>>)
    BY <2>1, <2>2, <2>3 DEF Watched
  <2> QED BY <2>1, <2>4 DEF ClientGoes, HostGoes
<1>15. CallFits(p, g, a, <<>>)
  BY <1>13, <1>14 DEF CallFits
<1> QED BY <1>5, <1>9, <1>15, CallStep

\* A message that is not about a handshake is read.
LEMMA OnRoomCalls == ASSUME PagesInv, CallInv, NEW p \in Client, OnRoom(p) PROVE CallInv'
<1>1. /\ IsPage(page[p])
      /\ InPhase(p, connected, told, page[p], toServer[p], toPage[p])
  BY PageFacts
<1>2. /\ toPage[p] # <<>> /\ Head(toPage[p]).type = "room"
      /\ page[p].phase \in {"opening", "in"}
  BY HeardMessage DEF OnRoom
<1>3. PICK g : g = [page[p] EXCEPT !.phase = "in"]
  OBVIOUS
<1>4. PageBecomes(p, g, toServer[p], Tail(toPage[p])) /\ UNCHANGED vars
  <2>1. page' = [page EXCEPT ![p] = g]
    BY <1>3 DEF OnRoom
  <2> QED BY <2>1, OnlyHears DEF OnRoom
<1>5. /\ g.phase = "in" /\ g.stream = page[p].stream
      /\ g.hosts = page[p].hosts /\ g.clients = page[p].clients
      /\ g.offering = page[p].offering /\ g.answering = page[p].answering
  BY <1>1, <1>3, PhaseTurned DEF Phase
<1>6. ASSUME NEW s PROVE HostCalm(s, page[p], g) /\ ClientCalm(s, page[p], g)
  BY <1>2, <1>5 DEF HostCalm, ClientCalm, Offered, Waits
<1>7. \A s : Head(toPage[p]) \notin {HS(s), CS(s), HO(s), CA(s), ES(s), Msg("closewriter")}
  BY <1>2, Words
<1>8. CallFits(p, g, toServer[p], Tail(toPage[p]))
  BY <1>2, <1>5, <1>6, <1>7, ReadCallFits
<1> QED BY <1>4, <1>8, QuietCallStep

\* A connection fails,
LEMMA HostFailsCalls == ASSUME PagesInv, CallInv, NEW p \in Client, HostFails(p) PROVE CallInv'
<1>1. IsPage(page[p])
  BY PageFacts
<1>2. PICK x \in DOMAIN page[p].hosts : page' = [page EXCEPT ![p].hosts = Without(@, {x})]
  BY DEF HostFails
<1>3. PICK g : g = [page[p] EXCEPT !.hosts = Without(@, {x})]
  OBVIOUS
<1>4. /\ g.phase = page[p].phase /\ g.stream = page[p].stream
      /\ g.clients = page[p].clients /\ g.offering = page[p].offering
      /\ g.answering = page[p].answering
      /\ DOMAIN g.hosts = DOMAIN page[p].hosts \ {x}
      /\ \A s \in DOMAIN g.hosts : g.hosts[s] = page[p].hosts[s]
  BY <1>1, <1>3 DEF IsPage, Without
<1>5. ASSUME NEW s PROVE HostCalm(s, page[p], g) /\ ClientCalm(s, page[p], g)
  BY <1>4 DEF HostCalm, ClientCalm, Offered, Waits
<1>6. PageBecomes(p, g, toServer[p], toPage[p]) /\ UNCHANGED vars
  BY <1>2, <1>3 DEF HostFails, PageBecomes, PagesInv, PagesType
<1>7. Msg("room") \in Wire /\ Msg("room") # Msg("share")
  BY Words DEF Plain
<1>8. CallFits(p, g, toServer[p], toPage[p])
  BY <1>4, <1>5, <1>7, WriteCallFits
<1> QED BY <1>6, <1>8, QuietCallStep

LEMMA ClientFailsCalls ==
    ASSUME PagesInv, CallInv, NEW p \in Client, ClientFails(p) PROVE CallInv'
<1>1. IsPage(page[p])
  BY PageFacts
<1>2. PICK x \in DOMAIN page[p].clients :
        page[p].clients[x] = "answered" /\ page' = [page EXCEPT ![p].clients = Without(@, {x})]
  BY DEF ClientFails, LosesPeer
<1>3. PICK g : g = [page[p] EXCEPT !.clients = Without(@, {x})]
  OBVIOUS
<1>4. /\ g.phase = page[p].phase /\ g.stream = page[p].stream
      /\ g.hosts = page[p].hosts /\ g.offering = page[p].offering
      /\ g.answering = page[p].answering
      /\ DOMAIN g.clients = DOMAIN page[p].clients \ {x}
      /\ \A s \in DOMAIN g.clients : g.clients[s] = page[p].clients[s]
  BY <1>1, <1>3 DEF IsPage, Without
<1>5. ASSUME NEW s PROVE HostCalm(s, page[p], g) /\ ClientCalm(s, page[p], g)
  BY <1>2, <1>4 DEF HostCalm, ClientCalm, Offered, Waits, Live
<1>6. PageBecomes(p, g, toServer[p], toPage[p]) /\ UNCHANGED vars
  BY <1>2, <1>3 DEF ClientFails, LosesPeer, PageBecomes, PagesInv, PagesType
<1>7. Msg("room") \in Wire /\ Msg("room") # Msg("share")
  BY Words DEF Plain
<1>8. CallFits(p, g, toServer[p], toPage[p])
  BY <1>4, <1>5, <1>7, WriteCallFits
<1> QED BY <1>6, <1>8, QuietCallStep

\* the user shares,
LEMMA ShareCalls == ASSUME PagesInv, CallInv, NEW p \in Client, Share(p) PROVE CallInv'
<1>1. IsPage(page[p]) /\ page[p].phase = "in"
  BY PageFacts DEF Share
<1>2. PICK g : g = [page[p] EXCEPT !.stream = TRUE]
  OBVIOUS
<1>3. /\ g.phase = "in" /\ g.stream
      /\ g.hosts = page[p].hosts /\ g.clients = page[p].clients
      /\ g.offering = page[p].offering /\ g.answering = page[p].answering
  BY <1>1, <1>2 DEF IsPage
<1>4. ASSUME NEW s PROVE HostCalm(s, page[p], g) /\ ClientCalm(s, page[p], g)
  BY <1>1, <1>3 DEF HostCalm, ClientCalm, Offered, Waits
<1>5. PICK a : a = Append(toServer[p], Msg("share"))
  OBVIOUS
<1>6. PageBecomes(p, g, a, toPage[p]) /\ UNCHANGED vars
  BY <1>1, <1>2, <1>5 DEF Share, Sends, Sent, PageBecomes, PagesInv, PagesType
<1>7. Msg("share") \in Wire
  BY Words DEF Plain
<1>8. CallFits(p, g, a, toPage[p])
  BY <1>3, <1>4, <1>5, <1>7, WriteCallFits
<1> QED BY <1>6, <1>8, QuietCallStep

\* and ends the share.
LEMMA EndsShareCalls == ASSUME PagesInv, CallInv, NEW p \in Client, EndsShare(p) PROVE CallInv'
<1>1. IsPage(page[p]) /\ page[p].phase = "in" /\ toServer[p] \in Seq(Wire)
  BY PageFacts DEF EndsShare
<1>2. PICK g : g = Stop(page[p])
  OBVIOUS
<1>3. /\ g.phase = "in" /\ DOMAIN g.hosts = {} /\ g.clients = page[p].clients
      /\ g.offering = page[p].offering /\ g.answering = page[p].answering
  BY <1>1, <1>2 DEF Stop, IsPage, Empty
<1>4. ASSUME NEW s PROVE HostCalm(s, page[p], g) /\ ClientCalm(s, page[p], g)
  BY <1>1, <1>3 DEF HostCalm, ClientCalm, Offered, Waits
<1>5. PICK a : a = Append(toServer[p], Msg("stopshare"))
  OBVIOUS
<1>6. PageBecomes(p, g, a, toPage[p]) /\ UNCHANGED vars
  BY <1>1, <1>2, <1>5 DEF EndsShare, StopIsPressed, Sends, Sent, PageBecomes, PagesInv, PagesType
<1>7. Msg("stopshare") \in Wire /\ Msg("stopshare") # Msg("share")
  BY Words DEF Plain
<1>8. Holds(a, Msg("stopshare")) /\ Trailed(a, Msg("share"), Msg("stopshare"))
  BY <1>1, <1>5, <1>7, GrownQueue, TrailedAppend
<1>9. CallFits(p, g, a, toPage[p])
  BY <1>3, <1>4, <1>5, <1>7, <1>8, WriteCallFits
<1> QED BY <1>6, <1>9, QuietCallStep

\* The host is asked for an offer, and begins to make one; if it has stopped, the loop,
\* which has the session still, is yet to hear of it.
LEMMA OnHostSessionCalls ==
    ASSUME LInv, PagesInv, CallInv, NEW p \in Client, OnHostSession(p) PROVE CallInv'
<1>1. /\ IsPage(page[p]) /\ toPage[p] \in Seq(Wire)
      /\ page[p].phase = "in" /\ Hears(p, "hostsession")
  BY PageFacts DEF OnHostSession
<1>2. toPage[p] # <<>> /\ Head(toPage[p]) \in Wire /\ Head(toPage[p]).type = "hostsession"
  BY <1>1, HeardMessage
<1>3. PICK x : x = Head(toPage[p]).sid
  OBVIOUS
<1>4. x \in Proper /\ Head(toPage[p]) = HS(x)
  BY <1>2, <1>3, Spelled DEF OfSessions
<1>5. PICK g : g = IF page[p].stream THEN [page[p] EXCEPT !.offering = @ \cup {x}] ELSE page[p]
  OBVIOUS
<1>6. PageBecomes(p, g, toServer[p], Tail(toPage[p])) /\ UNCHANGED vars
  <2>1. page' = [page EXCEPT ![p] = g] /\ UNCHANGED toServer
    BY <1>3, <1>5 DEF OnHostSession, PagesInv, PagesType
  <2> QED BY <1>1, <2>1, OnlyHears DEF OnHostSession
<1>7. /\ g.phase = "in" /\ g.stream = page[p].stream
      /\ g.hosts = page[p].hosts /\ g.clients = page[p].clients
      /\ g.answering = page[p].answering
      /\ page[p].offering \subseteq g.offering
      /\ g.stream => x \in g.offering
  BY <1>1, <1>5 DEF IsPage
<1>8. ASSUME NEW s PROVE HostCalm(s, page[p], g) /\ ClientCalm(s, page[p], g)
  BY <1>1, <1>7 DEF HostCalm, ClientCalm, Offered, Waits
<1>9. \A s : /\ Head(toPage[p]) \notin {CS(s), HO(s), CA(s), ES(s), Msg("closewriter")}
             /\ s # x => Head(toPage[p]) # HS(s)
  BY <1>2, <1>4, Words
<1>10. ASSUME x.host = p
       PROVE  HostGoes(x, Open, page[p], toServer[p], toPage[p],
                       g, toServer[p], Tail(toPage[p]))
  <2>1. CASE x \notin Open
    BY <2>1 DEF HostGoes
  <2>2. CASE x \in Open /\ ~page[p].stream
    <3>1. p \in Sharing
      BY <1>10, <2>2, SharersKnown DEF Sharers
    <3>2. Holds(toServer[p], Msg("stopshare"))
      BY <1>1, <2>2, <3>1 DEF CallInv, OwnOf, Own
    <3>3. Holds(toPage[p], CA(x)) => Holds(Tail(toPage[p]), CA(x))
      BY <1>1, <1>2, <1>9, TailQueue
    <3> QED BY <1>1, <1>7, <3>2, <3>3 DEF HostGoes, Offered
  <2>3. CASE page[p].stream
    <3>1. Holds(toPage[p], CA(x)) => Holds(Tail(toPage[p]), CA(x))
      BY <1>1, <1>2, <1>9, TailQueue
    <3>2. x \in g.offering
      BY <1>7, <2>3
    <3> QED BY <1>1, <1>7, <3>1, <3>2 DEF HostGoes, Offered, Coming
  <2> QED BY <2>1, <2>2, <2>3
<1>11. CallFits(p, g, toServer[p], Tail(toPage[p]))
  BY <1>1, <1>2, <1>7, <1>8, <1>9, <1>10, ReadCallFits
<1> QED BY <1>6, <1>11, QuietCallStep

\* The offer is made.
LEMMA OfferCalls == ASSUME PagesInv, CallInv, NEW p \in Client, Offer(p) PROVE CallInv'
<1>1. /\ IsPage(page[p]) /\ toServer[p] \in Seq(Wire) /\ Placed(p, page[p], toPage[p])
      /\ InPhase(p, connected, told, page[p], toServer[p], toPage[p])
  BY PageFacts
<1>2. PICK x \in page[p].offering :
        /\ page' = [page EXCEPT ![p].offering = @ \ {x}, ![p].hosts = Put(@, x, "offered")]
        /\ Sends(p, About("hostoffer", x))
        /\ UNCHANGED <<vars, shares, toPage>>
  BY DEF Offer
<1>3. page[p].phase \in {"in", "shut"}
  BY <1>1, <1>2, AwayFields DEF InPhase, Phase, IsPage
<1>4. x \in Proper /\ HO(x) = About("hostoffer", x) /\ HO(x) \in Wire /\ HO(x) # Msg("share")
  BY <1>1, <1>2, Words DEF Placed, HO
<1>5. PICK g : g = [page[p] EXCEPT !.offering = @ \ {x}, !.hosts = Put(@, x, "offered")]
  OBVIOUS
<1>6. PICK a : a = Sent(p, HO(x))
  OBVIOUS
<1>7. /\ g.phase = page[p].phase /\ g.stream = page[p].stream
      /\ g.clients = page[p].clients /\ g.answering = page[p].answering
      /\ g.offering = page[p].offering \ {x}
      /\ \A s : s # x => /\ s \in DOMAIN g.hosts <=> s \in DOMAIN page[p].hosts
                         /\ s \in DOMAIN g.hosts => g.hosts[s] = page[p].hosts[s]
  BY <1>1, <1>5 DEF IsPage, Put
<1>8. /\ a = toServer[p] \/ a = Append(toServer[p], HO(x))
      /\ page[p].phase = "in" => a = Append(toServer[p], HO(x))
  BY <1>6 DEF Sent
<1>9. PageBecomes(p, g, a, toPage[p]) /\ UNCHANGED vars
  <2>1. page' = [page EXCEPT ![p] = g]
    BY <1>1, <1>2, <1>5 DEF IsPage
  <2>2. toServer' = [toServer EXCEPT ![p] = a]
    BY <1>2, <1>4, <1>6 DEF Sends
  <2> QED BY <1>2, <2>1, <2>2 DEF PageBecomes, PagesInv, PagesType
<1>10. ASSUME NEW s PROVE ClientCalm(s, page[p], g)
  BY <1>7 DEF ClientCalm, Waits
<1>11. ASSUME NEW s
       PROVE  \/ HostCalm(s, page[p], g)
              \/ HostGoes(s, Open, page[p], toServer[p], toPage[p], g, a, toPage[p])
  <2>1. CASE s # x
    BY <1>7, <2>1 DEF HostCalm, Offered
  <2>2. CASE s = x /\ page[p].phase = "shut"
    BY <1>7, <2>2 DEF HostGoes
  <2>3. CASE s = x /\ page[p].phase = "in"
    <3>1. Holds(a, HO(s)) /\ \A n : Holds(toServer[p], n) => Holds(a, n)
      BY <1>1, <1>4, <1>8, <2>3, GrownQueue
    <3> QED BY <2>3, <3>1 DEF HostGoes, Coming
  <2> QED BY <1>3, <2>1, <2>2, <2>3
<1>12. CallFits(p, g, a, toPage[p])
  BY <1>4, <1>7, <1>8, <1>10, <1>11, WriteCallFits
<1> QED BY <1>9, <1>12, QuietCallStep

\* The client is told, and waits: it did not know of the session.
LEMMA OnClientSessionCalls ==
    ASSUME PagesInv, CallInv, NEW p \in Client, OnClientSession(p) PROVE CallInv'
<1>1. /\ IsPage(page[p]) /\ toPage[p] \in Seq(Wire) /\ toServer[p] \in Seq(Wire)
      /\ page[p].phase = "in" /\ Hears(p, "clientsession")
  BY PageFacts DEF OnClientSession
<1>2. /\ toPage[p] # <<>> /\ Head(toPage[p]) \in Wire /\ Head(toPage[p]).type = "clientsession"
      /\ Holds(toPage[p], Head(toPage[p]))
  BY <1>1, HeardMessage
<1>3. PICK x : x = Head(toPage[p]).sid
  OBVIOUS
<1>4. x \in Proper /\ Head(toPage[p]) = CS(x)
  BY <1>2, <1>3, Spelled DEF OfSessions
<1>5. Own(p, Sharing, page[p], toServer[p], toPage[p])
  BY DEF CallInv, OwnOf
<1>6. x.client = p
  BY <1>2, <1>4, <1>5 DEF Own
<1>7. PICK g : g = [page[p] EXCEPT !.clients = Put(@, x, "new")]
  OBVIOUS
<1>8. PageBecomes(p, g, toServer[p], Tail(toPage[p])) /\ UNCHANGED vars
  <2>1. page' = [page EXCEPT ![p] = g] /\ UNCHANGED toServer
    BY <1>3, <1>7 DEF OnClientSession
  <2> QED BY <1>1, <2>1, OnlyHears DEF OnClientSession
<1>9. /\ g.phase = "in" /\ g.stream = page[p].stream
      /\ g.hosts = page[p].hosts /\ g.offering = page[p].offering
      /\ g.answering = page[p].answering
      /\ DOMAIN g.clients = DOMAIN page[p].clients \cup {x} /\ g.clients[x] = "new"
      /\ \A s \in DOMAIN page[p].clients : s # x => g.clients[s] = page[p].clients[s]
  BY <1>1, <1>7 DEF IsPage, Put
<1>10. /\ \A m : Holds(Tail(toPage[p]), m) => Holds(toPage[p], m)
       /\ \A m : Holds(toPage[p], m) => m = Head(toPage[p]) \/ Holds(Tail(toPage[p]), m)
       /\ \A m : Once(toPage[p], m) => /\ Once(Tail(toPage[p]), m)
                                       /\ m = Head(toPage[p]) => ~Holds(Tail(toPage[p]), m)
  BY <1>1, <1>2, TailQueue
<1>11. \A s : /\ Head(toPage[p]) \notin {HS(s), HO(s), CA(s), ES(s), Msg("closewriter")}
              /\ s # x => Head(toPage[p]) # CS(s)
  BY <1>2, <1>4, Words
<1>12. Own(p, Sharing, g, toServer[p], Tail(toPage[p]))
  BY <1>1, <1>4, <1>5, <1>6, <1>9, <1>10 DEF Own
<1>13. ASSUME NEW s \in Proper, s.client = p
       PROVE  /\ Watched(s, Open, g, Tail(toPage[p]))
              /\ ClientGoes(s, Open, page[p], toServer[p], toPage[p],
                            g, toServer[p], Tail(toPage[p]))
  <2>1. Watched(s, Open, page[p], toPage[p])
    BY <1>13 DEF CallInv, WatchedOf
  <2>2. CASE s # x
    <3>1. ClientCalm(s, page[p], g)
      BY <1>1, <1>9, <2>2 DEF ClientCalm, Live, Waits
    <3> QED BY <1>1, <1>2, <1>11, <2>1, <2>2, <3>1, ClientReadsOn, WatchedLess
  <2>3. CASE s = x
    <3>1. s \notin page[p].answering /\ Once(toPage[p], CS(s)) /\ Free(toPage[p], CS(s), ES(s))
      BY <1>1, <1>2, <1>4, <2>1, <2>3 DEF Watched
    <3>2. /\ Once(Tail(toPage[p]), CS(s)) /\ ~Holds(Tail(toPage[p]), CS(s))
          /\ Free(Tail(toPage[p]), CS(s), ES(s))
      BY <1>1, <1>2, <1>4, <1>10, <2>3, <3>1, TailOrder
    <3>3. s \notin Open => EndIn(Tail(toPage[p]), s)
      <4>1. s \notin Open => EndIn(toPage[p], s)
        BY <1>1, <1>2, <1>4, <2>1, <2>3 DEF Watched
      <4> QED BY <1>10, <1>11, <4>1 DEF EndIn
    <3>4. Watched(s, Open, g, Tail(toPage[p]))
      BY <1>9, <3>1, <3>2, <3>3 DEF Watched
    <3>5. ClientGoes(s, Open, page[p], toServer[p], toPage[p], g, toServer[p], Tail(toPage[p]))
      <4>1. Holds(toPage[p], HO(s)) => Holds(Tail(toPage[p]), HO(s))
        BY <1>10, <1>11
      <4> QED BY <1>1, <1>2, <1>4, <1>9, <2>3, <4>1 DEF ClientGoes, Asked
    <3> QED BY <3>4, <3>5
  <2> QED BY <2>2, <2>3
<1>14. ASSUME NEW s \in Proper, s.host = p
       PROVE  HostGoes(s, Open, page[p], toServer[p], toPage[p],
                       g, toServer[p], Tail(toPage[p]))
  <2>1. HostCalm(s, page[p], g)
    BY <1>1, <1>9 DEF HostCalm, Offered
  <2> QED BY <1>1, <1>2, <1>11, <2>1, HostReadsOn
<1>15. CallFits(p, g, toServer[p], Tail(toPage[p]))
  BY <1>12, <1>13, <1>14 DEF CallFits
<1> QED BY <1>8, <1>15, QuietCallStep

\* It is offered the screen, and begins to answer.
LEMMA OnHostOfferCalls ==
    ASSUME PagesInv, CallInv, NEW p \in Client, OnHostOffer(p) PROVE CallInv'
<1>1. /\ IsPage(page[p]) /\ toPage[p] \in Seq(Wire) /\ Placed(p, page[p], toPage[p])
      /\ page[p].phase = "in" /\ Hears(p, "hostoffer")
  BY PageFacts DEF OnHostOffer
<1>2. /\ toPage[p] # <<>> /\ Head(toPage[p]) \in Wire /\ Head(toPage[p]).type = "hostoffer"
      /\ Holds(toPage[p], Head(toPage[p]))
  BY <1>1, HeardMessage
<1>3. PICK x : x = Head(toPage[p]).sid
  OBVIOUS
<1>4. x \in Proper /\ Head(toPage[p]) = HO(x)
  BY <1>2, <1>3, Spelled DEF OfSessions
<1>5. x.client = p /\ Waits(page[p], x) /\ Live(page[p].clients, x)
  BY <1>1, <1>2, <1>4, OfferAtHead DEF Placed, Waits, Live
<1>6. PICK g : g = [page[p] EXCEPT !.answering = @ \cup {x}]
  OBVIOUS
<1>7. PageBecomes(p, g, toServer[p], Tail(toPage[p])) /\ UNCHANGED vars
  <2>1. page' = [page EXCEPT ![p] = g] /\ UNCHANGED toServer
    BY <1>3, <1>5, <1>6 DEF OnHostOffer
  <2> QED BY <1>1, <2>1, OnlyHears DEF OnHostOffer
<1>8. /\ g.phase = "in" /\ g.stream = page[p].stream
      /\ g.hosts = page[p].hosts /\ g.clients = page[p].clients
      /\ g.offering = page[p].offering
      /\ g.answering = page[p].answering \cup {x}
  BY <1>1, <1>6 DEF IsPage
<1>9. \A s : /\ Head(toPage[p]) \notin {HS(s), CS(s), CA(s), ES(s), Msg("closewriter")}
             /\ s # x => Head(toPage[p]) # HO(s)
  BY <1>2, <1>4, Words
<1>10. /\ \A m : Holds(Tail(toPage[p]), m) => Holds(toPage[p], m)
       /\ \A m : Holds(toPage[p], m) => m = Head(toPage[p]) \/ Holds(Tail(toPage[p]), m)
       /\ \A m : Once(toPage[p], m) => Once(Tail(toPage[p]), m)
  BY <1>1, <1>2, TailQueue
<1>11. ASSUME NEW s PROVE HostCalm(s, page[p], g)
  BY <1>1, <1>8 DEF HostCalm, Offered
<1>12. ASSUME NEW s PROVE s # x => ClientCalm(s, page[p], g)
  BY <1>1, <1>8 DEF ClientCalm, Waits
<1>13. /\ Watched(x, Open, g, Tail(toPage[p]))
       /\ ClientGoes(x, Open, page[p], toServer[p], toPage[p], g, toServer[p], Tail(toPage[p]))
  <2>1. Watched(x, Open, page[p], toPage[p])
    BY <1>4, <1>5 DEF CallInv, WatchedOf
  <2>2. EndIn(toPage[p], x) => EndIn(Tail(toPage[p]), x)
    BY <1>9, <1>10 DEF EndIn
  <2>3. Free(toPage[p], CS(x), ES(x)) => Free(Tail(toPage[p]), CS(x), ES(x))
    BY <1>1, <1>2, TailOrder
  <2>4. Waits(g, x)
    BY <1>5, <1>8 DEF Waits
  <2>5. WatchesLess(x, Open, page[p], toPage[p], g, Tail(toPage[p]))
    BY <1>1, <1>5, <1>8, <1>10, <2>2, <2>3, <2>4 DEF WatchesLess, Waits
  <2>6. ClientGoes(x, Open, page[p], toServer[p], toPage[p], g, toServer[p], Tail(toPage[p]))
    BY <1>1, <1>5, <1>8 DEF ClientGoes, Asked
  <2> QED BY <2>1, <2>5, <2>6, WatchedLess
<1>14. CallFits(p, g, toServer[p], Tail(toPage[p]))
  BY <1>1, <1>2, <1>8, <1>9, <1>11, <1>12, <1>13, ReadCallFits
<1> QED BY <1>7, <1>14, QuietCallStep

\* The answer is made: the peer of an open session waits for one.
LEMMA AnswerCalls == ASSUME PagesInv, CallInv, NEW p \in Client, Answer(p) PROVE CallInv'
<1>1. /\ IsPage(page[p]) /\ toServer[p] \in Seq(Wire) /\ Placed(p, page[p], toPage[p])
      /\ InPhase(p, connected, told, page[p], toServer[p], toPage[p])
  BY PageFacts
<1>2. PICK x \in page[p].answering :
        /\ page' = [page EXCEPT
                ![p].answering = @ \ {x},
                ![p].clients = IF Live(@, x) THEN Put(@, x, "answered") ELSE @]
        /\ IF Live(page[p].clients, x)
           THEN Sends(p, About("clientanswer", x))
           ELSE UNCHANGED toServer
        /\ UNCHANGED <<vars, shares, toPage>>
  BY DEF Answer
<1>3. page[p].phase \in {"in", "shut"}
  BY <1>1, <1>2, AwayFields DEF InPhase, Phase, IsPage
<1>4. x \in Proper /\ CA(x) = About("clientanswer", x) /\ CA(x) \in Wire /\ CA(x) # Msg("share")
  BY <1>1, <1>2, Words DEF Placed, CA
<1>5. PICK C : C = IF Live(page[p].clients, x) THEN Put(page[p].clients, x, "answered")
                   ELSE page[p].clients
  OBVIOUS
<1>6. /\ DOMAIN C = DOMAIN page[p].clients
      /\ Live(page[p].clients, x) => C[x] = "answered"
      /\ ~Live(page[p].clients, x) => C = page[p].clients
      /\ \A s \in DOMAIN C : s # x => C[s] = page[p].clients[s]
  BY <1>5 DEF Put, Live
<1>7. PICK g : g = [page[p] EXCEPT !.answering = @ \ {x}, !.clients = C]
  OBVIOUS
<1>8. /\ g.phase = page[p].phase /\ g.stream = page[p].stream
      /\ g.hosts = page[p].hosts /\ g.offering = page[p].offering
      /\ g.clients = C /\ g.answering = page[p].answering \ {x}
  BY <1>1, <1>7 DEF IsPage
<1>9. PICK a : a = IF Live(page[p].clients, x) THEN Sent(p, CA(x)) ELSE toServer[p]
  OBVIOUS
<1>10. /\ a = toServer[p] \/ a = Append(toServer[p], CA(x))
       /\ page[p].phase = "in" /\ Live(page[p].clients, x) => a = Append(toServer[p], CA(x))
  BY <1>9 DEF Sent
<1>11. PageBecomes(p, g, a, toPage[p]) /\ UNCHANGED vars
  <2>1. page' = [page EXCEPT ![p] = g]
    BY <1>1, <1>2, <1>5, <1>7 DEF IsPage
  <2>2. toServer' = [toServer EXCEPT ![p] = a]
    BY <1>2, <1>4, <1>9 DEF Sends, PagesInv, PagesType
  <2> QED BY <1>2, <2>1, <2>2 DEF PageBecomes, PagesInv, PagesType
<1>12. ASSUME NEW s PROVE HostCalm(s, page[p], g)
  BY <1>8 DEF HostCalm, Offered
<1>13. ASSUME NEW s PROVE s # x => ClientCalm(s, page[p], g)
  BY <1>6, <1>8 DEF ClientCalm, Waits, Live
<1>14. ASSUME x.client = p
       PROVE  /\ Watched(x, Open, g, toPage[p])
              /\ ClientGoes(x, Open, page[p], toServer[p], toPage[p], g, a, toPage[p])
  <2>1. Watched(x, Open, page[p], toPage[p])
    BY <1>4, <1>14 DEF CallInv, WatchedOf
  <2>2. WatchesLess(x, Open, page[p], toPage[p], g, toPage[p])
    BY <1>6, <1>8 DEF WatchesLess, Live
  <2>3. CASE page[p].phase = "shut" \/ x \notin Open
    <3>1. ClientGoes(x, Open, page[p], toServer[p], toPage[p], g, a, toPage[p])
      BY <1>8, <2>3 DEF ClientGoes
    <3> QED BY <2>1, <2>2, <3>1, WatchedLess
  <2>4. CASE page[p].phase = "in" /\ x \in Open
    <3>1. Waits(page[p], x) /\ ~Holds(toPage[p], CS(x))
      BY <1>2, <2>1, <2>4 DEF Watched
    <3>2. Live(page[p].clients, x)
      BY <3>1 DEF Waits, Live
    <3>3. Holds(a, CA(x)) /\ ~Waits(g, x)
      BY <1>1, <1>4, <1>6, <1>8, <1>10, <2>4, <3>2, GrownQueue DEF Waits
    <3>4. ClientGoes(x, Open, page[p], toServer[p], toPage[p], g, a, toPage[p])
      BY <2>4, <3>1, <3>3 DEF ClientGoes
    <3> QED BY <2>1, <2>2, <3>4, WatchedLess
  <2> QED BY <1>3, <2>3, <2>4
<1>15. CallFits(p, g, a, toPage[p])
  BY <1>4, <1>6, <1>8, <1>10, <1>12, <1>13, <1>14, WriteCallFits
<1> QED BY <1>11, <1>15, QuietCallStep

\* The host has its answer: its offer is one no more.
LEMMA OnClientAnswerCalls ==
    ASSUME PagesInv, CallInv, NEW p \in Client, OnClientAnswer(p) PROVE CallInv'
<1>1. /\ IsPage(page[p]) /\ toPage[p] \in Seq(Wire)
      /\ page[p].phase = "in" /\ Hears(p, "clientanswer")
  BY PageFacts DEF OnClientAnswer
<1>2. toPage[p] # <<>> /\ Head(toPage[p]) \in Wire /\ Head(toPage[p]).type = "clientanswer"
  BY <1>1, HeardMessage
<1>3. PICK x : x = Head(toPage[p]).sid
  OBVIOUS
<1>4. x \in Proper /\ Head(toPage[p]) = CA(x)
  BY <1>2, <1>3, Spelled DEF OfSessions
<1>5. PICK g : g = IF Live(page[p].hosts, x)
                   THEN [page[p] EXCEPT !.hosts[x] = "connected"] ELSE page[p]
  OBVIOUS
<1>6. PageBecomes(p, g, toServer[p], Tail(toPage[p])) /\ UNCHANGED vars
  <2>1. page' = [page EXCEPT ![p] = g] /\ UNCHANGED toServer
    BY <1>3, <1>5 DEF OnClientAnswer, PagesInv, PagesType
  <2> QED BY <1>1, <2>1, OnlyHears DEF OnClientAnswer
<1>7. /\ g.phase = "in" /\ g.stream = page[p].stream
      /\ g.clients = page[p].clients /\ g.offering = page[p].offering
      /\ g.answering = page[p].answering
      /\ \A s : s # x /\ Offered(g, s) => Offered(page[p], s)
      /\ ~Offered(g, x)
  BY <1>1, <1>5 DEF IsPage, IsMap, Live, Offered
<1>8. \A s : /\ Head(toPage[p]) \notin {HS(s), CS(s), HO(s), ES(s), Msg("closewriter")}
             /\ s # x => Head(toPage[p]) # CA(s)
  BY <1>2, <1>4, Words
<1>9. ASSUME NEW s
      PROVE  ClientCalm(s, page[p], g) /\ (s # x => HostCalm(s, page[p], g))
  BY <1>1, <1>7 DEF HostCalm, ClientCalm, Waits
<1>10. HostGoes(x, Open, page[p], toServer[p], toPage[p], g, toServer[p], Tail(toPage[p]))
  <2>1. Holds(toPage[p], HS(x)) => Holds(Tail(toPage[p]), HS(x))
    BY <1>1, <1>2, <1>8, TailQueue
  <2> QED BY <1>1, <1>7, <2>1 DEF HostGoes, Coming
<1>11. CallFits(p, g, toServer[p], Tail(toPage[p]))
  BY <1>1, <1>2, <1>7, <1>8, <1>9, <1>10, ReadCallFits
<1> QED BY <1>6, <1>11, QuietCallStep

\* The page is told of the end of a session: no announcement of it can be behind.
LEMMA OnEndShareCalls ==
    ASSUME PagesInv, CallInv, NEW p \in Client, OnEndShare(p) PROVE CallInv'
<1>1. /\ IsPage(page[p]) /\ toPage[p] \in Seq(Wire)
      /\ page[p].phase = "in" /\ Hears(p, "endshare")
  BY PageFacts DEF OnEndShare
<1>2. /\ toPage[p] # <<>> /\ Head(toPage[p]) \in Wire /\ Head(toPage[p]).type = "endshare"
      /\ Holds(toPage[p], Head(toPage[p]))
  BY <1>1, HeardMessage
<1>3. PICK x : x = Head(toPage[p]).sid
  OBVIOUS
<1>4. x \in Proper /\ Head(toPage[p]) = ES(x)
  BY <1>2, <1>3, Spelled DEF OfSessions
<1>5. PICK g : g = [page[p] EXCEPT !.clients = Closed(@, x), !.hosts = Closed(@, x)]
  OBVIOUS
<1>6. PageBecomes(p, g, toServer[p], Tail(toPage[p])) /\ UNCHANGED vars
  <2>1. page' = [page EXCEPT ![p].clients = Closed(@, x), ![p].hosts = Closed(@, x)]
        /\ UNCHANGED toServer
    BY <1>3 DEF OnEndShare
  <2>2. page' = [page EXCEPT ![p] = g]
    BY <1>5, <2>1
  <2> QED BY <1>1, <2>1, <2>2, OnlyHears DEF OnEndShare
<1>7. /\ g.phase = "in" /\ g.stream = page[p].stream
      /\ g.offering = page[p].offering /\ g.answering = page[p].answering
      /\ g.hosts = Closed(page[p].hosts, x) /\ g.clients = Closed(page[p].clients, x)
  BY <1>1, <1>5 DEF IsPage
<1>8. /\ DOMAIN g.hosts = DOMAIN page[p].hosts
      /\ x \in DOMAIN g.hosts => g.hosts[x] = "closed"
      /\ \A s \in DOMAIN page[p].hosts : s # x => g.hosts[s] = page[p].hosts[s]
  BY <1>1, <1>7, ClosedPeers DEF IsPage, HostPeer
<1>9. /\ DOMAIN g.clients = DOMAIN page[p].clients
      /\ x \in DOMAIN g.clients => g.clients[x] = "closed"
      /\ \A s \in DOMAIN page[p].clients : s # x => g.clients[s] = page[p].clients[s]
  BY <1>1, <1>7, ClosedPeers DEF IsPage, ClientPeer
<1>10. \A s : /\ Head(toPage[p]) \notin {HS(s), CS(s), HO(s), CA(s), Msg("closewriter")}
              /\ s # x => Head(toPage[p]) # ES(s)
  BY <1>2, <1>4, Words
<1>11. ASSUME NEW s PROVE HostCalm(s, page[p], g)
  BY <1>1, <1>7, <1>8 DEF HostCalm, Offered
<1>12. ASSUME NEW s PROVE s # x => ClientCalm(s, page[p], g)
  BY <1>1, <1>7, <1>9 DEF ClientCalm, Waits, Live
<1>13. ASSUME x.client = p
       PROVE  /\ Watched(x, Open, g, Tail(toPage[p]))
              /\ ClientGoes(x, Open, page[p], toServer[p], toPage[p],
                            g, toServer[p], Tail(toPage[p]))
  <2>1. Story(x, Open, page[x.host], toServer[x.host], toPage[x.host],
              page[p], toServer[p], toPage[p])
    BY <1>4, <1>13 DEF PagesInv, StoryOf
  <2>2. x \notin Open
    BY <1>2, <1>4, <2>1 DEF Story, Awaited
  <2>3. Watched(x, Open, page[p], toPage[p])
    BY <1>4, <1>13 DEF CallInv, WatchedOf
  <2>4. Free(toPage[p], CS(x), ES(x))
    BY <1>1, <2>3 DEF Watched
  <2>5. CS(x) # ES(x)
    BY Words
  <2>6. ~Holds(toPage[p], CS(x))
    BY <1>1, <1>2, <1>4, <2>4, <2>5, TailOrder
  <2>7. ~Holds(Tail(toPage[p]), CS(x))
    BY <1>1, <1>2, <2>6, TailQueue
  <2>8. Once(Tail(toPage[p]), CS(x)) /\ Free(Tail(toPage[p]), CS(x), ES(x))
    BY <2>7 DEF Once, Free, Holds
  <2>9. ~Live(g.clients, x)
    BY <1>9 DEF Live
  <2> QED BY <2>2, <2>7, <2>8, <2>9 DEF Watched, ClientGoes
<1>14. CallFits(p, g, toServer[p], Tail(toPage[p]))
  BY <1>1, <1>2, <1>7, <1>9, <1>10, <1>11, <1>12, <1>13, ReadCallFits
<1> QED BY <1>6, <1>14, QuietCallStep

-----------------------------------------------------------------------------
\* What the loop does to it

\* What d is told: of each new session its part, of each that is over the end.
Informs(d, n) ==
    /\ n \in Seq(Wire)
    /\ \A s : Holds(n, CS(s)) => s \in Open' \ Open /\ s.client = d
    /\ \A s \in Open' \ Open :
        Once(n, CS(s)) /\ ~Holds(n, ES(s)) /\ (s.host = d => Holds(n, HS(s)))
    /\ \A s \in Open \ Open' : s.client = d => EndIn(n, s)

\* Nobody has said anything of s to d, nor d to anybody.
Unheard(s, d) ==
    /\ s \notin DOMAIN page[d].hosts /\ s \notin DOMAIN page[d].clients
    /\ s \notin page[d].offering /\ s \notin page[d].answering
    /\ \A type : ~Holds(toServer[d], About(type, s)) /\ ~Holds(toPage[d], About(type, s))

LEMMA ArrivedQueue ==
    ASSUME NEW g, NEW i \in Seq(Wire), NEW n \in Seq(Wire), NEW k, Arrives(g, i, n, k)
    PROVE  /\ \A m : Holds(k, m) => Holds(i, m) \/ Holds(n, m)
           /\ g.phase # "shut" => \A m : Holds(i, m) \/ Holds(n, m) => Holds(k, m)
<1>1. CASE g.phase = "shut"
  <2>1. k = <<>>
    BY <1>1 DEF Arrives
  <2> QED BY <1>1, <2>1, EmptyQueue
<1>2. CASE g.phase # "shut"
  <2>1. k = i \o n
    BY <1>2 DEF Arrives
  <2>2. \A m : Holds(i \o n, m) <=> Holds(i, m) \/ Holds(n, m)
    BY JoinedQueue
  <2> QED BY <2>1, <2>2
<1> QED BY <1>1, <1>2

LEMMA ReadQueue ==
    ASSUME NEW q \in Seq(Wire), NEW a, Read(q, a)
    PROVE  /\ \A m : Holds(q, m) => Holds(a, m) \/ (q # <<>> /\ a = Tail(q) /\ m = Head(q))
           /\ \A m : Holds(a, m) => Holds(q, m)
<1>1. CASE a = q
  BY <1>1
<1>2. CASE q # <<>> /\ a = Tail(q)
  <2>1. /\ \A m : Holds(Tail(q), m) => Holds(q, m)
        /\ \A m : Holds(q, m) => m = Head(q) \/ Holds(Tail(q), m)
    BY <1>2, TailQueue
  <2> QED BY <1>2, <2>1
<1> QED BY <1>1, <1>2 DEF Read

\* What the loop has taken of what p has written, and what it writes to p.
LEMMA OwnServed ==
    ASSUME NEW p, NEW S, NEW T, NEW g, NEW a \in Seq(Wire), NEW i \in Seq(Wire),
           Own(p, S, g, a, i), NEW d, Read(a, d), NEW n \in Seq(Wire), NEW k, Arrives(g, i, n, k),
           \A s : Holds(n, CS(s)) => s.client = p,
           p \in T => p \in S \/ (a # <<>> /\ d = Tail(a) /\ Head(a) = Msg("share")),
           p \in T /\ a # <<>> /\ d = Tail(a) => Head(a) # Msg("stopshare")
    PROVE  Own(p, T, g, d, k)
<1>1. \A m : Holds(k, m) => Holds(i, m) \/ Holds(n, m)
  BY ArrivedQueue
<1>2. Trailed(a, Msg("share"), Msg("stopshare")) => Trailed(d, Msg("share"), Msg("stopshare"))
  <2>1. CASE d = a
    BY <2>1
  <2>2. CASE a # <<>> /\ d = Tail(a)
    BY <2>2, TrailedTail
  <2> QED BY <2>1, <2>2 DEF Read
<1>3. ASSUME p \in T, p \in S, Holds(a, Msg("stopshare")) PROVE Holds(d, Msg("stopshare"))
  BY <1>3, ReadQueue
<1>4. ASSUME p \in T, p \notin S, Trailed(a, Msg("share"), Msg("stopshare"))
      PROVE  Holds(d, Msg("stopshare"))
  <2>1. a # <<>> /\ d = Tail(a) /\ Head(a) = Msg("share")
    BY <1>4
  <2>2. Holds(Tail(a), Msg("stopshare"))
    BY <1>4, <2>1, TrailedTail
  <2> QED BY <2>1, <2>2
<1> QED BY <1>1, <1>2, <1>3, <1>4 DEF Own

\* A session that stays, or that is over and its client told.
LEMMA WatchedServed ==
    ASSUME NEW s, NEW O, NEW P, NEW C, NEW j \in Seq(Wire), Watched(s, O, C, j),
           NEW m \in Seq(Wire), NEW l, Arrives(C, j, m, l), s \in P => s \in O,
           ~Holds(m, CS(s)), s \in O /\ s \notin P => EndIn(m, s)
    PROVE  Watched(s, P, C, l)
<1> SUFFICES ASSUME C.phase # "shut"
             PROVE  /\ Once(l, CS(s)) /\ Free(l, CS(s), ES(s))
                    /\ Holds(l, CS(s)) => s \notin DOMAIN C.clients /\ s \notin C.answering
                    /\ s \notin P /\ (Live(C.clients, s) \/ Holds(l, CS(s))) => EndIn(l, s)
                    /\ s \in P /\ s \in C.answering => Waits(C, s)
  BY DEF Watched
<1>1. l = j \o m
  BY DEF Arrives
<1>2. /\ Once(j, CS(s)) /\ Free(j, CS(s), ES(s))
      /\ Holds(j, CS(s)) => s \notin DOMAIN C.clients /\ s \notin C.answering
      /\ s \notin O /\ (Live(C.clients, s) \/ Holds(j, CS(s))) => EndIn(j, s)
      /\ s \in O /\ s \in C.answering => Waits(C, s)
  BY DEF Watched
<1>3. Once(m, CS(s)) /\ Free(m, CS(s), ES(s))
  BY DEF Holds, Once, Free
<1>4. Once(l, CS(s))
  BY <1>1, <1>2, <1>3, JoinedQueue
<1>5. Free(l, CS(s), ES(s))
  BY <1>1, <1>2, <1>3, JoinedOrder
<1>6. \A n : Holds(l, n) <=> Holds(j, n) \/ Holds(m, n)
  BY <1>1, JoinedQueue
<1>7. EndIn(j, s) \/ EndIn(m, s) => EndIn(l, s)
  BY <1>6 DEF EndIn
<1> QED BY <1>2, <1>4, <1>5, <1>6, <1>7

LEMMA GoingServed ==
    ASSUME NEW s, NEW O, NEW P, s \in P => s \in O, NEW H, NEW C,
           NEW a \in Seq(Wire), NEW i \in Seq(Wire), NEW b \in Seq(Wire), NEW j \in Seq(Wire),
           Going(s, O, H, a, i, C, b, j),
           NEW d, NEW e, Read(a, d), Read(b, e),
           NEW n \in Seq(Wire), NEW k, Arrives(H, i, n, k),
           NEW m \in Seq(Wire), NEW l, Arrives(C, j, m, l),
           ~Holds(m, CS(s)),
           s \in P /\ a # <<>> /\ d = Tail(a) =>
                /\ Head(a) # Msg("stopshare")
                /\ Head(a) = HO(s) => Holds(l, HO(s)) \/ C.phase = "shut",
           s \in P /\ b # <<>> /\ e = Tail(b) =>
                (Head(b) = CA(s) => Holds(k, CA(s)) \/ H.phase = "shut")
    PROVE  Going(s, P, H, d, k, C, e, l)
<1> SUFFICES ASSUME s \in P, H.phase # "shut", C.phase # "shut"
             PROVE  /\ (Waits(C, s) \/ Holds(l, CS(s))) /\ ~Holds(d, Msg("stopshare")) =>
                            Coming(s, H, d, k) \/ Asked(s, C, l)
                    /\ Offered(H, s) =>
                            Holds(d, HO(s)) \/ Asked(s, C, l) \/ Holds(e, CA(s)) \/ Holds(k, CA(s))
  BY DEF Going
<1>1. /\ (Waits(C, s) \/ Holds(j, CS(s))) /\ ~Holds(a, Msg("stopshare")) =>
                Coming(s, H, a, i) \/ Asked(s, C, j)
      /\ Offered(H, s) =>
                Holds(a, HO(s)) \/ Asked(s, C, j) \/ Holds(b, CA(s)) \/ Holds(i, CA(s))
  BY DEF Going
<1>2. \A x : Holds(i, x) => Holds(k, x)
  BY ArrivedQueue
<1>3. \A x : /\ Holds(j, x) => Holds(l, x)
             /\ Holds(l, x) => Holds(j, x) \/ Holds(m, x)
  BY ArrivedQueue
<1>4. /\ Holds(a, Msg("stopshare")) => Holds(d, Msg("stopshare"))
      /\ Holds(a, HO(s)) => Holds(d, HO(s)) \/ Holds(l, HO(s))
  BY ReadQueue
<1>5. Holds(b, CA(s)) => Holds(e, CA(s)) \/ Holds(k, CA(s))
  BY ReadQueue
<1>6. Asked(s, C, j) => Asked(s, C, l)
  BY <1>3 DEF Asked
<1>7. Coming(s, H, a, i) => Coming(s, H, d, k) \/ Asked(s, C, l)
  BY <1>2, <1>4 DEF Coming, Asked
<1>8. Holds(l, CS(s)) => Holds(j, CS(s))
  BY <1>3
<1>9. Holds(a, HO(s)) => Holds(d, HO(s)) \/ Asked(s, C, l)
  BY <1>4 DEF Asked
<1> QED BY <1>1, <1>2, <1>4, <1>5, <1>6, <1>7, <1>8, <1>9

\* A new one.
LEMMA CallBegins ==
    ASSUME NEW s, NEW P, NEW H, NEW C, NEW i \in Seq(Wire), NEW j \in Seq(Wire),
           NEW d, NEW e, NEW n \in Seq(Wire), NEW k, Arrives(H, i, n, k),
           NEW m \in Seq(Wire), NEW l, Arrives(C, j, m, l), s \in P,
           s \notin DOMAIN H.hosts, s \notin DOMAIN C.clients, s \notin C.answering,
           ~Holds(j, CS(s)), ~Holds(j, ES(s)),
           Holds(n, HS(s)), Once(m, CS(s)), ~Holds(m, ES(s))
    PROVE  Watched(s, P, C, l) /\ Going(s, P, H, d, k, C, e, l)
<1>1. Watched(s, P, C, l)
  <2> SUFFICES ASSUME C.phase # "shut" PROVE Once(l, CS(s)) /\ Free(l, CS(s), ES(s))
    BY DEF Watched
  <2>1. l = j \o m
    BY DEF Arrives
  <2>2. Once(j, CS(s)) /\ Free(j, CS(s), ES(s)) /\ Free(m, CS(s), ES(s))
    <3>1. Once(j, CS(s)) /\ Free(j, CS(s), ES(s))
      BY DEF Holds, Once, Free
    <3>2. Free(m, CS(s), ES(s))
      <4>1. /\ DOMAIN m = 1..Len(m) /\ Len(m) \in Nat
        BY LenProperties
      <4> QED BY <4>1 DEF Holds, Free
    <3> QED BY <3>1, <3>2
  <2>3. Once(l, CS(s))
    BY <2>1, <2>2, JoinedQueue
  <2>4. Free(l, CS(s), ES(s))
    BY <2>1, <2>2, JoinedOrder
  <2> QED BY <2>3, <2>4
<1>2. Going(s, P, H, d, k, C, e, l)
  <2>1. H.phase # "shut" => Holds(k, HS(s))
    BY ArrivedQueue
  <2> QED BY <2>1 DEF Going, Coming, Offered
<1> QED BY <1>1, <1>2

\* The loop takes a message of p, and d is told whatever it is told.
LEMMA ServedCalls ==
    ASSUME Loop', PagesInv, CallInv, NEW p \in Client, Serve(p),
           \A s \in Open' \ Open : \A d \in Client : Unheard(s, d),
           \A d \in Client : \E n : Informs(d, n) /\ toPage'[d] = Delivered(d, n),
           \A d \in Sharing' : d \in Sharing \/ (d = p /\ Head(toServer[p]) = Msg("share")),
           Head(toServer[p]) = Msg("stopshare") =>
                p \notin Sharing' /\ \A s \in Open' : s.host # p,
           \A s \in Open' \cap Open :
                /\ s.host = p /\ Head(toServer[p]) = HO(s) =>
                        Holds(toPage'[s.client], HO(s)) \/ page[s.client].phase = "shut"
                /\ s.client = p /\ Head(toServer[p]) = CA(s) =>
                        Holds(toPage'[s.host], CA(s)) \/ page[s.host].phase = "shut"
    PROVE  CallInv'
<1>1. /\ page' = page /\ toServer[p] # <<>> /\ toServer'[p] = Tail(toServer[p])
      /\ \A d \in Client : d # p => toServer'[d] = toServer[d]
  BY ServedQueues
<1>2. ASSUME NEW d \in Client
      PROVE  /\ toServer[d] \in Seq(Wire) /\ toPage[d] \in Seq(Wire)
             /\ Read(toServer[d], toServer'[d])
             /\ d # p => toServer'[d] = toServer[d]
  BY <1>1, PageFacts DEF Read
<1>3. ASSUME NEW d \in Client, NEW n, Informs(d, n), toPage'[d] = Delivered(d, n)
      PROVE  n \in Seq(Wire) /\ Arrives(page[d], toPage[d], n, toPage'[d])
  <2>1. n \in Seq(Wire)
    BY <1>3 DEF Informs
  <2>2. /\ page[d].phase = "shut" => toPage'[d] = <<>>
        /\ page[d].phase # "shut" => toPage'[d] = toPage[d] \o n
    BY <1>3, <2>1, DeliveredQueue
  <2> QED BY <2>1, <2>2 DEF Arrives
<1>4. ASSUME NEW d \in Client PROVE Own(d, Sharing', page[d], toServer'[d], toPage'[d])
  <2>1. PICK n : Informs(d, n) /\ toPage'[d] = Delivered(d, n)
    OBVIOUS
  <2>2. PICK a, e, i, k : /\ a = toServer[d] /\ e = toServer'[d]
                          /\ i = toPage[d] /\ k = toPage'[d]
    OBVIOUS
  <2>3. PICK S, T, g : S = Sharing /\ T = Sharing' /\ g = page[d]
    OBVIOUS
  <2>4. Own(d, S, g, a, i)
    BY <2>2, <2>3 DEF CallInv, OwnOf
  <2>5. a \in Seq(Wire) /\ i \in Seq(Wire) /\ Read(a, e)
    BY <1>2, <2>2
  <2>6. n \in Seq(Wire) /\ Arrives(g, i, n, k) /\ \A s : Holds(n, CS(s)) => s.client = d
    BY <1>3, <2>1, <2>2, <2>3 DEF Informs
  <2>7. d \in T => d \in S \/ (a # <<>> /\ e = Tail(a) /\ Head(a) = Msg("share"))
    BY <1>1, <2>2, <2>3
  <2>8. d \in T /\ a # <<>> /\ e = Tail(a) => Head(a) # Msg("stopshare")
    <3>1. CASE d = p
      BY <2>2, <2>3, <3>1
    <3>2. CASE d # p
      <4>1. e = a
        BY <1>1, <2>2, <3>2
      <4>2. a # <<>> => Tail(a) # a
        BY <2>5
      <4> QED BY <4>1, <4>2
    <3> QED BY <3>1, <3>2
  <2>9. Own(d, T, g, e, k)
    BY <2>4, <2>5, <2>6, <2>7, <2>8, OwnServed
  <2> QED BY <2>2, <2>3, <2>9
<1>5. ASSUME NEW s \in Proper
      PROVE  /\ Watched(s, Open', page[s.client], toPage'[s.client])
             /\ Going(s, Open', page[s.host], toServer'[s.host], toPage'[s.host],
                      page[s.client], toServer'[s.client], toPage'[s.client])
  <2>1. PICK h, v : h = s.host /\ v = s.client
    OBVIOUS
  <2>2. h \in Client /\ v \in Client /\ h # v
    BY <2>1 DEF Proper, Session
  <2>3. PICK n : Informs(h, n) /\ toPage'[h] = Delivered(h, n)
    BY <2>2
  <2>4. PICK m : Informs(v, m) /\ toPage'[v] = Delivered(v, m)
    BY <2>2
  <2>5. PICK O, P, H, C : O = Open /\ P = Open' /\ H = page[h] /\ C = page[v]
    OBVIOUS
  <2>6. PICK a, i, b, j : a = toServer[h] /\ i = toPage[h] /\ b = toServer[v] /\ j = toPage[v]
    OBVIOUS
  <2>7. PICK d, k, e, l : d = toServer'[h] /\ k = toPage'[h] /\ e = toServer'[v] /\ l = toPage'[v]
    OBVIOUS
  <2>8. /\ a \in Seq(Wire) /\ i \in Seq(Wire) /\ b \in Seq(Wire) /\ j \in Seq(Wire)
        /\ Read(a, d) /\ Read(b, e)
    BY <1>2, <2>2, <2>6, <2>7
  <2>9. n \in Seq(Wire) /\ Arrives(H, i, n, k)
    BY <1>3, <2>2, <2>3, <2>5, <2>6, <2>7
  <2>10. m \in Seq(Wire) /\ Arrives(C, j, m, l)
    BY <1>3, <2>2, <2>4, <2>5, <2>6, <2>7
  <2>11. Watched(s, O, C, j) /\ Going(s, O, H, a, i, C, b, j)
    BY <2>1, <2>5, <2>6 DEF CallInv, WatchedOf, GoingOf
  <2>12. Watched(s, P, C, l) /\ Going(s, P, H, d, k, C, e, l)
    <3>1. CASE s \in P \ O
      <4>1. Unheard(s, h) /\ Unheard(s, v)
        BY <2>2, <2>5, <3>1
      <4>2. s \notin DOMAIN H.hosts /\ s \notin DOMAIN C.clients /\ s \notin C.answering
        BY <2>5, <4>1 DEF Unheard
      <4>3. ~Holds(j, CS(s)) /\ ~Holds(j, ES(s))
        BY <2>6, <4>1 DEF Unheard, CS, ES
      <4>4. Holds(n, HS(s)) /\ Once(m, CS(s)) /\ ~Holds(m, ES(s))
        BY <2>1, <2>3, <2>4, <2>5, <3>1 DEF Informs
      <4> QED BY <2>8, <2>9, <2>10, <3>1, <4>2, <4>3, <4>4, CallBegins
    <3>2. CASE s \notin P \ O
      <4>1. ~Holds(m, CS(s))
        BY <2>4, <2>5, <3>2 DEF Informs
      <4>2. s \in O /\ s \notin P => EndIn(m, s)
        BY <2>1, <2>4, <2>5 DEF Informs
      <4>3. s \in P => s \in O
        BY <3>2
      <4>4. Watched(s, P, C, l)
        BY <2>8, <2>10, <2>11, <4>1, <4>2, <4>3, WatchedServed
      <4>5. ASSUME s \in P, a # <<>>, d = Tail(a)
            PROVE  /\ Head(a) # Msg("stopshare")
                   /\ Head(a) = HO(s) => Holds(l, HO(s)) \/ C.phase = "shut"
        <5>1. Tail(a) # a
          BY <2>8, <4>5
        <5>2. h = p
          BY <1>1, <2>2, <2>6, <2>7, <4>5, <5>1
        <5>3. s \in Open' \cap Open /\ s.host = p
          BY <2>1, <2>5, <4>3, <4>5, <5>2
        <5>4. Head(toServer[p]) # Msg("stopshare")
          BY <5>3
        <5>5. Head(toServer[p]) = HO(s) => Holds(toPage'[v], HO(s)) \/ page[v].phase = "shut"
          BY <2>1, <5>3
        <5> QED BY <2>5, <2>6, <2>7, <5>2, <5>4, <5>5
      <4>6. ASSUME s \in P, b # <<>>, e = Tail(b), Head(b) = CA(s)
            PROVE  Holds(k, CA(s)) \/ H.phase = "shut"
        <5>1. Tail(b) # b
          BY <2>8, <4>6
        <5>2. v = p
          BY <1>1, <2>2, <2>6, <2>7, <4>6, <5>1
        <5>3. s \in Open' \cap Open /\ s.client = p
          BY <2>1, <2>5, <4>3, <4>6, <5>2
        <5>4. Holds(toPage'[h], CA(s)) \/ page[h].phase = "shut"
          BY <2>1, <2>6, <4>6, <5>2, <5>3
        <5> QED BY <2>5, <2>7, <5>4
      <4>7. Going(s, P, H, d, k, C, e, l)
        <5>1. s \in P /\ a # <<>> /\ d = Tail(a) =>
                    /\ Head(a) # Msg("stopshare")
                    /\ Head(a) = HO(s) => Holds(l, HO(s)) \/ C.phase = "shut"
          BY <4>5
        <5>2. s \in P /\ b # <<>> /\ e = Tail(b) =>
                    (Head(b) = CA(s) => Holds(k, CA(s)) \/ H.phase = "shut")
          BY <4>6
        <5>3. Going(s, O, H, a, i, C, b, j)
          BY <2>11
        <5> QED BY <2>8, <2>9, <2>10, <4>1, <4>3, <5>1, <5>2, <5>3, GoingServed
      <4> QED BY <4>4, <4>7
    <3> QED BY <3>1, <3>2
  <2> QED BY <2>1, <2>5, <2>7, <2>12
<1>6. \A d \in Client : OwnOf(d)'
  BY <1>1, <1>4 DEF OwnOf
<1>7. \A s \in Proper : WatchedOf(s)' /\ GoingOf(s)'
  BY <1>1, <1>5 DEF WatchedOf, GoingOf
<1> QED BY <1>6, <1>7 DEF CallInv

\* Nothing is told, nothing arrives.
LEMMA ToldNothing ==
    ASSUME PagesInv, NEW d \in Client, Open' = Open
    PROVE  Informs(d, <<>>) /\ Delivered(d, <<>>) = toPage[d]
<1>1. <<>> \in Seq(Wire)
  OBVIOUS
<1>2. Informs(d, <<>>)
  BY <1>1, EmptyQueue DEF Informs
<1>3. PICK k : k = Delivered(d, <<>>)
  OBVIOUS
<1>4. k = toPage[d]
  BY <1>1, <1>3, DeliveredQueue
<1> QED BY <1>2, <1>3, <1>4

\* A message that is dropped is not an end's of an open session, nor says it shares no more.
LEMMA DroppedCalls ==
    ASSUME Loop', Sharers, PagesInv, CallInv, NEW p \in Client, Serve(p),
           UNCHANGED <<vars, toPage>>,
           \/ p \notin DOMAIN connected
           \/ \E s : \/ Head(toServer[p]) = HO(s) /\ (s.host = p => s \notin Open)
                     \/ Head(toServer[p]) = CA(s) /\ (s.client = p => s \notin Open)
    PROVE  CallInv'
<1>1. Open' = Open /\ Sharing' = Sharing /\ toPage' = toPage /\ connected' = connected
  BY DEF vars, Open, Sharing
<1>2. ASSUME NEW d \in Client PROVE \E n : Informs(d, n) /\ toPage'[d] = Delivered(d, n)
  BY <1>1, ToldNothing
<1>3. Head(toServer[p]) = Msg("stopshare") =>
            p \notin Sharing' /\ \A s \in Open' : s.host # p
  <2>1. ASSUME p \notin DOMAIN connected
        PROVE  p \notin Sharing' /\ \A s \in Open' : s.host # p
    BY <1>1, <2>1 DEF Sharers
  <2>2. \A s : Msg("stopshare") \notin {HO(s), CA(s)}
    BY Words
  <2> QED BY <2>1, <2>2
<1>4. ASSUME NEW s \in Open, p \in {s.host, s.client},
             \/ s.host = p /\ Head(toServer[p]) = HO(s)
             \/ s.client = p /\ Head(toServer[p]) = CA(s)
      PROVE  FALSE
  <2>1. s.host \in DOMAIN connected /\ s.client \in DOMAIN connected
    BY <1>1, <1>4 DEF Loop
  <2>2. \A x : /\ HO(s) = HO(x) => x = s
               /\ CA(s) = CA(x) => x = s
               /\ HO(s) # CA(x) /\ CA(s) # HO(x)
    BY Words
  <2> QED BY <1>4, <2>1, <2>2
<1>5. \A s \in Open' \cap Open :
        /\ s.host = p /\ Head(toServer[p]) = HO(s) =>
                Holds(toPage'[s.client], HO(s)) \/ page[s.client].phase = "shut"
        /\ s.client = p /\ Head(toServer[p]) = CA(s) =>
                Holds(toPage'[s.host], CA(s)) \/ page[s.host].phase = "shut"
  BY <1>4
<1> QED BY <1>1, <1>2, <1>3, <1>5, ServedCalls

\* One that is handed on.
LEMMA PassedCalls ==
    ASSUME Loop, Loop', PagesInv, CallInv, NEW p \in Client, Serve(p), UNCHANGED vars,
           NEW x \in Open, NEW c \in Client, NEW m, Head(toServer[p]) = m,
           \/ m = HO(x) /\ p = x.host /\ c = x.client
           \/ m = CA(x) /\ p = x.client /\ c = x.host,
           toPage' = [toPage EXCEPT ![c] = Delivered(c, <<m>>)]
    PROVE  CallInv'
<1>1. Open' = Open /\ Sharing' = Sharing
  BY DEF vars, Open, Sharing
<1>2. m \in Wire
  BY ServedQueues
<1>3. PICK w : w = <<m>>
  OBVIOUS
<1>4. w \in Seq(Wire) /\ \A n : Holds(w, n) <=> n = m
  BY <1>2, <1>3, SingleQueue
<1>5. toPage'[c] = Delivered(c, w) /\ \A d \in Client \ {c} : toPage'[d] = toPage[d]
  BY <1>3 DEF PagesInv, PagesType
<1>6. /\ \A s : m # CS(s)
      /\ m # Msg("stopshare")
      /\ \A s : m = HO(s) => s = x /\ p = x.host /\ c = x.client
      /\ \A s : m = CA(s) => s = x /\ p = x.client /\ c = x.host
  BY Words
<1>7. Informs(c, w)
  BY <1>1, <1>4, <1>6 DEF Informs
<1>8. ASSUME NEW d \in Client PROVE \E n : Informs(d, n) /\ toPage'[d] = Delivered(d, n)
  <2>1. CASE d = c
    BY <1>5, <1>7, <2>1
  <2>2. CASE d # c
    BY <1>1, <1>5, <2>2, ToldNothing
  <2> QED BY <2>1, <2>2
<1>9. page[c].phase # "shut" => Holds(toPage'[c], m)
  <2> SUFFICES ASSUME page[c].phase # "shut" PROVE Holds(toPage'[c], m)
    OBVIOUS
  <2>1. toPage[c] \in Seq(Wire)
    BY PageFacts
  <2>2. PICK k : k = toPage'[c]
    OBVIOUS
  <2>3. k = toPage[c] \o w
    BY <1>4, <1>5, <2>2, DeliveredQueue
  <2>4. \A n : Holds(toPage[c] \o w, n) <=> Holds(toPage[c], n) \/ Holds(w, n)
    BY <1>4, <2>1, JoinedQueue
  <2> QED BY <1>4, <2>2, <2>3, <2>4
<1>10. \A s \in Open' \cap Open :
        /\ s.host = p /\ Head(toServer[p]) = HO(s) =>
                Holds(toPage'[s.client], HO(s)) \/ page[s.client].phase = "shut"
        /\ s.client = p /\ Head(toServer[p]) = CA(s) =>
                Holds(toPage'[s.host], CA(s)) \/ page[s.host].phase = "shut"
  BY <1>6, <1>9
<1> QED BY <1>1, <1>6, <1>8, <1>10, ServedCalls

\* The news tell what has to be told.
LEMMA TidingsTell ==
    ASSUME NEW p, NEW type, NEW d, NEW n, Tidings(p, type, d, n)
    PROVE  Informs(d, n)
<1>1. ASSUME NEW s, Holds(n, CS(s)) PROVE s \in Open' \ Open /\ s.client = d
  <2>1. /\ \A x : CS(s) # HS(x) /\ CS(s) # ES(x)
        /\ \A x : CS(s) = CS(x) => x = s
        /\ CS(s) \notin {Msg("room"), Msg("closewriter")}
    BY Words
  <2>2. \/ CS(s) \in {Msg("room"), Msg("closewriter")}
        \/ \E x \in Open \ Open' : CS(s) = ES(x)
        \/ \E x \in Open' \ Open : (x.host = d /\ CS(s) = HS(x)) \/ (x.client = d /\ CS(s) = CS(x))
    BY <1>1 DEF Tidings
  <2> QED BY <2>1, <2>2
<1>2. ASSUME NEW s, Holds(n, ES(s)) PROVE s \notin Open' \ Open
  BY <1>2, TidingsOf
<1>3. /\ n \in Seq(Wire)
      /\ \A s \in Open' \ Open : Once(n, CS(s)) /\ (s.host = d => Holds(n, HS(s)))
      /\ \A s \in Open \ Open' : s.client = d => EndIn(n, s)
  BY DEF Tidings, EndIn
<1> QED BY <1>1, <1>2, <1>3 DEF Informs

\* One that is handled.
LEMMA HandledCalls ==
    ASSUME Loop, Loop', PagesInv, CallInv, NEW p \in Client, p \in DOMAIN connected, Serve(p),
           NewXids, NEW type, type = Head(toServer[p]).type, Turns(p, type),
           \/ type # "enter" /\ Writes(p)
           \/ type = "enter" /\ WritesOnEntering(p)
    PROVE  CallInv'
<1>1. Head(toServer[p]) \in Wire /\ toServer[p] # <<>> /\ toServer[p] \in Seq(Wire)
  BY ServedQueues, PageFacts
<1>2. type = "enter" => connected[p] = NoRoom
  <2> SUFFICES ASSUME type = "enter" PROVE connected[p] = NoRoom
    OBVIOUS
  <2>1. Head(toServer[p]) = Msg("enter")
    BY <1>1, Spelled DEF Plain
  <2>2. Holds(toServer[p], Msg("enter"))
    BY <1>1, <2>1, TailQueue
  <2>3. InPhase(p, connected, told, page[p], toServer[p], toPage[p])
    BY PageFacts
  <2> QED BY <2>2, <2>3 DEF InPhase
<1>3. ASSUME NEW d \in Client PROVE \E n : Informs(d, n) /\ toPage'[d] = Delivered(d, n)
  <2>1. PICK n : Tidings(p, type, d, n) /\ toPage'[d] = Delivered(d, n)
    BY <1>2, NewsComes
  <2> QED BY <2>1, TidingsTell
<1>4. ASSUME NEW s \in Open' \ Open, NEW d \in Client PROVE Unheard(s, d)
  <2>1. s \in Session
    BY <1>4 DEF Loop, Proper
  <2> QED BY <1>4, <2>1, UnheardOf DEF Unheard
<1>5. \A d \in Sharing' : d \in Sharing \/ (d = p /\ Head(toServer[p]) = Msg("share"))
  <2>1. type = "share" => Head(toServer[p]) = Msg("share")
    BY <1>1, Spelled DEF Plain
  <2> QED BY <2>1 DEF Turns
<1>6. Head(toServer[p]) = Msg("stopshare") => p \notin Sharing' /\ \A s \in Open' : s.host # p
  <2>1. Head(toServer[p]) = Msg("stopshare") => type = "stopshare"
    BY Words
  <2> QED BY <2>1 DEF Turns
<1>7. ASSUME NEW s \in Open', p \in {s.host, s.client}, Head(toServer[p]) \in {HO(s), CA(s)}
      PROVE  FALSE
  <2>1. type \in {"hostoffer", "clientanswer"}
    BY <1>7, Words
  <2>2. p \notin DOMAIN connected'
    BY <2>1 DEF Turns
  <2>3. {s.host, s.client} \subseteq DOMAIN connected'
    BY <1>7 DEF Loop
  <2> QED BY <1>7, <2>2, <2>3
<1>8. \A s \in Open' \cap Open :
        /\ s.host = p /\ Head(toServer[p]) = HO(s) =>
                Holds(toPage'[s.client], HO(s)) \/ page[s.client].phase = "shut"
        /\ s.client = p /\ Head(toServer[p]) = CA(s) =>
                Holds(toPage'[s.host], CA(s)) \/ page[s.host].phase = "shut"
  BY <1>7
<1> QED BY <1>3, <1>4, <1>5, <1>6, <1>8, ServedCalls

\* The loop takes a message.
LEMMA ServeCalls ==
    ASSUME LInv, LInv', PagesInv, CallInv, NEW p \in Client, Serve(p)
    PROVE  CallInv'
<1>1. Loop /\ Loop' /\ Sharers
  BY LoopHolds, LoopGoesOn, SharersKnown
<1>2. toServer[p] # <<>> /\ Head(toServer[p]) \in Wire
  BY ServedQueues
<1>3. PICK m : m = Head(toServer[p])
  OBVIOUS
<1>4. CASE p \notin DOMAIN connected
  <2>1. UNCHANGED <<vars, toPage>>
    BY <1>4 DEF Serve
  <2> QED BY <1>1, <1>4, <2>1, DroppedCalls
<1>5. CASE p \in DOMAIN connected
  <2>1. Executes(p, m) /\ NewXids
    BY <1>3, <1>5 DEF Serve
  <2>2. \/ Handled(p, m.type) /\ Writes(p) /\ m.type # "enter"
        \/ Handled(p, "enter") /\ WritesOnEntering(p) /\ m.type = "enter"
        \/ Passed(p, m) /\ m.type \in {"hostoffer", "clientanswer"}
        \/ Ignored(p, m) /\ m.type \in {"hostoffer", "clientanswer"}
    BY <1>5, <2>1, ExecutesOutcome
  <2>3. CASE /\ Handled(p, m.type)
             /\ \/ m.type # "enter" /\ Writes(p)
                \/ m.type = "enter" /\ WritesOnEntering(p)
    <3>1. PICK type : type = m.type
      OBVIOUS
    <3>2. Turns(p, type)
      BY <2>3, <3>1, HandledTurns
    <3>3. type = Head(toServer[p]).type
      BY <1>3, <3>1
    <3>4. \/ type # "enter" /\ Writes(p)
          \/ type = "enter" /\ WritesOnEntering(p)
      BY <2>3, <3>1
    <3> QED BY <1>1, <1>5, <2>1, <3>2, <3>3, <3>4, HandledCalls
  <2>4. CASE Passed(p, m) /\ m.type \in {"hostoffer", "clientanswer"}
    <3>1. PICK side \in Side, other \in Side :
            /\ m.type = "hostoffer" => side = "host" /\ other = "client"
            /\ m.type = "clientanswer" => side = "client" /\ other = "host"
            /\ m.sid[side] = p
            /\ toPage' = [toPage EXCEPT ![m.sid[other]] = Delivered(m.sid[other], <<m>>)]
      BY <2>4 DEF Passed
    <3>2. PICK x \in Open : x = m.sid
      BY <2>4 DEF Passed
    <3>3. UNCHANGED vars
      BY <2>4 DEF Passed
    <3>4. x.host \in Client /\ x.client \in Client
      BY <1>1 DEF Loop, Proper, Session
    <3>5. CASE m.type = "hostoffer"
      <4>1. m = HO(x)
        BY <1>2, <1>3, <3>2, <3>5, Spelled
      <4>2. p = x.host
        BY <3>1, <3>2, <3>5
      <4>3. PICK c \in Client : c = x.client
        BY <3>4
      <4>4. toPage' = [toPage EXCEPT ![c] = Delivered(c, <<m>>)]
        BY <3>1, <3>2, <3>5, <4>3
      <4> QED BY <1>1, <1>3, <3>3, <4>1, <4>2, <4>3, <4>4, PassedCalls
    <3>6. CASE m.type = "clientanswer"
      <4>1. m = CA(x)
        BY <1>2, <1>3, <3>2, <3>6, Spelled
      <4>2. p = x.client
        BY <3>1, <3>2, <3>6
      <4>3. PICK c \in Client : c = x.host
        BY <3>4
      <4>4. toPage' = [toPage EXCEPT ![c] = Delivered(c, <<m>>)]
        BY <3>1, <3>2, <3>6, <4>3
      <4> QED BY <1>1, <1>3, <3>3, <4>1, <4>2, <4>3, <4>4, PassedCalls
    <3> QED BY <2>4, <3>5, <3>6
  <2>5. CASE Ignored(p, m) /\ m.type \in {"hostoffer", "clientanswer"}
    <3>1. UNCHANGED <<vars, toPage>>
      BY <2>5 DEF Ignored
    <3>2. \/ m = HO(m.sid) /\ (m.sid.host = p => m.sid \notin Open)
          \/ m = CA(m.sid) /\ (m.sid.client = p => m.sid \notin Open)
      BY <1>2, <1>3, <2>5, Spelled DEF Ignored
    <3>3. \E s : \/ Head(toServer[p]) = HO(s) /\ (s.host = p => s \notin Open)
                 \/ Head(toServer[p]) = CA(s) /\ (s.client = p => s \notin Open)
      BY <1>3, <3>2
    <3>4. \/ p \notin DOMAIN connected
          \/ \E s : \/ Head(toServer[p]) = HO(s) /\ (s.host = p => s \notin Open)
                    \/ Head(toServer[p]) = CA(s) /\ (s.client = p => s \notin Open)
      BY <3>3
    <3> QED BY <1>1, <3>1, <3>4, DroppedCalls
  <2>6. CASE Handled(p, "enter") /\ WritesOnEntering(p) /\ m.type = "enter"
    <3>1. Handled(p, m.type)
      BY <2>6
    <3> QED BY <2>3, <2>6, <3>1
  <2> QED BY <2>2, <2>3, <2>4, <2>5, <2>6
<1> QED BY <1>4, <1>5

LEMMA StillCalls == ASSUME CallInv, UNCHANGED allVars PROVE CallInv'
<1>1. Open' = Open /\ Sharing' = Sharing
  BY DEF Open, Sharing, allVars, vars
<1>2. page' = page /\ toServer' = toServer /\ toPage' = toPage
  BY DEF allVars, pageVars
<1> QED BY <1>1, <1>2 DEF CallInv, OwnOf, WatchedOf, GoingOf

LEMMA NextCalls == LInv /\ LInv' /\ PagesInv /\ CallInv /\ [PagesNext]_allVars => CallInv'
<1> SUFFICES ASSUME LInv, LInv', PagesInv, CallInv, [PagesNext]_allVars PROVE CallInv'
  OBVIOUS
<1>1. CASE UNCHANGED allVars
  BY <1>1, StillCalls
<1>2. CASE PagesNext
  <2>1. PICK p \in Client : Serve(p) \/ PageNext(p)
    BY <1>2 DEF PagesNext
  <2>2. CASE Serve(p)
    BY <2>2, ServeCalls
  <2>3. CASE Enter(p)
    BY <2>3, EnterCalls
  <2>4. CASE Lose(p)
    BY <2>4, LoseCalls
  <2>5. CASE Quit(p)
    BY <2>5, QuitCalls
  <2>6. CASE LeaveRoom(p)
    BY <2>6, LeaveRoomCalls
  <2>7. CASE OnRoom(p)
    BY <2>7, OnRoomCalls
  <2>8. CASE OnClose(p)
    BY <2>8, OnCloseCalls
  <2>9. CASE OnHostSession(p)
    BY <2>9, OnHostSessionCalls
  <2>10. CASE OnClientSession(p)
    BY <2>10, OnClientSessionCalls
  <2>11. CASE OnHostOffer(p)
    BY <2>11, OnHostOfferCalls
  <2>12. CASE OnClientAnswer(p)
    BY <2>12, OnClientAnswerCalls
  <2>13. CASE OnEndShare(p)
    BY <2>13, OnEndShareCalls
  <2>14. CASE Offer(p)
    BY <2>14, OfferCalls
  <2>15. CASE Answer(p)
    BY <2>15, AnswerCalls
  <2>16. CASE Share(p)
    BY <2>16, ShareCalls
  <2>17. CASE EndsShare(p)
    BY <2>17, EndsShareCalls
  <2>18. CASE HostFails(p)
    BY <2>18, HostFailsCalls
  <2>19. CASE ClientFails(p)
    BY <2>19, ClientFailsCalls
  <2> QED BY <2>1, <2>2, <2>3, <2>4, <2>5, <2>6, <2>7, <2>8, <2>9, <2>10, <2>11, <2>12,
             <2>13, <2>14, <2>15, <2>16, <2>17, <2>18, <2>19 DEF PageNext, Receive
<1> QED BY <1>1, <1>2

LEMMA CallsBegin == PagesInit => CallInv
<1> SUFFICES ASSUME PagesInit PROVE CallInv
  OBVIOUS
<1>1. /\ Sharing = {} /\ Open = {}
      /\ \A p \in Client : page[p] = Away /\ toServer[p] = <<>> /\ toPage[p] = <<>>
  BY DEF PagesInit, Init, Open, Sharing, Empty
<1>2. /\ Away.clients = Empty /\ Away.answering = {} /\ DOMAIN Empty = {}
  BY DEF Away, Empty
<1>3. ASSUME NEW p \in Client PROVE OwnOf(p)
  <2>1. Trailed(<<>>, Msg("share"), Msg("stopshare"))
    BY DEF Trailed
  <2>2. Own(p, {}, Away, <<>>, <<>>)
    BY <1>2, <2>1, EmptyQueue DEF Own
  <2> QED BY <1>1, <2>2 DEF OwnOf
<1>4. ASSUME NEW s \in Proper PROVE WatchedOf(s) /\ GoingOf(s)
  <2>1. s.host \in Client /\ s.client \in Client
    BY DEF Proper, Session
  <2>2. Watched(s, {}, Away, <<>>) /\ Going(s, {}, Away, <<>>, <<>>, Away, <<>>, <<>>)
    BY <1>2, EmptyQueue DEF Watched, Going, Live
  <2> QED BY <1>1, <2>1, <2>2 DEF WatchedOf, GoingOf
<1> QED BY <1>3, <1>4 DEF CallInv

\* Between the two pages of a session, the loop and what is on the way there is always
\* something that takes its handshake further, or the end of it that one is to be told.
THEOREM CallInvariant == PagesSpec => []CallInv
<1>1. PagesInit => CallInv
  BY CallsBegin
<1>2. LInv /\ LInv' /\ PagesInv /\ CallInv /\ [PagesNext]_allVars => CallInv'
  BY NextCalls
<1> QED BY <1>1, <1>2, PagesLedger, PagesInvariant, PTL DEF PagesSpec

\* No handshake stalls: whatever a handler or a relay drops, a viewer without an offer has
\* one to come, or a host that has stopped, and a host without an answer one to come.
THEOREM HandshakesNeverStall == PagesSpec => []HandshakesGoOn
<1>1. ASSUME LInv, CallInv PROVE HandshakesGoOn
  <2> SUFFICES ASSUME NEW s \in Open, page[s.host].phase = "in", page[s.client].phase = "in"
               PROVE  /\ s \in DOMAIN page[s.client].clients /\ page[s.client].clients[s] = "new"
                              /\ ~Holds(toServer[s.host], Msg("stopshare")) =>
                          \/ Holds(toPage[s.host], About("hostsession", s))
                          \/ s \in page[s.host].offering
                          \/ OfferUnderWay(s)
                      /\ s \in DOMAIN page[s.host].hosts /\ page[s.host].hosts[s] = "offered" =>
                          OfferUnderWay(s) \/ AnswerUnderWay(s)
    BY DEF HandshakesGoOn
  <2>1. s \in Proper
    BY <1>1, LoopHolds DEF Loop
  <2>2. GoingOf(s)
    BY <1>1, <2>1 DEF CallInv
  <2> QED BY <2>2 DEF GoingOf, Going, Waits, Offered, Coming, Asked, OfferUnderWay, AnswerUnderWay,
                      HS, HO, CA
<1> QED BY <1>1, PagesLedger, CallInvariant, PTL

\* A viewer's peer is of a session the loop has open, or the page is yet to read of its
\* end, however far its handshake is.
LEMMA WatchersHaveSessions ==
    ASSUME CallInv PROVE ViewersHaveSessions
<1> SUFFICES ASSUME NEW p \in Client, page[p].phase = "in",
                    NEW s \in DOMAIN page[p].clients, page[p].clients[s] # "closed"
             PROVE  s \in Open \/ Ending(p, s)
  BY DEF ViewersHaveSessions
<1>1. s \in Proper /\ s.client = p
  BY DEF CallInv, OwnOf, Own
<1>2. s \notin Open => EndIn(toPage[p], s)
  BY <1>1 DEF CallInv, WatchedOf, Watched, Live
<1>3. EndIn(toPage[p], s) => Ending(p, s)
  BY DEF EndIn, Ending, Holds, ES
<1> QED BY <1>2, <1>3

\* No peer at either end outlives its session: a screen is sent and a viewer kept only for
\* sessions that are open, or of whose end the page is yet to be told.
THEOREM PeersHaveTheirSessions == PagesSpec => []PeersHaveSessions
<1>1. CallInv => ViewersHaveSessions
  BY WatchersHaveSessions
<1>2. ConnectedHostsHaveSessions /\ ViewersHaveSessions => PeersHaveSessions
  BY DEF PeersHaveSessions
<1> QED BY <1>1, <1>2, ScreensHaveSessions, CallInvariant, PTL

==============================================================================

-------------------------------- MODULE Pages --------------------------------
(***************************************************************************)
(* The pages (ui/src/useRoom.ts) and their conversation with the loop of   *)
(* Rooms.tla: a page and the server write to each other in order and       *)
(* without loss while the websocket lives, and a page handles one message  *)
(* at a time, but what it awaits goes on in between.                       *)
(*                                                                         *)
(* What the handlers of the loop write is read off what they change in     *)
(* told; messages of one handler that cancel out are left out.  Of a Room  *)
(* message the pages need here only that it came.  ICE candidates follow   *)
(* the offer or answer of their peer on the same way and are left out.     *)
(***************************************************************************)
EXTENDS Rooms, Sequences, SequencesExt


CONSTANT MaxShares  \* bounds how often somebody starts to share, or stops without a share

ASSUME MaxSharesAssumption == MaxShares \in Nat

VARIABLES
    shares,    \* how often somebody has: a bound, not part of the program
    page,      \* the refs and closures of useRoom, see IsPage
    toServer,  \* what the page has written and the loop has yet to take
    toPage     \* what the loop has written and the page has yet to take

pageVars == <<shares, page, toServer, toPage>>
allVars == <<vars, pageVars>>

Phase == {"away", "opening", "in", "shut"}
HostPeer == {"offered", "connected", "closed"}
ClientPeer == {"new", "answered", "closed"}

IsPage(g) ==
    /\ g = [phase |-> g.phase, stream |-> g.stream,
            hosts |-> g.hosts, clients |-> g.clients,
            offering |-> g.offering, answering |-> g.answering]
    /\ g.phase \in Phase           \* the websocket, and whether a message has come
    /\ g.stream \in BOOLEAN        \* stream.current is set
    /\ IsMap(g.hosts, Session, HostPeer)      \* host.current
    /\ IsMap(g.clients, Session, ClientPeer)  \* client.current
    /\ g.offering \subseteq Session   \* hostSession is at one of its awaits
    /\ g.answering \subseteq Session  \* the handler of hostoffer is at one of its

Away == [phase |-> "away", stream |-> FALSE, hosts |-> Empty, clients |-> Empty,
         offering |-> {}, answering |-> {}]

PagesInit ==
    /\ Init
    /\ shares = 0
    /\ page = [p \in Client |-> Away]
    /\ toServer = [p \in Client |-> <<>>]
    /\ toPage = [p \in Client |-> <<>>]

Msg(type) == [type |-> type]
About(type, s) == [type |-> type, sid |-> s]

Open == UNION {rooms[r].sessions : r \in DOMAIN rooms}

-----------------------------------------------------------------------------
\* What the loop writes

\* The messages about sessions c is an end of: HostSession to the host,
\* ClientSession to the client.
Announced(c, new) ==
    SetToSeq({About(IF s.host = c THEN "hostsession" ELSE "clientsession", s) : s \in new})

Ended(old) == SetToSeq({About("endshare", s) : s \in old})

\* What the handler of a message of p writes to c.  Those who are thrown out of a
\* closing room hear of the sessions with p only; p hears of none that ends.
News(p, c) ==
    LET old == told[c].open \ told'[c].open
        ends == IF c = p THEN <<>> ELSE Ended(SessionsOf(old, p))
        room == IF told'[c].info = told[c].info THEN <<>> ELSE <<Msg("room")>>
    IN  IF told'[c].closes > told[c].closes
        THEN ends \o <<Msg("closewriter")>>
        ELSE ends \o Announced(c, told'[c].open \ told[c].open) \o room

\* Mutant: a newcomer hears of the sessions first.
NewsOnEnteringSessionsFirst(p, c) == News(p, c)

\* Join notifies before it opens the sessions, StartShare after.
NewsOnEntering(p, c) ==
    IF told'[c].closes > told[c].closes THEN News(p, c)
    ELSE LET room == IF told'[c].info = told[c].info THEN <<>> ELSE <<Msg("room")>>
         IN  room \o Announced(c, told'[c].open \ told[c].open)

Delivered(c, news) == IF page[c].phase = "shut" THEN <<>> ELSE toPage[c] \o news

Writes(p) == toPage' = [c \in Client |-> Delivered(c, News(p, c))]
WritesOnEntering(p) == toPage' = [c \in Client |-> Delivered(c, NewsOnEntering(p, c))]

\* An xid is never used again, so a new session is one nobody has heard of;
\* serials are used up in order.
Mentioned ==
    LET sids(q) == {q[i].sid : i \in {j \in DOMAIN q : "sid" \in DOMAIN q[j]}}
    IN  Open \cup UNION {DOMAIN page[p].hosts \cup DOMAIN page[p].clients
                            \cup page[p].offering \cup page[p].answering
                            \cup sids(toServer[p]) \cup sids(toPage[p]) : p \in Client}

NewXids ==
    LET new == Open' \ Open
        unheard(n) == \A s \in new : [s EXCEPT !.serial = n] \notin Mentioned
    IN  \A s \in new : unheard(s.serial) /\ \A n \in Serial : n < s.serial => ~unheard(n)

-----------------------------------------------------------------------------
\* The loop takes a message of p

\* A relay: from the session's end on side to the other one.
Relay(p, m, side, other) ==
    \/ NotInRoom(p) /\ Writes(p)
    \/ /\ InRoom(p)
       /\ m.sid \notin rooms[connected[p]].sessions
       /\ UNCHANGED <<vars, toPage>>
    \/ /\ InRoom(p)
       /\ m.sid \in rooms[connected[p]].sessions
       /\ IF m.sid[side] = p
          THEN /\ UNCHANGED vars
               /\ toPage' = [toPage EXCEPT ![m.sid[other]] = Delivered(m.sid[other], <<m>>)]
          ELSE Refused(p) /\ Writes(p)

Executes(p, m) ==
    \/ m.type = "enter" /\ (Create(p) \/ Join(p)) /\ WritesOnEntering(p)
    \/ m.type = "share" /\ StartShare(p) /\ Writes(p)
    \/ m.type = "stopshare" /\ StopShare(p) /\ Writes(p)
    \/ m.type = "disconnected" /\ Disconnected(p) /\ Writes(p)
    \/ m.type = "hostoffer" /\ Relay(p, m, "host", "client")
    \/ m.type = "clientanswer" /\ Relay(p, m, "client", "host")

Serve(p) ==
    /\ toServer[p] # <<>>
    /\ toServer' = [toServer EXCEPT ![p] = Tail(@)]
    /\ IF p \in DOMAIN connected
       THEN Executes(p, Head(toServer[p])) /\ NewXids
       ELSE UNCHANGED <<vars, toPage>>
    /\ UNCHANGED <<shares, page>>

-----------------------------------------------------------------------------
\* The page's websocket

\* send: only while the websocket is open.
Sent(p, m) == IF page[p].phase \in {"opening", "in"} THEN Append(toServer[p], m) ELSE toServer[p]

Sends(p, m) == toServer' = [toServer EXCEPT ![p] = Sent(p, m)]

\* room(): a websocket is opened and its first message asks for a room.
Enter(p) ==
    /\ page[p].phase = "away"
    /\ page' = [page EXCEPT ![p].phase = "opening"]
    /\ Connect(p)
    /\ toServer' = [toServer EXCEPT ![p] = <<Msg("enter")>>]
    /\ UNCHANGED <<shares, toPage>>

\* The websocket of p is gone: of what p has written some may be lost, of what was
\* written to it all, and the server's reader reports the end.
Hangs(p) ==
    /\ \E n \in 0..Len(toServer[p]) :
        toServer' = [toServer EXCEPT ![p] = Append(SubSeq(@, 1, n), Msg("disconnected"))]
    /\ toPage' = [toPage EXCEPT ![p] = <<>>]

\* onclose and onerror: peers and stream stay.
Lose(p) ==
    /\ page[p].phase \in {"opening", "in"}
    /\ page' = [page EXCEPT ![p].phase = "shut"]
    /\ Hangs(p)
    /\ UNCHANGED <<vars, shares>>

\* The tab is closed.
Quit(p) ==
    /\ page[p].phase \in {"opening", "in"}
    /\ page' = [page EXCEPT ![p] = [Away EXCEPT !.phase = "shut"]]
    /\ Hangs(p)
    /\ UNCHANGED <<vars, shares>>

-----------------------------------------------------------------------------
\* onmessage

Hears(p, type) ==
    /\ toPage[p] # <<>>
    /\ Head(toPage[p]).type = type
    /\ toPage' = [toPage EXCEPT ![p] = Tail(@)]

\* Also as the first message.  A page gives up when that is another one, which
\* RoomComesFirst shows to be impossible while messages arrive.
OnRoom(p) ==
    /\ Hears(p, "room")
    /\ page' = [page EXCEPT ![p].phase = "in"]
    /\ UNCHANGED <<vars, shares, toServer>>

OnClose(p) ==
    /\ Hears(p, "closewriter")
    /\ page' = [page EXCEPT ![p].phase = "shut"]
    /\ UNCHANGED <<vars, shares, toServer>>

OnHostSession(p) ==
    /\ page[p].phase = "in"
    /\ Hears(p, "hostsession")
    /\ page' = IF page[p].stream
               THEN [page EXCEPT ![p].offering = @ \cup {Head(toPage[p]).sid}]
               ELSE page
    /\ UNCHANGED <<vars, shares, toServer>>

\* hostSession returns: it has sent its offer, and its peer is put in host.current,
\* whatever has happened since it was called.
Offer(p) ==
    \E s \in page[p].offering :
        /\ page' = [page EXCEPT ![p].offering = @ \ {s},
                                ![p].hosts = Put(@, s, "offered")]
        /\ Sends(p, About("hostoffer", s))
        /\ UNCHANGED <<vars, shares, toPage>>

\* Mutant: a page that does not share does not watch either.
OnClientSessionIfStreaming(p) ==
    /\ page[p].phase = "in"
    /\ Hears(p, "clientsession")
    /\ page' = IF page[p].stream
               THEN [page EXCEPT ![p].clients = Put(@, Head(toPage[p]).sid, "new")]
               ELSE page
    /\ UNCHANGED <<vars, shares, toServer>>

\* clientSession awaits nothing: its peer is in client.current before the next message.
OnClientSession(p) ==
    /\ page[p].phase = "in"
    /\ Hears(p, "clientsession")
    /\ page' = [page EXCEPT ![p].clients = Put(@, Head(toPage[p]).sid, "new")]
    /\ UNCHANGED <<vars, shares, toServer>>

Live(peers, s) == s \in DOMAIN peers /\ peers[s] # "closed"

\* An offer without a peer would be answered with nothing; OfferFindsItsPeer shows that
\* there is none.
OnHostOffer(p) ==
    /\ page[p].phase = "in"
    /\ Hears(p, "hostoffer")
    /\ LET s == Head(toPage[p]).sid
       IN  page' = IF Live(page[p].clients, s)
                   THEN [page EXCEPT ![p].answering = @ \cup {s}] ELSE page
    /\ UNCHANGED <<vars, shares, toServer>>

\* The handler of hostoffer ends: its calls on a peer closed meanwhile fail.
Answer(p) ==
    \E s \in page[p].answering :
        /\ page' = [page EXCEPT
                ![p].answering = @ \ {s},
                ![p].clients = IF Live(@, s) THEN Put(@, s, "answered") ELSE @]
        /\ IF Live(page[p].clients, s)
           THEN Sends(p, About("clientanswer", s))
           ELSE UNCHANGED toServer
        /\ UNCHANGED <<vars, shares, toPage>>

OnClientAnswer(p) ==
    /\ page[p].phase = "in"
    /\ Hears(p, "clientanswer")
    /\ LET s == Head(toPage[p]).sid
       IN  page' = IF Live(page[p].hosts, s)
                   THEN [page EXCEPT ![p].hosts[s] = "connected"] ELSE page
    /\ UNCHANGED <<vars, shares, toServer>>

Closed(peers, s) == IF s \in DOMAIN peers THEN Put(peers, s, "closed") ELSE peers

\* Mutants: only what the page shows ends; only what it watches.
OnEndShareAsHost(p) ==
    /\ page[p].phase = "in"
    /\ Hears(p, "endshare")
    /\ page' = [page EXCEPT ![p].hosts = Closed(@, Head(toPage[p]).sid)]
    /\ UNCHANGED <<vars, shares, toServer>>

OnEndShareAsViewer(p) ==
    /\ page[p].phase = "in"
    /\ Hears(p, "endshare")
    /\ page' = [page EXCEPT ![p].clients = Closed(@, Head(toPage[p]).sid)]
    /\ UNCHANGED <<vars, shares, toServer>>

OnEndShare(p) ==
    /\ page[p].phase = "in"
    /\ Hears(p, "endshare")
    /\ page' = [page EXCEPT ![p].clients = Closed(@, Head(toPage[p]).sid),
                            ![p].hosts = Closed(@, Head(toPage[p]).sid)]
    /\ UNCHANGED <<vars, shares, toServer>>

Receive(p) ==
    \/ OnRoom(p) \/ OnClose(p)
    \/ OnHostSession(p) \/ OnClientSession(p)
    \/ OnHostOffer(p) \/ OnClientAnswer(p) \/ OnEndShare(p)

-----------------------------------------------------------------------------
\* Sharing

\* share(), once the user has picked a screen; also a second time.
Share(p) ==
    /\ page[p].phase = "in"
    /\ shares < MaxShares
    /\ shares' = shares + 1
    /\ page' = [page EXCEPT ![p].stream = TRUE]
    /\ Sends(p, Msg("share"))
    /\ UNCHANGED <<vars, toPage>>

\* Mutant: the peers stay.
StopOnly(g) == [g EXCEPT !.stream = FALSE]

\* stopShare closes and forgets the peers there are.
Stop(g) == [g EXCEPT !.stream = FALSE, !.hosts = Empty]

\* By its button, or because the capture ended; also when the share has ended already.
StopIsPressed(p) ==
    \/ page[p].stream /\ UNCHANGED shares
    \/ ~page[p].stream /\ shares < MaxShares /\ shares' = shares + 1

\* Mutant: a host without viewers yet tells nobody.
EndsShareOfViewers(p) ==
    /\ page[p].phase = "in"
    /\ StopIsPressed(p)
    /\ page' = [page EXCEPT ![p] = Stop(@)]
    /\ IF page[p].hosts = Empty THEN UNCHANGED toServer ELSE Sends(p, Msg("stopshare"))
    /\ UNCHANGED <<vars, toPage>>

EndsShare(p) ==
    /\ page[p].phase = "in"
    /\ StopIsPressed(p)
    /\ page' = [page EXCEPT ![p] = Stop(@)]
    /\ Sends(p, Msg("stopshare"))
    /\ UNCHANGED <<vars, toPage>>

\* leaveRoom
LeaveRoom(p) ==
    /\ page[p].phase = "in"
    /\ page' = [page EXCEPT ![p] = [Stop(@) EXCEPT !.phase = "shut"]]
    /\ toServer' = [toServer EXCEPT ![p] = @ \o <<Msg("stopshare"), Msg("disconnected")>>]
    /\ toPage' = [toPage EXCEPT ![p] = <<>>]
    /\ UNCHANGED <<vars, shares>>

-----------------------------------------------------------------------------
\* The media connections

\* The two ends of s have found each other.
Linked(s) ==
    /\ s \in DOMAIN page[s.host].hosts /\ page[s.host].hosts[s] = "connected"
    /\ s \in DOMAIN page[s.client].clients /\ page[s.client].clients[s] = "answered"

\* onconnectionstatechange: the peer is closed and forgotten.  It fires when the other end
\* has gone, or the network between them, as soon as a peer has both descriptions: for the
\* viewer's that is before the host has its answer.
HostFails(p) ==
    \E s \in DOMAIN page[p].hosts :
        /\ page[p].hosts[s] = "connected"
        /\ page' = [page EXCEPT ![p].hosts = Without(@, {s})]
        /\ UNCHANGED <<vars, shares, toServer, toPage>>

LosesPeer(p, s) ==
    /\ s \in DOMAIN page[p].clients
    /\ page[p].clients[s] = "answered"
    /\ page' = [page EXCEPT ![p].clients = Without(@, {s})]
    /\ UNCHANGED <<vars, shares, toServer, toPage>>

ClientFails(p) == \E s \in DOMAIN page[p].clients : LosesPeer(p, s)

-----------------------------------------------------------------------------

PageNext(p) ==
    \/ Enter(p) \/ Lose(p) \/ Quit(p) \/ LeaveRoom(p)
    \/ Receive(p) \/ Offer(p) \/ Answer(p)
    \/ Share(p) \/ EndsShare(p)
    \/ HostFails(p) \/ ClientFails(p)

PagesNext == \E p \in Client : Serve(p) \/ PageNext(p)

PagesSpec == PagesInit /\ [][PagesNext]_allVars

\* The sessions c can be the client of.
Watchable(c) == {s \in Session : s.client = c /\ s.host # c}

\* The loop and the scripts run, and a peer whose other end has gone finds out.  Users
\* need not do anything and the network may fail, at any time, or not.
PagesFairness ==
    \A p \in Client :
        /\ WF_allVars(Serve(p))
        /\ WF_allVars(Receive(p))
        /\ WF_allVars(Offer(p))
        /\ WF_allVars(Answer(p))
        /\ \A s \in Watchable(p) : WF_allVars(LosesPeer(p, s) /\ ~Live(page[s.host].hosts, s))

FairPagesSpec == PagesSpec /\ PagesFairness

-----------------------------------------------------------------------------
\* Properties

MsgType == {"enter", "share", "stopshare", "disconnected", "hostoffer", "clientanswer",
            "room", "hostsession", "clientsession", "endshare", "closewriter"}

PagesTypeOK ==
    /\ shares \in 0..MaxShares
    /\ \A p \in Client : IsPage(page[p])
    /\ \A p \in Client : \A q \in {toServer[p], toPage[p]} : \A i \in DOMAIN q :
        q[i] \in [type : MsgType] \cup [type : MsgType, sid : Session]

\* What p has yet to be told ends s for it.
Ending(p, s) ==
    \E i \in DOMAIN toPage[p] :
        toPage[p][i] \in {Msg("closewriter"), About("endshare", s)}

\* The first message a page gets is a Room message, unless it is refused: a page
\* that gets another one gives up, whoever started or stopped to share while it
\* was coming in (Join notifies first, useRoom.ts decides by its flag first).
RoomComesFirst ==
    \A p \in Client : page[p].phase = "opening" /\ toPage[p] # <<>> =>
        Head(toPage[p]).type \in {"room", "closewriter"}

\* An offer finds the peer that is to answer it: neither is it ahead of its
\* ClientSession nor behind its EndShare, although host and loop write at their own
\* pace.  A page drops an offer without a peer silently and the stream never shows.
OfferFindsItsPeer ==
    \A p \in Client :
        page[p].phase = "in" /\ toPage[p] # <<>> /\ Head(toPage[p]).type = "hostoffer" =>
            Head(toPage[p]).sid \in DOMAIN page[p].clients
                /\ page[p].clients[Head(toPage[p]).sid] = "new"

\* A screen is sent only over sessions the server has open, or has told the host the
\* end of: no peer survives a viewer's leaving, whatever was under way.
ConnectedHostsHaveSessions ==
    \A p \in Client : page[p].phase = "in" =>
        \A s \in DOMAIN page[p].hosts :
            page[p].hosts[s] = "connected" => s \in Open \/ Ending(p, s)

\* After stopShare nothing is sent any more, and no peer that was being made then, or
\* is made of a HostSession that comes late, gets as far as sending.
StoppedMeansStopped ==
    \A p \in Client : ~page[p].stream =>
        \A s \in DOMAIN page[p].hosts : page[p].hosts[s] # "connected"

Holds(q, m) == \E i \in DOMAIN q : q[i] = m

\* The offer of s, until it is answered, and the answer, until the host takes it.
OfferUnderWay(s) ==
    \/ Holds(toServer[s.host], About("hostoffer", s))
    \/ Holds(toPage[s.client], About("hostoffer", s))
    \/ s \in page[s.client].answering

AnswerUnderWay(s) ==
    \/ Holds(toServer[s.client], About("clientanswer", s))
    \/ Holds(toPage[s.host], About("clientanswer", s))

\* No handshake stalls.  While a session is open and both pages are there, a viewer that
\* has no offer has one to come, or a host that makes it or is yet to be asked to, unless
\* the host has stopped and the loop is yet to hear of it; and a host without an answer
\* has one to come or its offer still to be answered.  Each handler of useRoom.ts and each
\* relay drops silently what finds no session, stream or peer.
HandshakesGoOn ==
    \A s \in Open : page[s.host].phase = "in" /\ page[s.client].phase = "in" =>
        /\ s \in DOMAIN page[s.client].clients /\ page[s.client].clients[s] = "new"
                /\ ~Holds(toServer[s.host], Msg("stopshare")) =>
            \/ Holds(toPage[s.host], About("hostsession", s))
            \/ s \in page[s.host].offering
            \/ OfferUnderWay(s)
        /\ s \in DOMAIN page[s.host].hosts /\ page[s.host].hosts[s] = "offered" =>
            OfferUnderWay(s) \/ AnswerUnderWay(s)

\* A viewer's peer lives only as long as its session, or until the page gets to the end
\* of it that is on the way: whoever ends it and however far the handshake is, no peer
\* is forgotten and none comes to be after the end.
ViewersHaveSessions ==
    \A p \in Client : page[p].phase = "in" =>
        \A s \in DOMAIN page[p].clients :
            page[p].clients[s] # "closed" => s \in Open \/ Ending(p, s)

\* No peer at either end outlives its session but for the end that is on its way.
PeersHaveSessions == ConnectedHostsHaveSessions /\ ViewersHaveSessions

CutShort(s) ==
    \/ s \notin Open
    \/ page[s.host].phase = "shut" \/ page[s.client].phase = "shut"

\* Every session announced to its viewer gets a peer there, and this peer is connected to
\* the host's, unless the session ends, a page goes or the viewer's peer fails first: no
\* order of announcements, offers and answers strands it half way.  After a failure nobody
\* makes another peer, however long the session stays open.
SessionsConnect ==
    \A p \in Client : \A s \in Watchable(p) :
        /\ Holds(toPage[p], About("clientsession", s)) ~>
               s \in DOMAIN page[p].clients \/ CutShort(s)
        /\ s \in DOMAIN page[p].clients ~>
               Linked(s) \/ s \notin DOMAIN page[p].clients \/ CutShort(s)

\* A viewer whose session is over loses the peer, though the host's stopping, the
\* loop's closing and the viewer's answering go on side by side.
ViewersGoDark ==
    \A p \in Client : \A s \in Watchable(p) :
        (s \notin Open /\ Live(page[p].clients, s)) ~>
            (~Live(page[p].clients, s) \/ page[p].phase = "shut")
=============================================================================

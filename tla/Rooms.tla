-------------------------------- MODULE Rooms --------------------------------
(***************************************************************************)
(* The server's main loop (ws/rooms.go) and every event it executes.  The  *)
(* loop is one goroutine that takes one message at a time off Incoming and *)
(* runs it to its end, so a message is one action.                         *)
(*                                                                         *)
(* A handler is an operator from the loop's state to the loop's state: the *)
(* error path of an event is Dropped applied to whatever the event had     *)
(* already done, as in Rooms.Start, and a create that finds its room is    *)
(* the join it calls.                                                      *)
(***************************************************************************)
EXTENDS Room

CONSTANTS
    RoomId,         \* room ids of at least minRoomIDLength bytes
    ShortId,        \* a room id that is too short
    NoRoom,         \* the empty room id: connected, but in no room
    AuthMode,       \* SCREEGO_AUTH_MODE
    Authenticated   \* the connections whose user has logged in

ASSUME RoomIdAssumption == ShortId \notin RoomId /\ NoRoom \notin RoomId
ASSUME AuthModeAssumption == AuthMode \in {"none", "turn", "all"}
ASSUME AuthenticatedAssumption == Authenticated \subseteq Client

VARIABLES
    rooms,      \* Rooms.Rooms
    connected,  \* Rooms.connected
    lookup,     \* InternalServer.lookup: the credentials the TURN server accepts
    told,       \* what each connection has been written, see IsTold
    metrics     \* the prometheus counters: created - closed, joined - left

vars == <<rooms, connected, lookup, told, metrics>>

\* What the messages written to a connection add up to: the users of the last
\* Room message, the sessions announced by HostSession and ClientSession and not
\* ended since, and the number of CloseWriter messages.  Whether the connection
\* takes a message in time is the subject of Connection.tla.
IsTold(t) ==
    /\ t = [info |-> t.info, open |-> t.open, closes |-> t.closes]
    /\ IsMap(t.info, Client, User)
    /\ t.open \subseteq Session
    /\ t.closes \in Nat

Fresh == [info |-> Empty, open |-> {}, closes |-> 0]

\* A connection the loop is done with.  Its id is then in no map of the server,
\* like an id never handed out, and a later connection may take it.
Gone == [info |-> Empty, open |-> {}, closes |-> 1]

\* The loop's state as a value.
Now == [rooms |-> rooms, connected |-> connected, lookup |-> lookup,
        told |-> told, metrics |-> metrics]

Become(s) ==
    /\ rooms' = s.rooms
    /\ connected' = s.connected
    /\ lookup' = s.lookup
    /\ told' = s.told
    /\ metrics' = s.metrics

Init ==
    /\ rooms = Empty
    /\ connected = Empty
    /\ lookup = {}
    /\ told = [c \in Client |-> Gone]
    /\ metrics = [users |-> 0, rooms |-> 0, sessions |-> 0]

-----------------------------------------------------------------------------
\* Sessions and messages

\* Room.newSession, for each of the sessions.
OpenSessions(s, r, new) ==
    [s EXCEPT
        !.rooms[r].sessions = @ \cup new,
        !.lookup = IF s.rooms[r].mode = "turn" THEN @ \cup Credentials(new) ELSE @,
        !.told = [c \in Client |-> [s.told[c] EXCEPT !.open = @ \cup SessionsOf(new, c)]],
        !.metrics.sessions = @ + Cardinality(new)]

\* Mutant: a peer's sessions count as one.
CloseSessionsCountingPairs(s, r, old) ==
    [s EXCEPT
        !.rooms[r].sessions = @ \ old,
        !.lookup = @ \ Credentials(old),
        !.metrics.sessions = @ - Cardinality({<<x.host, x.client>> : x \in old})]

\* Room.closeSession, for each of the sessions.
CloseSessions(s, r, old) ==
    [s EXCEPT
        !.rooms[r].sessions = @ \ old,
        !.lookup = IF s.rooms[r].mode = "turn" THEN @ \ Credentials(old) ELSE @,
        !.metrics.sessions = @ - Cardinality(old)]

\* Mutant: one EndShare for each peer, however many sessions it had.
EndShareOnce(s, C, old) ==
    [s EXCEPT !.told = [c \in Client |->
        IF c \in C
        THEN [s.told[c] EXCEPT !.open = @ \ {x \in old : \A y \in old : x.serial <= y.serial}]
        ELSE s.told[c]]]

\* An EndShare message for each of the sessions to those of its ends in C.
EndShare(s, C, old) ==
    [s EXCEPT !.told = [c \in Client |->
        IF c \in C THEN [s.told[c] EXCEPT !.open = @ \ old] ELSE s.told[c]]]

\* Room.notifyInfoChanged: every member gets the list of members.
NotifyInfoChanged(s, r) ==
    [s EXCEPT !.told = [c \in Client |->
        IF c \in DOMAIN s.rooms[r].users
        THEN [s.told[c] EXCEPT !.info = s.rooms[r].users] ELSE s.told[c]]]

\* delete(rooms.connected, c) and a CloseWriter message, for every c in C.  The
\* page tears down its peers when the connection closes.
Disconnect(s, C) ==
    [s EXCEPT
        !.connected = Without(@, C),
        !.told = [c \in Client |->
            IF c \in C THEN [Gone EXCEPT !.closes = @ + s.told[c].closes] ELSE s.told[c]]]

-----------------------------------------------------------------------------
\* Leaving

\* Mutant: the room is deleted with its sessions open.
CloseRoomOnly(s, r) ==
    [s EXCEPT
        !.rooms = Without(@, {r}),
        !.metrics.users = @ - Cardinality(DOMAIN s.rooms[r].users),
        !.metrics.rooms = @ - 1]

\* Rooms.closeRoom
CloseRoom(s, r) ==
    LET closed == CloseSessions(s, r, s.rooms[r].sessions)
    IN  [closed EXCEPT
            !.rooms = Without(@, {r}),
            !.metrics.users = @ - Cardinality(DOMAIN s.rooms[r].users),
            !.metrics.rooms = @ - 1]

\* delete(room.Users, c)
UserRemoved(s, r, c) ==
    [s EXCEPT !.rooms[r].users = Without(@, {c}), !.metrics.users = @ - 1]

\* Mutant: only the sessions c watched are closed.
RemoveUserAsViewer(s, r, c) ==
    LET old  == SessionsOf(s.rooms[r].sessions, c) \ HostedBy(s.rooms[r].sessions, c)
        left == UserRemoved(s, r, c)
    IN  CloseSessions(EndShare(left, DOMAIN left.rooms[r].users, old), r, old)

\* c is no longer in room r: its sessions end for their other ends.
RemoveUser(s, r, c) ==
    LET old  == SessionsOf(s.rooms[r].sessions, c)
        left == UserRemoved(s, r, c)
    IN  CloseSessions(EndShare(left, DOMAIN left.rooms[r].users, old), r, old)

\* Mutant: one of the owner's tabs closing is enough.
OwnerGoneWithTabsOpen(room, user) == user.owner /\ room.closeOnOwnerLeave

\* The room closes when the owner's last connection leaves a room that is to
\* close then.
OwnerGone(room, user) ==
    user.owner /\ room.closeOnOwnerLeave /\ ~HasVisitor(room.users, user.visitor)

\* Mutants: members of a closing room stay connected; the leaving one, still
\* among them, is told to close again.
LeaveKeepingMembers(s, r, c) ==
    LET left == RemoveUser(s, r, c)
        room == left.rooms[r]
    IN  IF OwnerGone(room, s.rooms[r].users[c]) \/ DOMAIN room.users = {}
        THEN CloseRoom(left, r)
        ELSE NotifyInfoChanged(left, r)

LeaveClosingTwice(s, r, c) ==
    LET left == RemoveUser(s, r, c)
        room == left.rooms[r]
    IN  IF OwnerGone(room, s.rooms[r].users[c])
        THEN CloseRoom(Disconnect(left, DOMAIN s.rooms[r].users), r)
        ELSE IF DOMAIN room.users = {}
        THEN CloseRoom(left, r)
        ELSE NotifyInfoChanged(left, r)

Leave(s, r, c) ==
    LET left == RemoveUser(s, r, c)
        room == left.rooms[r]
    IN  IF OwnerGone(room, s.rooms[r].users[c])
        THEN CloseRoom(Disconnect(left, DOMAIN room.users), r)
        ELSE IF DOMAIN room.users = {}
        THEN CloseRoom(left, r)
        ELSE NotifyInfoChanged(left, r)

\* Disconnected.executeNoError
Dropped(s, c) ==
    LET r   == s.connected[c]
        out == Disconnect(s, {c})
    IN  IF r \in DOMAIN s.rooms /\ c \in DOMAIN s.rooms[r].users
        THEN Leave(out, r, c)
        ELSE out

-----------------------------------------------------------------------------
\* Entering

RoomAdded(s, c, r, room) ==
    [s EXCEPT
        !.rooms = Put(@, r, room),
        !.connected[c] = r,
        !.metrics.users = @ + 1,
        !.metrics.rooms = @ + 1]

UserAdded(s, c, r, user) ==
    [s EXCEPT
        !.rooms[r].users = Put(@, c, user),
        !.connected[c] = r,
        !.metrics.users = @ + 1]

\* The room Create.Execute makes.
Created(s, c, r, mode, closeOnOwnerLeave, v) ==
    LET user == NewUser(NormalizeVisitorID(v, c), 1, TRUE)
        room == NewRoom(mode, closeOnOwnerLeave, Put(Empty, c, user))
    IN  NotifyInfoChanged(RoomAdded(s, c, r, room), r)

\* Join.Execute up to the lookup of the TURN server's address.
Joined(s, c, r, v, name) ==
    LET visitor == NormalizeVisitorID(v, c)
        user == NewUser(visitor, name, VisitorOwner(s.rooms[r].users, visitor))
    IN  NotifyInfoChanged(UserAdded(s, c, r, user), r)

\* Mutants: the loop ends at the first who streams; everyone counts as streaming.
ShownToByOne(s, c, r, n) ==
    LET hosts == Streamers(s.rooms[r].users) \ {c}
    IN  IF hosts = {} THEN s
        ELSE OpenSessions(s, r, SessionsBetween({CHOOSE h \in hosts : TRUE}, {c}, n))

ShownToByAll(s, c, r, n) ==
    OpenSessions(s, r, SessionsBetween(DOMAIN s.rooms[r].users \ {c}, {c}, n))

\* The rest of Join.Execute: everyone who streams shows it to the newcomer.
ShownTo(s, c, r, n) ==
    OpenSessions(s, r, SessionsBetween(Streamers(s.rooms[r].users) \ {c}, {c}, n))

-----------------------------------------------------------------------------
\* Sharing

Streaming(s, c, r, on) == [s EXCEPT !.rooms[r].users[c].streaming = on]

\* The sessions of StartShare.Execute: c shows its screen to everyone else.
Shown(s, c, r, n) ==
    OpenSessions(s, r, SessionsBetween({c}, DOMAIN s.rooms[r].users \ {c}, n))

\* StopShare.Execute.  The page that sends it has closed its own peers.
Stopped(s, c, r) ==
    LET old == HostedBy(s.rooms[r].sessions, c)
        off == EndShare(Streaming(s, c, r, FALSE), DOMAIN s.rooms[r].users, old)
    IN  NotifyInfoChanged(CloseSessions(off, r, old), r)

-----------------------------------------------------------------------------
\* Messages from connections

InRoom(c) == connected[c] \in DOMAIN rooms

\* An event returned an error: Rooms.Start disconnects its sender.
Refused(c) == Become(Dropped(Now, c))

\* Rooms.CurrentRoom finds no room.
NotInRoom(c) == ~InRoom(c) /\ Refused(c)

\* A session record names an xid, so one that is open cannot be opened again.
\* Serial bounds how often a host may share anew to the same member.
FreshXids(r, new) == rooms[r].sessions \cap new = {}

Connect(c) ==
    /\ c \notin DOMAIN connected
    /\ connected' = Put(connected, c, NoRoom)
    /\ told' = [told EXCEPT ![c] = Fresh]
    /\ UNCHANGED <<rooms, lookup, metrics>>

\* The connection was lost or closed by the page.
Disconnected(c) == Become(Dropped(Now, c))

\* Join.Execute once the room is known to exist.
JoinRoom(c, r) ==
    \E v \in Visitor \cup {Blank} :
    \E name \in NextGuestNames(rooms[r].users, NormalizeVisitorID(v, c)) :
        LET joined == Joined(Now, c, r, v, name)
        IN  \/ \E n \in Serial : Become(ShownTo(joined, c, r, n))
            \/ Become(Dropped(joined, c))  \* no TURN address

Join(c) ==
    \E id \in RoomId \cup {ShortId} :
        IF connected[c] = NoRoom /\ id \in DOMAIN rooms
        THEN JoinRoom(c, id)
        ELSE Refused(c)

\* The login a new room asks for.
MayCreate(c, mode) ==
    \/ AuthMode = "none"
    \/ AuthMode = "turn" /\ mode \in {"stun", "local"}
    \/ c \in Authenticated

CreateRoom(c, r) ==
    \E mode \in Mode, closeOnOwnerLeave \in BOOLEAN, v \in Visitor \cup {Blank} :
        IF MayCreate(c, mode)
        THEN Become(Created(Now, c, r, mode, closeOnOwnerLeave, v))
        ELSE Refused(c)

Create(c) ==
    \E id \in RoomId \cup {ShortId}, joinIfExist \in BOOLEAN :
        IF connected[c] # NoRoom \/ id = ShortId
        THEN Refused(c)
        ELSE IF id \notin DOMAIN rooms
        THEN CreateRoom(c, id)
        ELSE IF joinIfExist
        THEN JoinRoom(c, id)
        ELSE Refused(c)

StartShare(c) ==
    \/ NotInRoom(c)
    \/ /\ InRoom(c)
       /\ LET r  == connected[c]
              on == Streaming(Now, c, r, TRUE)
          IN  \/ \E n \in Serial :
                    /\ FreshXids(r, SessionsBetween({c}, Client, n))
                    /\ Become(NotifyInfoChanged(Shown(on, c, r, n), r))
              \/ Become(Dropped(on, c))  \* no TURN address

StopShare(c) ==
    \/ NotInRoom(c)
    \/ InRoom(c) /\ Become(Stopped(Now, c, connected[c]))

\* Mutant: the page gets the name it asks for.
NameAsAsked(c) ==
    \/ NotInRoom(c)
    \/ /\ InRoom(c)
       /\ \E n \in 1..Cardinality(Client) :
            Become([Now EXCEPT !.rooms[connected[c]].users[c].name = n])

\* A page may ask for another name: the server keeps the one it gave.
Name(c) ==
    \/ NotInRoom(c)
    \/ InRoom(c) /\ Become(NotifyInfoChanged(Now, connected[c]))

\* An offer, answer or candidate for a session: dropped when the session is not
\* of the sender's room, an error when the sender is not the end that sends it,
\* and else handed to the other end, which leaves the loop's state alone.
Relayed(c, side) ==
    \/ NotInRoom(c)
    \/ /\ InRoom(c)
       /\ \E s \in rooms[connected[c]].sessions :
            IF s[side] = c THEN UNCHANGED vars ELSE Refused(c)

HostOffer(c) == Relayed(c, "host")
HostICE(c) == Relayed(c, "host")
ClientAnswer(c) == Relayed(c, "client")
ClientICE(c) == Relayed(c, "client")

\* Rooms.Start ignores the messages of connections it does not know.
Message(c) ==
    /\ c \in DOMAIN connected
    /\ \/ Disconnected(c)
       \/ Create(c) \/ Join(c) \/ Name(c)
       \/ StartShare(c) \/ StopShare(c)
       \/ HostOffer(c) \/ HostICE(c) \/ ClientAnswer(c) \/ ClientICE(c)

Next == \E c \in Client : Connect(c) \/ Message(c)

Spec == Init /\ [][Next]_vars

-----------------------------------------------------------------------------
\* Properties

MetricsType == [users: Int, rooms: Int, sessions: Int]

\* The state is built from the values the code's types allow, and every room is a
\* well-formed Room (rooms.go, room.go).
TypeOK ==
    /\ DOMAIN rooms \subseteq RoomId
    /\ \A r \in DOMAIN rooms : IsRoom(rooms[r])
    /\ rooms = [r \in DOMAIN rooms |-> rooms[r]]
    /\ IsMap(connected, Client, RoomId \cup {NoRoom})
    /\ lookup \subseteq Credential
    /\ told = [c \in Client |-> told[c]]
    /\ \A c \in Client : IsTold(told[c])
    /\ metrics \in MetricsType

\* Rooms.connected and the users of the rooms say the same: a connection is in the
\* room it is connected to and in no other.  Every handler reads one and writes
\* both (event_create.go, event_join.go, event_disconnected.go), and an entry in
\* only one of them makes Room.Users[current.ID] nil or keeps a room open for ever.
ConnectedMatchesRooms ==
    /\ \A c \in DOMAIN connected : connected[c] # NoRoom =>
            connected[c] \in DOMAIN rooms /\ c \in DOMAIN rooms[connected[c]].users
    /\ \A r \in DOMAIN rooms : \A c \in DOMAIN rooms[r].users :
            c \in DOMAIN connected /\ connected[c] = r

\* Both ends of a session are in its room, they differ, and the host streams.  The
\* relays of offers, answers and candidates dereference room.Users[session.Client]
\* and room.Users[session.Host] unchecked, so a session that outlives an end
\* would bring the loop down.
SessionsJoinMembers ==
    \A r \in DOMAIN rooms : \A s \in rooms[r].sessions :
        /\ s.host # s.client
        /\ {s.host, s.client} \subseteq DOMAIN rooms[r].users
        /\ rooms[r].users[s.host].streaming

\* Whoever streams has a session to everyone else in the room, whether they came
\* before the share (StartShare) or after it (Join).
StreamReachesEveryone ==
    \A r \in DOMAIN rooms :
        \A h \in Streamers(rooms[r].users), c \in DOMAIN rooms[r].users :
            h # c => \E s \in rooms[r].sessions : s.host = h /\ s.client = c

\* Two connections in a room bear the same name exactly when they are the same
\* visitor's (Room.nextGuestName), whoever left and came back in between.
GuestNamesIdentifyVisitors ==
    \A r \in DOMAIN rooms : \A c, d \in DOMAIN rooms[r].users :
        (rooms[r].users[c].name = rooms[r].users[d].name)
            <=> (rooms[r].users[c].visitor = rooms[r].users[d].visitor)

\* The owner of a room is one visitor, on all of that visitor's connections
\* (Room.visitorOwner).
OwnerIsOneVisitor ==
    \A r \in DOMAIN rooms : \A c, d \in DOMAIN rooms[r].users :
        rooms[r].users[c].owner =>
            (rooms[r].users[d].owner
                <=> rooms[r].users[d].visitor = rooms[r].users[c].visitor)

\* A room that exists has someone in it, and its owner when it is to close with
\* the owner's leaving (the end of Disconnected.executeNoError).
RoomsAreAttended ==
    \A r \in DOMAIN rooms :
        /\ DOMAIN rooms[r].users # {}
        /\ rooms[r].closeOnOwnerLeave =>
                \E c \in DOMAIN rooms[r].users : rooms[r].users[c].owner

\* Connections and rooms belong together, both ways: whoever is in a room is so for the
\* loop and for the room, and no room stays behind that nobody is in or that nobody's
\* leaving is to close.  Nothing else would ever remove it.
RoomsMatchMembers == ConnectedMatchesRooms /\ RoomsAreAttended

\* The TURN server accepts exactly the credentials of the open sessions of rooms in
\* turn mode: every Credentials is matched by a Disallow, however the session ends.
TurnFollowsSessions ==
    lookup = UNION {Credentials(rooms[r].sessions) :
                        r \in {q \in DOMAIN rooms : rooms[q].mode = "turn"}}

\* What a member has been told of sessions is what there is: every session it is
\* an end of was announced to it and every session that went was ended for it, so
\* no page keeps a peer to someone who left.
EveryEndKnowsItsSessions ==
    \A r \in DOMAIN rooms : \A c \in DOMAIN rooms[r].users :
        told[c].open = SessionsOf(rooms[r].sessions, c)

\* What a member's page makes of the last Room message written to it are the people in
\* the room: the users are those of the room, for no handler changes one after it has
\* notified; a row for each visitor, with a name of its own and all of its tabs; one row is
\* "you", and one at most is the owner's (Room.notifyInfoChanged, aggregateUsers).
EveryMemberSeesThePeople ==
    \A r \in DOMAIN rooms : \A c \in DOMAIN rooms[r].users :
        LET users == rooms[r].users
            rows  == aggregateUsers(told[c].info, c)
        IN  /\ told[c].info = users
            /\ \A row \in rows : row.connections =
                   Cardinality({d \in DOMAIN users : users[d].name = row.name})
            /\ \A one, other \in rows :
                   one # other => one.name # other.name /\ ~(one.owner /\ other.owner)
            /\ {row \in rows : row.you} # {}
            /\ \A one, other \in rows : one.you /\ other.you => one = other
            /\ \A d \in DOMAIN users : \E row \in rows :
                   row.name = users[d].name /\ (users[d].streaming => row.streaming)

\* A connection the loop knows has not been told to close, and one it no longer
\* knows was told so once and nothing after: the writer stops at CloseWriter and
\* the loop would wait for it in vain.
ClosedOnce ==
    \A c \in Client :
        IF c \in DOMAIN connected THEN told[c].closes = 0 ELSE told[c] = Gone

\* The counters agree with the state: users joined less users left is the number
\* of users, and so on (prometheus.go), also for users a closing room throws out.
MetricsBalance ==
    LET All(S) == UNION {{r} \X S[r] : r \in DOMAIN rooms}
    IN  /\ metrics.rooms = Cardinality(DOMAIN rooms)
        /\ metrics.users = Cardinality(All([r \in DOMAIN rooms |-> DOMAIN rooms[r].users]))
        /\ metrics.sessions = Cardinality(All([r \in DOMAIN rooms |-> rooms[r].sessions]))

\* While a connection stays in its room it keeps its name, its visitor and whether
\* it owns the room: neither Name nor anyone else's coming and going changes them.
IdentityIsStable ==
    [][\A r \in DOMAIN rooms \cap DOMAIN rooms' :
        \A c \in DOMAIN rooms[r].users \cap DOMAIN rooms'[r].users :
            /\ rooms'[r].users[c].visitor = rooms[r].users[c].visitor
            /\ rooms'[r].users[c].name = rooms[r].users[c].name
            /\ rooms'[r].users[c].owner = rooms[r].users[c].owner]_vars

\* A room closes only when its last member leaves it or, if it is to close with
\* its owner, the owner's last connection does: one of an owner's two tabs closing
\* leaves it open.
RoomOutlivesGuests ==
    [][\A r \in DOMAIN rooms \ DOMAIN rooms' :
        \/ Cardinality(DOMAIN rooms[r].users) = 1
        \/ /\ rooms[r].closeOnOwnerLeave
           /\ Cardinality({c \in DOMAIN rooms[r].users : rooms[r].users[c].owner}) = 1]_vars

-----------------------------------------------------------------------------
\* The server implements ScreenShare.

Where == [c \in Client |-> IF c \in DOMAIN connected THEN connected[c] ELSE NoRoom]
Sharing == UNION {Streamers(rooms[r].users) : r \in DOMAIN rooms}
Fed == UNION {{<<s.host, s.client>> : s \in rooms[r].sessions} : r \in DOMAIN rooms}

Abstract == INSTANCE ScreenShare WITH
    Person <- Client, Place <- RoomId, Nowhere <- NoRoom,
    where <- Where, sharing <- Sharing, feeds <- Fed

\* Every step of the loop is people entering, leaving, sharing or ceasing to, and
\* after each the sessions connect exactly the sharers with the rest of the room.
ImplementsScreenShare == Abstract!Spec
=============================================================================

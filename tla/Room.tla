-------------------------------- MODULE Room --------------------------------
(***************************************************************************)
(* One room of the server (ws/room.go, ws/visitor.go): who is in it, under *)
(* which name, who streams, and the WebRTC sessions between its members.   *)
(* Everything here is a pure function of a room; Rooms.tla applies it.     *)
(*                                                                         *)
(* Connections stand for their xid, guest names for their number (the code *)
(* prefixes it with a fixed word), and visitor ids and room ids for the    *)
(* text the code gets after it has trimmed what the page typed.            *)
(***************************************************************************)
EXTENDS Integers, FiniteSets, Maps

CONSTANTS
    Client,   \* websocket connections
    Visitor,  \* visitor ids the pages send: one per browser, kept in its storage
    Blank,    \* a visitor id that is missing or only white space
    Serial,   \* tells apart the sessions one host opens to one client
    Mode      \* the connection modes of rooms

ASSUME ClientAssumption == IsFiniteSet(Client)
ASSUME BlankAssumption == Blank \notin Visitor
ASSUME SerialAssumption == IsFiniteSet(Serial)
ASSUME ModeAssumption == Mode \subseteq {"local", "stun", "turn"}

\* A page without a visitor id is known by its connection id.
VisitorId == Visitor \cup Client

User == [visitor: VisitorId, name: Nat \ {0}, streaming: BOOLEAN, owner: BOOLEAN]

\* A session record is the session's xid: the two ends and a serial name it.
Session == [host: Client, client: Client, serial: Serial]

Side == {"host", "client"}
Credential == Session \X Side

IsRoom(room) ==
    /\ room = [mode |-> room.mode, closeOnOwnerLeave |-> room.closeOnOwnerLeave,
               users |-> room.users, sessions |-> room.sessions]
    /\ room.mode \in Mode
    /\ room.closeOnOwnerLeave \in BOOLEAN
    /\ IsMap(room.users, Client, User)
    /\ room.sessions \subseteq Session

-----------------------------------------------------------------------------
\* Visitors and names

NormalizeVisitorID(v, c) == IF v = Blank THEN c ELSE v

NamesOf(users, v) == {users[c].name : c \in {d \in DOMAIN users : users[d].visitor = v}}
Used(users) == {users[c].name : c \in DOMAIN users}

\* Mutant: guests are numbered from 0.
FreeNamesFromZero(users) ==
    {n \in 0..Cardinality(DOMAIN users) :
        n \notin Used(users) /\ \A m \in 0..(n - 1) : m \in Used(users)}

\* The smallest number nobody in the room is called by.
FreeNames(users) ==
    {n \in 1..(Cardinality(DOMAIN users) + 1) :
        n \notin Used(users) /\ \A m \in 1..(n - 1) : m \in Used(users)}

\* Mutant: a guest is named after how many there are.
NextGuestNamesByCount(users, v) ==
    IF NamesOf(users, v) # {} THEN NamesOf(users, v) ELSE {Cardinality(DOMAIN users) + 1}

\* The names Room.nextGuestName may return: the one the visitor already has in
\* the room (any of them, map iteration being unordered, should there be
\* several), else the smallest free one.
NextGuestNames(users, v) ==
    IF NamesOf(users, v) # {} THEN NamesOf(users, v) ELSE FreeNames(users)

\* Mutant: a visitor's second connection owns the room, whoever's it is.
VisitorOwnerOfAny(users, v) == \E c \in DOMAIN users : users[c].visitor = v

VisitorOwner(users, v) == \E c \in DOMAIN users : users[c].visitor = v /\ users[c].owner

HasVisitor(users, v) == \E c \in DOMAIN users : users[c].visitor = v

NewUser(v, name, owner) ==
    [visitor |-> v, name |-> name, streaming |-> FALSE, owner |-> owner]

NewRoom(mode, closeOnOwnerLeave, users) ==
    [mode |-> mode, closeOnOwnerLeave |-> closeOnOwnerLeave,
     users |-> users, sessions |-> {}]

-----------------------------------------------------------------------------
\* Sessions

Streamers(users) == {c \in DOMAIN users : users[c].streaming}

SessionsBetween(hosts, clients, n) == [host: hosts, client: clients, serial: {n}]

SessionsOf(sessions, c) == {s \in sessions : c \in {s.host, s.client}}
HostedBy(sessions, c) == {s \in sessions : s.host = c}

Credentials(sessions) == sessions \X Side

-----------------------------------------------------------------------------
\* What a page makes of its room

\* Mutant: every connection is a person.
RowOfEach(users, me) ==
    {[name |-> users[c].name, you |-> c = me, owner |-> users[c].owner,
      streaming |-> users[c].streaming, connections |-> 1] : c \in DOMAIN users}

\* The rows a page makes of a Room message written to me: one for each visitor. Its name is
\* that of the first of its users; they all have the same.
aggregateUsers(users, me) ==
    LET Tabs(v) == {c \in DOMAIN users : users[c].visitor = v}
    IN  {[name |-> CHOOSE name \in NamesOf(users, v) : TRUE,
          you |-> v = users[me].visitor,
          owner |-> \E c \in Tabs(v) : users[c].owner,
          streaming |-> \E c \in Tabs(v) : users[c].streaming,
          connections |-> Cardinality(Tabs(v))] : v \in {users[c].visitor : c \in DOMAIN users}}
=============================================================================

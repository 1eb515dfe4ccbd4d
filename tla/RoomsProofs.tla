----------------------------- MODULE RoomsProofs -----------------------------
(***************************************************************************)
(* Proofs about the main loop, for any connections, visitors, rooms and    *)
(* modes.  A handler is a chain of operators on the loop's state taken as  *)
(* a value, so each has its lemmas here: which fields it yields (its       *)
(* definition, read once), then what it preserves; the theorems put the    *)
(* chains together, one step per message.                                  *)
(*                                                                         *)
(* The second half is about what the loop keeps beside its rooms: the      *)
(* credentials of the TURN server, the counters, and what every page was   *)
(* told.  Each handler is one of eight chains of operators (Outcome); what *)
(* a chain does to the ledger is read from the effect of each of its       *)
(* operators.  From the outcomes follow whom a step renames, what closes a *)
(* room, and that each step is one of the abstract specification           *)
(* (ScreenShare) or none at all.                                           *)
(***************************************************************************)
EXTENDS Rooms, FiniteSetTheorems, TLAPS

-----------------------------------------------------------------------------
\* The type invariant, of a state taken as a value and field by field.

IsState(s) == {"rooms", "connected", "lookup", "told", "metrics"} \subseteq DOMAIN s

RoomsType(R) ==
    /\ DOMAIN R \subseteq RoomId
    /\ \A r \in DOMAIN R : IsRoom(R[r])
    /\ R = [r \in DOMAIN R |-> R[r]]

ConnectedType(C) == IsMap(C, Client, RoomId \cup {NoRoom})

ToldType(T) ==
    /\ T = [c \in Client |-> T[c]]
    /\ \A c \in Client : IsTold(T[c])

StateType(s) ==
    /\ IsState(s)
    /\ RoomsType(s.rooms)
    /\ ConnectedType(s.connected)
    /\ s.lookup \subseteq Credential
    /\ ToldType(s.told)
    /\ s.metrics \in MetricsType

\* The loop's state as a value has the variables for its fields.
LEMMA NowFields ==
    /\ IsState(Now)
    /\ Now.rooms = rooms /\ Now.connected = connected /\ Now.lookup = lookup
    /\ Now.told = told /\ Now.metrics = metrics
BY DEF IsState, Now

\* The type invariant, said of that value.
LEMMA TypeOfNow == TypeOK <=> StateType(Now)
BY NowFields DEF TypeOK, StateType, RoomsType, ConnectedType, ToldType

-----------------------------------------------------------------------------
\* Finiteness, which the counters need.

\* Finitely many connections and serials make finitely many sessions.
LEMMA SessionIsFinite == IsFiniteSet(Session)
<1> DEFINE T == (Client \X Client) \X Serial
           f == [t \in T |-> [host |-> t[1][1], client |-> t[1][2], serial |-> t[2]]]
<1>1. IsFiniteSet(T)
  BY FS_Product, ClientAssumption, SerialAssumption
<1>2. \A s \in Session : <<(<<s.host, s.client>>), s.serial>> \in T
    /\ f[<<(<<s.host, s.client>>), s.serial>>] = s
  BY DEF Session
<1>3. \A t \in T : f[t] \in Session
  BY DEF Session
<1>4. f \in Surjection(T, Session)
  BY <1>2, <1>3 DEF Surjection
<1> QED BY <1>1, <1>4, FS_Surjection

\* So a set of sessions can be counted,
LEMMA SessionsCounted ==
    ASSUME NEW S, S \subseteq Session
    PROVE  Cardinality(S) \in Nat
BY SessionIsFinite, FS_Subset, FS_CardinalityType

\* and so can the users of a room.
LEMMA UsersCounted ==
    ASSUME NEW C, C \subseteq Client
    PROVE  Cardinality(C) \in Nat
BY ClientAssumption, FS_Subset, FS_CardinalityType

-----------------------------------------------------------------------------
\* One room.

\* A room with other sessions is a room,
LEMMA RoomSessionsType ==
    ASSUME NEW room, IsRoom(room), NEW S, S \subseteq Session
    PROVE  IsRoom([room EXCEPT !.sessions = S])
BY DEF IsRoom

\* and so is one with other users.
LEMMA RoomUsersType ==
    ASSUME NEW room, IsRoom(room), NEW U, IsMap(U, Client, User)
    PROVE  IsRoom([room EXCEPT !.users = U])
BY DEF IsRoom

\* What a connection was told stays so when its sessions change,
LEMMA ToldOpenType ==
    ASSUME NEW m, IsTold(m), NEW S, S \subseteq Session
    PROVE  IsTold([m EXCEPT !.open = S])
BY DEF IsTold

\* or its list of users.
LEMMA ToldInfoType ==
    ASSUME NEW m, IsTold(m), NEW U, IsMap(U, Client, User)
    PROVE  IsTold([m EXCEPT !.info = U])
BY DEF IsTold

\* Adding a key keeps a map a map,
LEMMA PutType ==
    ASSUME NEW K, NEW V, NEW m, IsMap(m, K, V), NEW k \in K, NEW v \in V
    PROVE  IsMap(Put(m, k, v), K, V)
BY DEF IsMap, Put

\* and deleting some does.
LEMMA WithoutType ==
    ASSUME NEW K, NEW V, NEW m, IsMap(m, K, V), NEW D
    PROVE  IsMap(Without(m, D), K, V)
BY DEF IsMap, Without

\* Exchanging a room of the server for another keeps the rooms well-formed.
LEMMA RoomReplacedType ==
    ASSUME NEW R, RoomsType(R), NEW r \in DOMAIN R, NEW room, IsRoom(room)
    PROVE  RoomsType([R EXCEPT ![r] = room])
BY DEF RoomsType

\* Two changes of one room are one.
LEMMA UsersThenSessions ==
    ASSUME NEW R, R = [q \in DOMAIN R |-> R[q]], NEW r \in DOMAIN R, IsRoom(R[r]), NEW U,
           NEW H, H = [R EXCEPT ![r].users = U]
    PROVE  \A S : [H EXCEPT ![r].sessions = S]
                     = [R EXCEPT ![r] = [R[r] EXCEPT !.users = U, !.sessions = S]]
<1>1. H[r] = [R[r] EXCEPT !.users = U] /\ DOMAIN H = DOMAIN R
  OBVIOUS
<1>2. ASSUME NEW S
      PROVE  [H[r] EXCEPT !.sessions = S] = [R[r] EXCEPT !.users = U, !.sessions = S]
  BY <1>1 DEF IsRoom
<1> QED BY <1>1, <1>2

\* A guest's number is positive.
LEMMA NewNames ==
    ASSUME NEW room, IsRoom(room), NEW v
    PROVE  NextGuestNames(room.users, v) \subseteq Nat \ {0}
<1>1. \A c \in DOMAIN room.users : room.users[c].name \in Nat \ {0}
  BY DEF IsRoom, IsMap, User
<1>2. NamesOf(room.users, v) \subseteq Nat \ {0}
  BY <1>1 DEF NamesOf
<1>3. Cardinality(DOMAIN room.users) \in Nat
  BY UsersCounted DEF IsRoom, IsMap
<1>4. FreeNames(room.users) \subseteq Nat \ {0}
  BY <1>3 DEF FreeNames
<1> QED BY <1>2, <1>4 DEF NextGuestNames
-----------------------------------------------------------------------------
\* What each operator on the state yields: t is the state it makes of s.

OpensSessions(s, t, r, new) ==
    /\ IsState(t)
    /\ t.rooms = [s.rooms EXCEPT ![r].sessions = @ \cup new]
    /\ t.connected = s.connected
    /\ t.lookup = IF s.rooms[r].mode = "turn"
                  THEN s.lookup \cup Credentials(new) ELSE s.lookup
    /\ t.told = [c \in Client |-> [s.told[c] EXCEPT !.open = @ \cup SessionsOf(new, c)]]
    /\ t.metrics = [s.metrics EXCEPT !.sessions = @ + Cardinality(new)]

\* What Room.newSession changes.
LEMMA OpenSessionsEffect ==
    ASSUME NEW s, IsState(s), NEW r, NEW new
    PROVE  OpensSessions(s, OpenSessions(s, r, new), r, new)
BY DEF IsState, OpensSessions, OpenSessions

ClosesSessions(s, t, r, old) ==
    /\ IsState(t)
    /\ t.rooms = [s.rooms EXCEPT ![r].sessions = @ \ old]
    /\ t.connected = s.connected
    /\ t.lookup = IF s.rooms[r].mode = "turn"
                  THEN s.lookup \ Credentials(old) ELSE s.lookup
    /\ t.told = s.told
    /\ t.metrics = [s.metrics EXCEPT !.sessions = @ - Cardinality(old)]

\* What Room.closeSession changes.
LEMMA CloseSessionsEffect ==
    ASSUME NEW s, IsState(s), NEW r, NEW old
    PROVE  ClosesSessions(s, CloseSessions(s, r, old), r, old)
BY DEF IsState, ClosesSessions, CloseSessions

\* Only the ledger changes.
Tells(s, t) ==
    /\ IsState(t)
    /\ t.rooms = s.rooms
    /\ t.connected = s.connected
    /\ t.lookup = s.lookup
    /\ t.metrics = s.metrics

EndsForOthers(s, t, C, old) ==
    /\ Tells(s, t)
    /\ t.told = [c \in Client |->
            IF c \in C THEN [s.told[c] EXCEPT !.open = @ \ old] ELSE s.told[c]]

\* Writing EndShare changes what connections were told and nothing else.
LEMMA EndShareEffect ==
    ASSUME NEW s, IsState(s), NEW C, NEW old
    PROVE  EndsForOthers(s, EndShare(s, C, old), C, old)
BY DEF IsState, EndsForOthers, Tells, EndShare

Notifies(s, t, r) ==
    /\ Tells(s, t)
    /\ t.told = [c \in Client |->
            IF c \in DOMAIN s.rooms[r].users
            THEN [s.told[c] EXCEPT !.info = s.rooms[r].users] ELSE s.told[c]]

\* Room.notifyInfoChanged changes what connections were told and nothing else.
LEMMA NotifyEffect ==
    ASSUME NEW s, IsState(s), NEW r
    PROVE  Notifies(s, NotifyInfoChanged(s, r), r)
BY DEF IsState, Notifies, Tells, NotifyInfoChanged

Disconnects(s, t, C) ==
    /\ IsState(t)
    /\ t.rooms = s.rooms /\ t.lookup = s.lookup /\ t.metrics = s.metrics
    /\ t.connected = Without(s.connected, C)
    /\ t.told = [c \in Client |->
            IF c \in C THEN [Gone EXCEPT !.closes = @ + s.told[c].closes] ELSE s.told[c]]

\* What forgetting connections changes.
LEMMA DisconnectEffect ==
    ASSUME NEW s, IsState(s), NEW C
    PROVE  Disconnects(s, Disconnect(s, C), C)
BY DEF IsState, Disconnects, Disconnect

\* closeRoom after it has closed the sessions, when s became m.
RemovesRoom(s, m, t, r) ==
    /\ IsState(t)
    /\ t.rooms = Without(m.rooms, {r})
    /\ t.connected = m.connected /\ t.lookup = m.lookup /\ t.told = m.told
    /\ t.metrics = [m.metrics EXCEPT
            !.users = @ - Cardinality(DOMAIN s.rooms[r].users), !.rooms = @ - 1]

\* What Rooms.closeRoom changes.
LEMMA CloseRoomEffect ==
    ASSUME NEW s, IsState(s), NEW r
    PROVE  RemovesRoom(s, CloseSessions(s, r, s.rooms[r].sessions), CloseRoom(s, r), r)
<1> DEFINE m == CloseSessions(s, r, s.rooms[r].sessions)
<1>1. IsState(m)
  BY CloseSessionsEffect DEF ClosesSessions
<1>2. CloseRoom(s, r) =
        [m EXCEPT !.rooms = Without(@, {r}),
                  !.metrics.users = @ - Cardinality(DOMAIN s.rooms[r].users),
                  !.metrics.rooms = @ - 1]
  BY DEF CloseRoom
<1> HIDE DEF m
<1> QED BY <1>1, <1>2 DEF IsState, RemovesRoom, m

RemovesUser(s, t, r, c) ==
    /\ IsState(t)
    /\ t.rooms = [s.rooms EXCEPT ![r].users = Without(@, {c})]
    /\ t.connected = s.connected /\ t.lookup = s.lookup /\ t.told = s.told
    /\ t.metrics = [s.metrics EXCEPT !.users = @ - 1]

\* What removing a user from its room changes.
LEMMA UserRemovedEffect ==
    ASSUME NEW s, IsState(s), NEW r, NEW c
    PROVE  RemovesUser(s, UserRemoved(s, r, c), r, c)
BY DEF IsState, RemovesUser, UserRemoved

AddsRoom(s, t, c, r, room) ==
    /\ IsState(t)
    /\ t.rooms = Put(s.rooms, r, room)
    /\ t.connected = [s.connected EXCEPT ![c] = r]
    /\ t.lookup = s.lookup /\ t.told = s.told
    /\ t.metrics = [s.metrics EXCEPT !.users = @ + 1, !.rooms = @ + 1]

\* What adding a room changes.
LEMMA RoomAddedEffect ==
    ASSUME NEW s, IsState(s), NEW c, NEW r, NEW room
    PROVE  AddsRoom(s, RoomAdded(s, c, r, room), c, r, room)
BY DEF IsState, AddsRoom, RoomAdded

AddsUser(s, t, c, r, user) ==
    /\ IsState(t)
    /\ t.rooms = [s.rooms EXCEPT ![r].users = Put(@, c, user)]
    /\ t.connected = [s.connected EXCEPT ![c] = r]
    /\ t.lookup = s.lookup /\ t.told = s.told
    /\ t.metrics = [s.metrics EXCEPT !.users = @ + 1]

\* What adding a user changes.
LEMMA UserAddedEffect ==
    ASSUME NEW s, IsState(s), NEW c, NEW r, NEW user
    PROVE  AddsUser(s, UserAdded(s, c, r, user), c, r, user)
BY DEF IsState, AddsUser, UserAdded

SetsStreaming(s, t, c, r, on) ==
    /\ IsState(t)
    /\ t.rooms = [s.rooms EXCEPT ![r].users[c].streaming = on]
    /\ t.connected = s.connected /\ t.lookup = s.lookup
    /\ t.told = s.told /\ t.metrics = s.metrics

\* What setting User.Streaming changes.
LEMMA StreamingEffect ==
    ASSUME NEW s, IsState(s), NEW c, NEW r, NEW on
    PROVE  SetsStreaming(s, Streaming(s, c, r, on), c, r, on)
BY DEF IsState, SetsStreaming, Streaming

-----------------------------------------------------------------------------
\* Each operator keeps the state well typed.

\* Opening sessions between connections keeps the types.
LEMMA OpenSessionsType ==
    ASSUME NEW s, StateType(s), NEW r \in DOMAIN s.rooms, NEW new, new \subseteq Session,
           NEW t, OpensSessions(s, t, r, new)
    PROVE  StateType(t)
<1>1. IsState(t) /\ t.connected = s.connected
  BY DEF StateType, OpensSessions
<1>2. RoomsType(t.rooms)
  <2>1. t.rooms = [s.rooms EXCEPT ![r].sessions = @ \cup new]
    BY DEF StateType, OpensSessions
  <2>2. IsRoom(s.rooms[r]) /\ s.rooms[r].sessions \cup new \subseteq Session
    BY DEF StateType, RoomsType, IsRoom
  <2>3. IsRoom([s.rooms[r] EXCEPT !.sessions = @ \cup new])
    BY <2>2, RoomSessionsType
  <2>4. RoomsType(s.rooms)
    BY DEF StateType
  <2>5. RoomsType([s.rooms EXCEPT ![r] = [s.rooms[r] EXCEPT !.sessions = @ \cup new]])
    BY <2>3, <2>4, RoomReplacedType
  <2> QED BY <2>1, <2>5
<1>3. t.lookup \subseteq Credential
  BY DEF StateType, OpensSessions, Credentials, Credential
<1>4. ToldType(t.told)
  <2>1. t.told = [c \in Client |-> [s.told[c] EXCEPT !.open = @ \cup SessionsOf(new, c)]]
    BY DEF StateType, OpensSessions
  <2>2. \A c \in Client : s.told[c].open \cup SessionsOf(new, c) \subseteq Session
    BY DEF StateType, ToldType, IsTold, SessionsOf
  <2>3. \A c \in Client : IsTold([s.told[c] EXCEPT !.open = @ \cup SessionsOf(new, c)])
    BY <2>2, ToldOpenType DEF StateType, ToldType
  <2> QED BY <2>1, <2>3 DEF ToldType
<1>5. t.metrics \in MetricsType
  <2>1. t.metrics = [s.metrics EXCEPT !.sessions = @ + Cardinality(new)]
    BY DEF StateType, OpensSessions
  <2> QED BY <2>1, SessionsCounted DEF StateType, MetricsType
<1> QED BY <1>1, <1>2, <1>3, <1>4, <1>5 DEF StateType

\* Closing sessions keeps the types.
LEMMA CloseSessionsType ==
    ASSUME NEW s, StateType(s), NEW r \in DOMAIN s.rooms, NEW old, old \subseteq Session,
           NEW t, ClosesSessions(s, t, r, old)
    PROVE  StateType(t)
<1>1. IsState(t) /\ t.connected = s.connected /\ t.told = s.told
  BY DEF StateType, ClosesSessions
<1>2. RoomsType(t.rooms)
  <2>1. t.rooms = [s.rooms EXCEPT ![r].sessions = @ \ old]
    BY DEF StateType, ClosesSessions
  <2>2. IsRoom(s.rooms[r]) /\ s.rooms[r].sessions \ old \subseteq Session
    BY DEF StateType, RoomsType, IsRoom
  <2> DEFINE room == [s.rooms[r] EXCEPT !.sessions = @ \ old]
  <2>3. IsRoom(room)
    BY <2>2, RoomSessionsType
  <2>4. t.rooms = [s.rooms EXCEPT ![r] = room]
    BY <2>1
  <2> HIDE DEF room
  <2> QED BY <2>3, <2>4, RoomReplacedType DEF StateType
<1>3. t.lookup \subseteq Credential
  BY DEF StateType, ClosesSessions
<1>4. t.metrics \in MetricsType
  <2>1. t.metrics = [s.metrics EXCEPT !.sessions = @ - Cardinality(old)]
    BY DEF StateType, ClosesSessions
  <2> QED BY <2>1, SessionsCounted DEF StateType, MetricsType
<1> QED BY <1>1, <1>2, <1>3, <1>4 DEF StateType

\* Writing EndShare keeps the types.
LEMMA EndShareType ==
    ASSUME NEW s, StateType(s), NEW C, NEW old, NEW t, EndsForOthers(s, t, C, old)
    PROVE  StateType(t)
<1>1. t.told = [c \in Client |->
            IF c \in C THEN [s.told[c] EXCEPT !.open = @ \ old] ELSE s.told[c]]
  BY DEF StateType, EndsForOthers, Tells
<1>2. \A c \in Client : IsTold(s.told[c]) /\ s.told[c].open \ old \subseteq Session
  BY DEF StateType, ToldType, IsTold
<1>3. ToldType(t.told)
  <2>1. \A c \in Client : IsTold([s.told[c] EXCEPT !.open = @ \ old])
    BY <1>2, ToldOpenType
  <2> QED BY <1>1, <1>2, <2>1 DEF ToldType
<1> QED BY <1>3 DEF StateType, EndsForOthers, Tells

\* Notifying a room keeps the types.
LEMMA NotifyType ==
    ASSUME NEW s, StateType(s), NEW r \in DOMAIN s.rooms,
           NEW t, Notifies(s, t, r)
    PROVE  StateType(t)
<1> DEFINE U == s.rooms[r].users
<1>1. IsMap(U, Client, User)
  BY DEF StateType, RoomsType, IsRoom
<1>2. t.told = [c \in Client |->
            IF c \in DOMAIN U THEN [s.told[c] EXCEPT !.info = U] ELSE s.told[c]]
  BY DEF StateType, Notifies, Tells
<1> HIDE DEF U
<1>3. \A c \in Client : IsTold([s.told[c] EXCEPT !.info = U]) /\ IsTold(s.told[c])
  BY <1>1, ToldInfoType DEF StateType, ToldType
<1>4. ToldType(t.told)
  BY <1>2, <1>3 DEF ToldType
<1> QED BY <1>4 DEF StateType, Notifies, Tells

\* Forgetting connections keeps the types.
LEMMA DisconnectType ==
    ASSUME NEW s, StateType(s), NEW C, NEW t, Disconnects(s, t, C)
    PROVE  StateType(t)
<1>1. ConnectedType(t.connected)
  BY WithoutType DEF StateType, Disconnects, ConnectedType
<1>2. t.told = [c \in Client |->
            IF c \in C THEN [Gone EXCEPT !.closes = @ + s.told[c].closes] ELSE s.told[c]]
  BY DEF StateType, Disconnects
<1>3. IsMap(Empty, Client, User)
  BY DEF IsMap, Empty
<1>4. \A n \in Nat : IsTold([Gone EXCEPT !.closes = @ + n])
  BY <1>3 DEF IsTold, Gone
<1>5. \A c \in Client : IsTold(s.told[c]) /\ s.told[c].closes \in Nat
  BY DEF StateType, ToldType, IsTold
<1>6. ToldType(t.told)
  BY <1>2, <1>4, <1>5 DEF ToldType
<1> QED BY <1>1, <1>6 DEF StateType, Disconnects

\* Setting Streaming of a user keeps the types.
LEMMA StreamingType ==
    ASSUME NEW s, StateType(s), NEW r \in DOMAIN s.rooms,
           NEW c \in DOMAIN s.rooms[r].users, NEW on \in BOOLEAN,
           NEW t, SetsStreaming(s, t, c, r, on)
    PROVE  StateType(t)
<1> DEFINE U == s.rooms[r].users
<1>1. IsRoom(s.rooms[r]) /\ IsMap(U, Client, User)
  BY DEF StateType, RoomsType, IsRoom
<1>2. [U[c] EXCEPT !.streaming = on] \in User
  BY <1>1 DEF User, IsMap
<1>3. IsMap([U EXCEPT ![c] = [U[c] EXCEPT !.streaming = on]], Client, User)
  BY <1>1, <1>2 DEF IsMap
<1>4. IsRoom([s.rooms[r] EXCEPT !.users = [U EXCEPT ![c] = [U[c] EXCEPT !.streaming = on]]])
  BY <1>1, <1>3, RoomUsersType
<1>5. t.rooms = [s.rooms EXCEPT ![r].users[c].streaming = on]
  BY DEF StateType, SetsStreaming
<1>6. RoomsType(t.rooms)
  BY <1>4, <1>5, RoomReplacedType DEF StateType
<1> QED BY <1>6 DEF StateType, SetsStreaming

\* Closing a room keeps the types.
LEMMA CloseRoomType ==
    ASSUME NEW s, StateType(s), NEW r \in DOMAIN s.rooms
    PROVE  StateType(CloseRoom(s, r))
<1> DEFINE m == CloseSessions(s, r, s.rooms[r].sessions)
           t == CloseRoom(s, r)
<1>1. IsState(s) /\ IsRoom(s.rooms[r])
  BY DEF StateType, RoomsType
<1>2. s.rooms[r].sessions \subseteq Session
  BY <1>1 DEF IsRoom
<1>3. ClosesSessions(s, m, r, s.rooms[r].sessions)
  BY <1>1, CloseSessionsEffect
<1>4. RemovesRoom(s, m, t, r)
  BY <1>1, CloseRoomEffect
<1> HIDE DEF m, t
<1>5. StateType(m)
  BY <1>2, <1>3, CloseSessionsType
<1>6. RoomsType(t.rooms)
  BY <1>4, <1>5 DEF RemovesRoom, StateType, RoomsType, Without
<1>7. Cardinality(DOMAIN s.rooms[r].users) \in Nat
  BY <1>1, UsersCounted DEF IsRoom, IsMap
<1>8. t.metrics \in MetricsType
  <2>1. m.metrics \in MetricsType /\ m.metrics.users \in Int /\ m.metrics.rooms \in Int
    BY <1>5 DEF StateType, MetricsType
  <2> DEFINE u == m.metrics.users - Cardinality(DOMAIN s.rooms[r].users)
             n == m.metrics.rooms - 1
  <2>2. u \in Int /\ n \in Int
    BY <2>1, <1>7
  <2>3. t.metrics = [m.metrics EXCEPT !.users = u, !.rooms = n]
    BY <1>4 DEF RemovesRoom
  <2> HIDE DEF u, n
  <2>4. [m.metrics EXCEPT !.users = u, !.rooms = n] \in MetricsType
    BY <2>1, <2>2 DEF MetricsType
  <2> QED BY <2>3, <2>4
<1>9. StateType(t)
  BY <1>4, <1>5, <1>6, <1>8 DEF RemovesRoom, StateType
<1> QED BY <1>9 DEF t

\* Removing a user keeps the types.
LEMMA UserRemovedType ==
    ASSUME NEW s, StateType(s), NEW r \in DOMAIN s.rooms, NEW c,
           NEW t, RemovesUser(s, t, r, c)
    PROVE  StateType(t)
<1> DEFINE U == Without(s.rooms[r].users, {c})
<1>1. IsRoom(s.rooms[r]) /\ IsMap(U, Client, User)
  BY WithoutType DEF StateType, RoomsType, IsRoom
<1>2. IsRoom([s.rooms[r] EXCEPT !.users = U])
  BY <1>1, RoomUsersType
<1>3. t.rooms = [s.rooms EXCEPT ![r].users = U]
  BY DEF RemovesUser
<1> HIDE DEF U
<1>4. RoomsType(t.rooms)
  BY <1>2, <1>3, RoomReplacedType DEF StateType
<1>5. t.metrics \in MetricsType
  BY DEF RemovesUser, StateType, MetricsType
<1> QED BY <1>4, <1>5 DEF RemovesUser, StateType

\* Putting a connection into a room keeps the type of connected.
LEMMA ConnectedEntryType ==
    ASSUME NEW C, ConnectedType(C), NEW c \in DOMAIN C, NEW r \in RoomId
    PROVE  ConnectedType([C EXCEPT ![c] = r])
BY DEF ConnectedType, IsMap

\* Adding a user keeps the types.
LEMMA UserAddedType ==
    ASSUME NEW s, StateType(s), NEW r \in DOMAIN s.rooms,
           NEW c \in DOMAIN s.connected, NEW user \in User, NEW t, AddsUser(s, t, c, r, user)
    PROVE  StateType(t)
<1> DEFINE U == Put(s.rooms[r].users, c, user)
<1>1. c \in Client /\ r \in RoomId
  BY DEF StateType, ConnectedType, RoomsType, IsMap
<1>2. IsRoom(s.rooms[r]) /\ IsMap(U, Client, User)
  BY <1>1, PutType DEF StateType, RoomsType, IsRoom
<1>3. IsRoom([s.rooms[r] EXCEPT !.users = U])
  BY <1>2, RoomUsersType
<1>4. t.rooms = [s.rooms EXCEPT ![r].users = U]
  BY DEF AddsUser
<1> HIDE DEF U
<1>5. RoomsType(t.rooms)
  BY <1>3, <1>4, RoomReplacedType DEF StateType
<1>6. t.metrics \in MetricsType
  BY DEF AddsUser, StateType, MetricsType
<1>7. ConnectedType(t.connected)
  BY <1>1, ConnectedEntryType DEF AddsUser, StateType
<1> QED BY <1>5, <1>6, <1>7 DEF AddsUser, StateType

\* Adding a room keeps the types.
LEMMA RoomAddedType ==
    ASSUME NEW s, StateType(s), NEW r \in RoomId, NEW c \in DOMAIN s.connected,
           NEW room, IsRoom(room), NEW t, AddsRoom(s, t, c, r, room)
    PROVE  StateType(t)
<1>1. RoomsType(t.rooms)
  BY DEF AddsRoom, StateType, RoomsType, Put
<1>2. t.metrics \in MetricsType
  <2>1. s.metrics \in MetricsType /\ s.metrics.users \in Int /\ s.metrics.rooms \in Int
    BY DEF StateType, MetricsType
  <2> DEFINE u == s.metrics.users + 1
             n == s.metrics.rooms + 1
  <2>2. u \in Int /\ n \in Int
    BY <2>1
  <2>3. t.metrics = [s.metrics EXCEPT !.users = u, !.rooms = n]
    BY DEF AddsRoom
  <2> HIDE DEF u, n
  <2>4. [s.metrics EXCEPT !.users = u, !.rooms = n] \in MetricsType
    BY <2>1, <2>2 DEF MetricsType
  <2> QED BY <2>3, <2>4
<1>3. ConnectedType(t.connected)
  BY ConnectedEntryType DEF AddsRoom, StateType
<1> QED BY <1>1, <1>2, <1>3 DEF AddsRoom, StateType

-----------------------------------------------------------------------------
\* The handlers keep the state well typed.

\* None of the changes inside a room adds or removes rooms.
LEMMA DomainsKept ==
    ASSUME NEW s, StateType(s), NEW r \in DOMAIN s.rooms
    PROVE  /\ \A t, new : OpensSessions(s, t, r, new) => DOMAIN t.rooms = DOMAIN s.rooms
           /\ \A t, old : ClosesSessions(s, t, r, old) => DOMAIN t.rooms = DOMAIN s.rooms
           /\ \A t, c : RemovesUser(s, t, r, c) => DOMAIN t.rooms = DOMAIN s.rooms
           /\ \A t, c, user : AddsUser(s, t, c, r, user) => DOMAIN t.rooms = DOMAIN s.rooms
           /\ \A t, c, on : SetsStreaming(s, t, c, r, on) => DOMAIN t.rooms = DOMAIN s.rooms
BY DEF OpensSessions, ClosesSessions, RemovesUser, AddsUser, SetsStreaming

\* Removing a user with its sessions keeps the types.
LEMMA RemoveUserType ==
    ASSUME NEW s, StateType(s), NEW r \in DOMAIN s.rooms, NEW c
    PROVE  /\ StateType(RemoveUser(s, r, c))
           /\ r \in DOMAIN RemoveUser(s, r, c).rooms
<1> DEFINE old  == SessionsOf(s.rooms[r].sessions, c)
           left == UserRemoved(s, r, c)
           C    == DOMAIN left.rooms[r].users
           heard == EndShare(left, C, old)
           t    == CloseSessions(heard, r, old)
<1>1. t = RemoveUser(s, r, c)
  BY DEF RemoveUser
<1>2. old \subseteq Session
  BY DEF StateType, RoomsType, IsRoom, SessionsOf
<1>3. RemovesUser(s, left, r, c)
  BY UserRemovedEffect DEF StateType
<1> HIDE DEF left
<1>4. StateType(left) /\ DOMAIN left.rooms = DOMAIN s.rooms
  BY <1>3, UserRemovedType, DomainsKept
<1>5. EndsForOthers(left, heard, C, old)
  BY <1>4, EndShareEffect DEF StateType
<1> HIDE DEF C, heard, old
<1>6. StateType(heard) /\ DOMAIN heard.rooms = DOMAIN s.rooms
  <2>1. StateType(heard)
    BY <1>4, <1>5, EndShareType
  <2> QED BY <2>1, <1>4, <1>5 DEF EndsForOthers, Tells
<1>7. ClosesSessions(heard, t, r, old)
  BY <1>6, CloseSessionsEffect DEF StateType
<1> HIDE DEF t
<1>8. StateType(t) /\ DOMAIN t.rooms = DOMAIN s.rooms
  BY <1>2, <1>6, <1>7, CloseSessionsType, DomainsKept
<1> QED BY <1>1, <1>8

\* A user's leaving, with all that follows, keeps the types.
LEMMA LeaveType ==
    ASSUME NEW s, StateType(s), NEW r \in DOMAIN s.rooms, NEW c
    PROVE  StateType(Leave(s, r, c))
<1> DEFINE left == RemoveUser(s, r, c)
           C == DOMAIN left.rooms[r].users
           out == Disconnect(left, C)
<1>1. StateType(left) /\ r \in DOMAIN left.rooms
  BY RemoveUserType
<1>2. StateType(CloseRoom(left, r))
  <2> HIDE DEF left
  <2> QED BY <1>1, CloseRoomType
<1>3. StateType(NotifyInfoChanged(left, r))
  <2> HIDE DEF left
  <2> QED BY <1>1, NotifyType, NotifyEffect DEF StateType
<1>4. StateType(CloseRoom(out, r))
  <2> HIDE DEF left
  <2>1. Disconnects(left, out, C)
    BY <1>1, DisconnectEffect DEF StateType
  <2> HIDE DEF out
  <2>2. StateType(out) /\ r \in DOMAIN out.rooms
    BY <1>1, <2>1, DisconnectType DEF Disconnects
  <2> QED BY <2>2, CloseRoomType
<1> QED BY <1>2, <1>3, <1>4 DEF Leave

\* The end of a connection keeps the types.
LEMMA DroppedType ==
    ASSUME NEW s, StateType(s), NEW c
    PROVE  StateType(Dropped(s, c))
<1> DEFINE out == Disconnect(s, {c})
<1>1. Disconnects(s, out, {c})
  BY DisconnectEffect DEF StateType
<1>2. Dropped(s, c) =
        IF s.connected[c] \in DOMAIN s.rooms /\ c \in DOMAIN s.rooms[s.connected[c]].users
        THEN Leave(out, s.connected[c], c)
        ELSE out
  BY Zenon DEF Dropped
<1> HIDE DEF out
<1>3. StateType(out) /\ DOMAIN out.rooms = DOMAIN s.rooms
  BY <1>1, DisconnectType DEF Disconnects
<1> QED BY <1>2, <1>3, LeaveType

\* Creating a room keeps the types.
LEMMA CreatedType ==
    ASSUME NEW s, StateType(s), NEW c \in DOMAIN s.connected, NEW r \in RoomId,
           NEW mode \in Mode, NEW close \in BOOLEAN, NEW v \in Visitor \cup {Blank}
    PROVE  StateType(Created(s, c, r, mode, close, v))
<1> DEFINE user == NewUser(NormalizeVisitorID(v, c), 1, TRUE)
           room == NewRoom(mode, close, Put(Empty, c, user))
           t    == RoomAdded(s, c, r, room)
<1>1. Created(s, c, r, mode, close, v) = NotifyInfoChanged(t, r)
  BY DEF Created
<1>2. c \in Client
  BY DEF StateType, ConnectedType, IsMap
<1>3. user \in User
  BY <1>2 DEF NewUser, NormalizeVisitorID, User, VisitorId
<1>4. IsMap(Put(Empty, c, user), Client, User)
  BY <1>2, <1>3 DEF IsMap, Put, Empty
<1> HIDE DEF user
<1>5. IsRoom(room)
  BY <1>4 DEF IsRoom, NewRoom
<1> HIDE DEF room
<1>6. AddsRoom(s, t, c, r, room)
  BY RoomAddedEffect DEF StateType
<1> HIDE DEF t
<1>7. StateType(t)
  BY <1>5, <1>6, RoomAddedType
<1>8. r \in DOMAIN t.rooms
  BY <1>6 DEF AddsRoom, Put
<1>9. Notifies(t, NotifyInfoChanged(t, r), r)
  BY <1>7, NotifyEffect DEF StateType
<1> QED BY <1>1, <1>7, <1>8, <1>9, NotifyType

\* Joining a room keeps the types.
LEMMA JoinedType ==
    ASSUME NEW s, StateType(s), NEW c \in DOMAIN s.connected, NEW r \in DOMAIN s.rooms,
           NEW v \in Visitor \cup {Blank}, NEW name \in Nat \ {0}
    PROVE  /\ StateType(Joined(s, c, r, v, name))
           /\ DOMAIN Joined(s, c, r, v, name).rooms = DOMAIN s.rooms
<1> DEFINE visitor == NormalizeVisitorID(v, c)
           user == NewUser(visitor, name, VisitorOwner(s.rooms[r].users, visitor))
           t    == UserAdded(s, c, r, user)
           u    == NotifyInfoChanged(t, r)
<1>1. Joined(s, c, r, v, name) = u
  BY DEF Joined
<1>2. c \in Client
  BY DEF StateType, ConnectedType, IsMap
<1>3. user \in User
  BY <1>2 DEF NewUser, NormalizeVisitorID, User, VisitorId, VisitorOwner
<1> HIDE DEF user
<1>4. AddsUser(s, t, c, r, user)
  BY UserAddedEffect DEF StateType
<1> HIDE DEF t
<1>5. StateType(t) /\ DOMAIN t.rooms = DOMAIN s.rooms
  BY <1>3, <1>4, UserAddedType, DomainsKept
<1>6. Notifies(t, u, r)
  BY <1>5, NotifyEffect DEF StateType
<1> HIDE DEF u
<1>7. StateType(u)
  BY <1>5, <1>6, NotifyType
<1> QED BY <1>1, <1>5, <1>6, <1>7 DEF Notifies, Tells

\* The sessions between two sets of connections are sessions.
LEMMA SessionsBetweenType ==
    ASSUME NEW H, H \subseteq Client, NEW C, C \subseteq Client, NEW n \in Serial
    PROVE  SessionsBetween(H, C, n) \subseteq Session
BY DEF SessionsBetween, Session

\* Showing the streams to a newcomer keeps the types.
LEMMA ShownToType ==
    ASSUME NEW s, StateType(s), NEW c \in Client, NEW r \in DOMAIN s.rooms, NEW n \in Serial
    PROVE  StateType(ShownTo(s, c, r, n))
<1> DEFINE new == SessionsBetween(Streamers(s.rooms[r].users) \ {c}, {c}, n)
           t   == OpenSessions(s, r, new)
<1>1. Streamers(s.rooms[r].users) \subseteq Client
  BY DEF StateType, RoomsType, IsRoom, IsMap, Streamers
<1>2. new \subseteq Session
  BY <1>1, SessionsBetweenType
<1>3. ShownTo(s, c, r, n) = t
  BY DEF ShownTo
<1> HIDE DEF new
<1>4. OpensSessions(s, t, r, new)
  BY OpenSessionsEffect DEF StateType
<1> QED BY <1>2, <1>3, <1>4, OpenSessionsType

\* Showing a new stream to the members keeps the types.
LEMMA ShownType ==
    ASSUME NEW s, StateType(s), NEW c \in Client, NEW r \in DOMAIN s.rooms, NEW n \in Serial
    PROVE  /\ StateType(Shown(s, c, r, n))
           /\ DOMAIN Shown(s, c, r, n).rooms = DOMAIN s.rooms
<1> DEFINE new == SessionsBetween({c}, DOMAIN s.rooms[r].users \ {c}, n)
           t   == OpenSessions(s, r, new)
<1>1. DOMAIN s.rooms[r].users \subseteq Client
  BY DEF StateType, RoomsType, IsRoom, IsMap
<1>2. new \subseteq Session
  BY <1>1, SessionsBetweenType
<1>3. Shown(s, c, r, n) = t
  BY DEF Shown
<1> HIDE DEF new
<1>4. OpensSessions(s, t, r, new)
  BY OpenSessionsEffect DEF StateType
<1> HIDE DEF t
<1> QED BY <1>2, <1>3, <1>4, OpenSessionsType, DomainsKept

\* Ending a stream keeps the types.
LEMMA StoppedType ==
    ASSUME NEW s, StateType(s), NEW r \in DOMAIN s.rooms, NEW c \in DOMAIN s.rooms[r].users
    PROVE  StateType(Stopped(s, c, r))
<1> DEFINE old == HostedBy(s.rooms[r].sessions, c)
           C   == DOMAIN s.rooms[r].users
           on  == Streaming(s, c, r, FALSE)
           off == EndShare(on, C, old)
           t   == CloseSessions(off, r, old)
           u   == NotifyInfoChanged(t, r)
<1>1. Stopped(s, c, r) = u
  BY DEF Stopped
<1>2. old \subseteq Session
  BY DEF StateType, RoomsType, IsRoom, HostedBy
<1> HIDE DEF old, C
<1>3. SetsStreaming(s, on, c, r, FALSE)
  BY StreamingEffect DEF StateType
<1> HIDE DEF on
<1>4. StateType(on) /\ DOMAIN on.rooms = DOMAIN s.rooms
  BY <1>3, StreamingType, DomainsKept
<1>5. EndsForOthers(on, off, C, old)
  BY <1>4, EndShareEffect DEF StateType
<1> HIDE DEF off
<1>6. StateType(off)
  BY <1>4, <1>5, EndShareType
<1>7. DOMAIN off.rooms = DOMAIN s.rooms
  BY <1>4, <1>5 DEF EndsForOthers, Tells
<1>8. ClosesSessions(off, t, r, old)
  BY <1>6, CloseSessionsEffect DEF StateType
<1> HIDE DEF t
<1>9. StateType(t) /\ DOMAIN t.rooms = DOMAIN s.rooms
  BY <1>2, <1>6, <1>7, <1>8, CloseSessionsType, DomainsKept
<1>10. Notifies(t, u, r)
  BY <1>9, NotifyEffect DEF StateType
<1> HIDE DEF u
<1> QED BY <1>1, <1>9, <1>10, NotifyType

-----------------------------------------------------------------------------
\* What leaving does to rooms and connections.

RoomWithout(room, c) ==
    [room EXCEPT !.users = Without(@, {c}), !.sessions = @ \ SessionsOf(@, c)]

\* Removing a user takes it and its sessions out of its room.
LEMMA RemoveUserShape ==
    ASSUME NEW s, StateType(s), NEW r \in DOMAIN s.rooms, NEW c,
           NEW t, t = RemoveUser(s, r, c)
    PROVE  /\ t.rooms = [s.rooms EXCEPT ![r] = RoomWithout(s.rooms[r], c)]
           /\ t.connected = s.connected
<1> DEFINE old   == SessionsOf(s.rooms[r].sessions, c)
           left  == UserRemoved(s, r, c)
           C     == DOMAIN left.rooms[r].users
           heard == EndShare(left, C, old)
           u     == CloseSessions(heard, r, old)
<1>1. t = u
  BY DEF RemoveUser
<1>2. RemovesUser(s, left, r, c)
  BY UserRemovedEffect DEF StateType
<1> HIDE DEF left
<1>3. EndsForOthers(left, heard, C, old)
  BY <1>2, EndShareEffect DEF RemovesUser
<1> HIDE DEF C, heard
<1>4. ClosesSessions(heard, u, r, old)
  BY <1>3, CloseSessionsEffect DEF EndsForOthers, Tells
<1> HIDE DEF u
<1>5. u.connected = s.connected
  BY <1>2, <1>3, <1>4 DEF RemovesUser, EndsForOthers, Tells, ClosesSessions
<1>6. /\ heard.rooms = [s.rooms EXCEPT ![r].users = Without(@, {c})]
      /\ u.rooms = [heard.rooms EXCEPT ![r].sessions = @ \ old]
  BY <1>2, <1>3, <1>4 DEF RemovesUser, EndsForOthers, Tells, ClosesSessions
<1>7. IsRoom(s.rooms[r]) /\ s.rooms = [q \in DOMAIN s.rooms |-> s.rooms[q]]
  BY DEF StateType, RoomsType
<1>8. u.rooms = [s.rooms EXCEPT ![r] = RoomWithout(s.rooms[r], c)]
  <2> DEFINE U == Without(s.rooms[r].users, {c})
             S == s.rooms[r].sessions \ old
  <2>1. heard.rooms = [s.rooms EXCEPT ![r].users = U]
    BY <1>6
  <2>2. RoomWithout(s.rooms[r], c) = [s.rooms[r] EXCEPT !.users = U, !.sessions = S]
    BY DEF RoomWithout
  <2> HIDE DEF U, old
  <2>3. heard.rooms[r].sessions = s.rooms[r].sessions
    <3>1. heard.rooms[r] = [s.rooms[r] EXCEPT !.users = U]
      BY <2>1, <1>7
    <3> QED BY <3>1, <1>7 DEF IsRoom
  <2>4. u.rooms = [heard.rooms EXCEPT ![r].sessions = S]
    BY <1>6, <2>3
  <2> HIDE DEF S
  <2>5. u.rooms = [s.rooms EXCEPT ![r] = [s.rooms[r] EXCEPT !.users = U, !.sessions = S]]
    BY <2>1, <2>4, <1>7, UsersThenSessions
  <2> QED BY <2>2, <2>5
<1> QED BY <1>1, <1>5, <1>8

\* The room closes on, or stays without c, or c was in none.
Leaves(s, t, c) ==
    LET r == s.connected[c]
    IN  \/ /\ r = NoRoom
           /\ t.rooms = s.rooms
           /\ t.connected = Without(s.connected, {c})
        \/ /\ r # NoRoom
           /\ DOMAIN s.rooms[r].users # {c}
           /\ ~OwnerGone(RoomWithout(s.rooms[r], c), s.rooms[r].users[c])
           /\ t.rooms = [s.rooms EXCEPT ![r] = RoomWithout(s.rooms[r], c)]
           /\ t.connected = Without(s.connected, {c})
        \/ /\ r # NoRoom
           /\ \/ DOMAIN s.rooms[r].users = {c}
              \/ OwnerGone(RoomWithout(s.rooms[r], c), s.rooms[r].users[c])
           /\ t.rooms = Without(s.rooms, {r})
           /\ t.connected = Without(s.connected, DOMAIN s.rooms[r].users)

Matches(s) ==
    /\ \A c \in DOMAIN s.connected : s.connected[c] # NoRoom =>
            s.connected[c] \in DOMAIN s.rooms
                /\ c \in DOMAIN s.rooms[s.connected[c]].users
    /\ \A r \in DOMAIN s.rooms : \A c \in DOMAIN s.rooms[r].users :
            c \in DOMAIN s.connected /\ s.connected[c] = r

\* Closing a room takes it off the map.
LEMMA CloseRoomShape ==
    ASSUME NEW s, StateType(s), NEW r \in DOMAIN s.rooms,
           NEW t, t = CloseRoom(s, r)
    PROVE  t.rooms = Without(s.rooms, {r}) /\ t.connected = s.connected
<1> DEFINE m == CloseSessions(s, r, s.rooms[r].sessions)
<1>1. ClosesSessions(s, m, r, s.rooms[r].sessions)
  BY CloseSessionsEffect DEF StateType
<1>2. RemovesRoom(s, m, t, r)
  BY CloseRoomEffect DEF StateType
<1> HIDE DEF m
<1>3. t.connected = s.connected /\ t.rooms = Without(m.rooms, {r})
  BY <1>1, <1>2 DEF ClosesSessions, RemovesRoom
<1>4. m.rooms = [s.rooms EXCEPT ![r].sessions = @ \ s.rooms[r].sessions]
  BY <1>1 DEF ClosesSessions
<1> QED BY <1>3, <1>4 DEF Without

\* The end of a connection: it is gone, and its room is without it or gone with everybody in it.
LEMMA DroppedShape ==
    ASSUME NEW s, StateType(s), Matches(s), NEW c \in DOMAIN s.connected,
           NEW t, t = Dropped(s, c)
    PROVE  Leaves(s, t, c)
<1> DEFINE r    == s.connected[c]
           out  == Disconnect(s, {c})
           left == RemoveUser(out, r, c)
           room == left.rooms[r]
           all  == Disconnect(left, DOMAIN room.users)
<1>1. Disconnects(s, out, {c}) /\ StateType(out)
  BY DisconnectEffect, DisconnectType DEF StateType
<1>2. r = NoRoom \/ (r \in DOMAIN s.rooms /\ c \in DOMAIN s.rooms[r].users)
  BY DEF Matches
<1>3. NoRoom \notin DOMAIN s.rooms
  BY RoomIdAssumption DEF StateType, RoomsType
<1>4. t = IF r \in DOMAIN s.rooms /\ c \in DOMAIN s.rooms[r].users
          THEN Leave(out, r, c) ELSE out
  BY Zenon DEF Dropped
<1>5. CASE r = NoRoom
  BY <1>1, <1>3, <1>4, <1>5 DEF Disconnects, Leaves
<1>6. CASE r # NoRoom
  <2>1. r \in DOMAIN s.rooms /\ c \in DOMAIN s.rooms[r].users /\ t = Leave(out, r, c)
    BY <1>2, <1>4, <1>6
  <2>2. out.rooms = s.rooms /\ out.connected = Without(s.connected, {c})
    BY <1>1 DEF Disconnects
  <2>3. t = IF OwnerGone(room, s.rooms[r].users[c])
            THEN CloseRoom(all, r)
            ELSE IF DOMAIN room.users = {} THEN CloseRoom(left, r)
            ELSE NotifyInfoChanged(left, r)
    BY <2>1, <2>2, Zenon DEF Leave
  <2> HIDE DEF out
  <2>4. StateType(left) /\ r \in DOMAIN left.rooms
    BY <1>1, <2>1, <2>2, RemoveUserType
  <2>5. left.rooms = [s.rooms EXCEPT ![r] = RoomWithout(s.rooms[r], c)]
        /\ left.connected = Without(s.connected, {c})
    BY <1>1, <2>1, <2>2, RemoveUserShape
  <2> HIDE DEF left, r
  <2>6. room = RoomWithout(s.rooms[r], c)
    BY <2>1, <2>5
  <2>7. DOMAIN room.users = DOMAIN s.rooms[r].users \ {c}
    <3>1. IsRoom(s.rooms[r])
      BY <2>1 DEF StateType, RoomsType
    <3> QED BY <3>1, <2>6 DEF RoomWithout, IsRoom, Without
  <2> HIDE DEF room
  <2>8. CASE OwnerGone(room, s.rooms[r].users[c])
    <3>1. t = CloseRoom(all, r)
      BY <2>3, <2>8
    <3>2. Disconnects(left, all, DOMAIN room.users) /\ StateType(all)
      BY <2>4, DisconnectEffect, DisconnectType DEF StateType
    <3> HIDE DEF all
    <3>3. all.rooms = left.rooms /\ all.connected = Without(left.connected, DOMAIN room.users)
      BY <3>2 DEF Disconnects
    <3>4. t.rooms = Without(left.rooms, {r}) /\ t.connected = all.connected
      <4>1. StateType(all) /\ r \in DOMAIN all.rooms
        BY <3>2, <3>3, <2>4
      <4>2. t.rooms = Without(all.rooms, {r}) /\ t.connected = all.connected
        BY <3>1, <4>1, CloseRoomShape
      <4> QED BY <3>3, <4>2
    <3>5. t.rooms = Without(s.rooms, {r})
      BY <3>4, <2>5 DEF Without
    <3>6. t.connected = Without(s.connected, DOMAIN s.rooms[r].users)
      BY <3>3, <3>4, <2>1, <2>5, <2>7 DEF Without
    <3> QED BY <3>5, <3>6, <2>6, <2>8, <1>6 DEF Leaves, r
  <2>9. CASE ~OwnerGone(room, s.rooms[r].users[c]) /\ DOMAIN room.users = {}
    <3>1. t = CloseRoom(left, r)
      BY <2>3, <2>9
    <3>2. t.rooms = Without(left.rooms, {r}) /\ t.connected = left.connected
      BY <3>1, <2>4, CloseRoomShape
    <3>3. DOMAIN s.rooms[r].users = {c}
      BY <2>1, <2>7, <2>9
    <3>4. t.rooms = Without(s.rooms, {r})
      BY <3>2, <2>5 DEF Without
    <3> QED BY <3>2, <3>3, <3>4, <2>5, <1>6 DEF Leaves, r
  <2>10. CASE ~OwnerGone(room, s.rooms[r].users[c]) /\ DOMAIN room.users # {}
    <3>1. t = NotifyInfoChanged(left, r)
      BY <2>3, <2>10
    <3>2. Notifies(left, t, r)
      BY <3>1, <2>4, NotifyEffect DEF StateType
    <3>3. DOMAIN s.rooms[r].users # {c}
      BY <2>7, <2>10
    <3> QED BY <3>2, <3>3, <2>5, <2>6, <2>10, <1>6 DEF Notifies, Tells, Leaves, r
  <2> QED BY <2>8, <2>9, <2>10
<1> QED BY <1>5, <1>6

-----------------------------------------------------------------------------
\* What must hold in a room whenever nobody is half in or half out of it.

SessionsJoin(room) ==
    \A s \in room.sessions :
        /\ s.host # s.client
        /\ {s.host, s.client} \subseteq DOMAIN room.users
        /\ room.users[s.host].streaming

NamesIdentify(room) ==
    \A c, d \in DOMAIN room.users :
        (room.users[c].name = room.users[d].name)
            <=> (room.users[c].visitor = room.users[d].visitor)

OwnedByOne(room) ==
    \A c, d \in DOMAIN room.users :
        room.users[c].owner =>
            (room.users[d].owner <=> room.users[d].visitor = room.users[c].visitor)

Attended(room) ==
    /\ DOMAIN room.users # {}
    /\ room.closeOnOwnerLeave => \E c \in DOMAIN room.users : room.users[c].owner

RoomSafe(room) ==
    SessionsJoin(room) /\ NamesIdentify(room) /\ OwnedByOne(room) /\ Attended(room)

\* Everyone but those in X gets every stream.
ReachesBut(room, X) ==
    \A h \in Streamers(room.users) \ X, c \in DOMAIN room.users \ X :
        h # c => \E s \in room.sessions : s.host = h /\ s.client = c

\* A room with its creator in it is safe.
LEMMA NewRoomIsSafe ==
    ASSUME NEW mode, NEW close, NEW c, NEW v, NEW name,
           NEW room, room = NewRoom(mode, close, Put(Empty, c, NewUser(v, name, TRUE)))
    PROVE  RoomSafe(room) /\ ReachesBut(room, {})
<1>1. /\ room.sessions = {}
      /\ room.users = Put(Empty, c, NewUser(v, name, TRUE))
  BY DEF NewRoom
<1>2. DOMAIN room.users = {c} /\ room.users[c] = NewUser(v, name, TRUE)
  BY <1>1 DEF Put, Empty
<1>3. room.users[c].owner /\ ~room.users[c].streaming
  BY <1>2 DEF NewUser
<1>4. Streamers(room.users) = {}
  BY <1>2, <1>3 DEF Streamers
<1>5. ReachesBut(room, {})
  BY <1>4 DEF ReachesBut
<1>6. SessionsJoin(room)
  BY <1>1 DEF SessionsJoin
<1>7. NamesIdentify(room)
  BY <1>2 DEF NamesIdentify
<1>8. OwnedByOne(room)
  BY <1>2, <1>3 DEF OwnedByOne
<1>9. Attended(room)
  BY <1>2, <1>3 DEF Attended
<1> QED BY <1>5, <1>6, <1>7, <1>8, <1>9 DEF RoomSafe

\* A room that one of several members leaves stays safe, unless it is to close with that one.
LEMMA RoomWithoutIsSafe ==
    ASSUME NEW room, IsRoom(room), RoomSafe(room), NEW c \in DOMAIN room.users,
           DOMAIN room.users # {c},
           ~OwnerGone(RoomWithout(room, c), room.users[c])
    PROVE  RoomSafe(RoomWithout(room, c))
<1> DEFINE left == RoomWithout(room, c)
<1>1. /\ DOMAIN left.users = DOMAIN room.users \ {c}
      /\ \A d \in DOMAIN left.users : left.users[d] = room.users[d]
      /\ left.sessions = room.sessions \ SessionsOf(room.sessions, c)
      /\ left.closeOnOwnerLeave = room.closeOnOwnerLeave
  BY DEF RoomWithout, IsRoom, Without
<1> HIDE DEF left
<1>2. SessionsJoin(left)
  BY <1>1 DEF RoomSafe, SessionsJoin, SessionsOf
<1>3. NamesIdentify(left)
  BY <1>1 DEF RoomSafe, NamesIdentify
<1>4. OwnedByOne(left)
  BY <1>1 DEF RoomSafe, OwnedByOne
<1>5. Attended(left)
  <2>1. DOMAIN left.users # {}
    BY <1>1
  <2>2. ASSUME left.closeOnOwnerLeave
        PROVE  \E d \in DOMAIN left.users : left.users[d].owner
    <3>1. PICK d \in DOMAIN room.users : room.users[d].owner
      BY <1>1, <2>2 DEF RoomSafe, Attended
    <3>2. CASE d # c
      BY <1>1, <3>1, <3>2
    <3>3. CASE d = c
      <4>1. HasVisitor(left.users, room.users[c].visitor)
        BY <1>1, <2>2, <3>1, <3>3 DEF OwnerGone, left
      <4>2. PICK e \in DOMAIN left.users : left.users[e].visitor = room.users[c].visitor
        BY <4>1 DEF HasVisitor
      <4> QED BY <1>1, <3>1, <3>3, <4>2 DEF RoomSafe, OwnedByOne
    <3> QED BY <3>2, <3>3
  <2> QED BY <2>1, <2>2 DEF Attended
<1> QED BY <1>2, <1>3, <1>4, <1>5 DEF RoomSafe, left

\* Once a member is out, nobody is missing its stream and it is missing none.
LEMMA RoomWithoutReaches ==
    ASSUME NEW room, IsRoom(room), NEW c, ReachesBut(room, {c})
    PROVE  ReachesBut(RoomWithout(room, c), {})
<1> DEFINE left == RoomWithout(room, c)
<1>1. /\ DOMAIN left.users = DOMAIN room.users \ {c}
      /\ \A d \in DOMAIN left.users : left.users[d] = room.users[d]
      /\ left.sessions = room.sessions \ SessionsOf(room.sessions, c)
  BY DEF RoomWithout, IsRoom, Without
<1> HIDE DEF left
<1>2. ASSUME NEW h \in Streamers(left.users), NEW d \in DOMAIN left.users, h # d
      PROVE  \E s \in left.sessions : s.host = h /\ s.client = d
  <2>1. h \in Streamers(room.users) \ {c} /\ d \in DOMAIN room.users \ {c}
    BY <1>1, <1>2 DEF Streamers
  <2>2. PICK s \in room.sessions : s.host = h /\ s.client = d
    BY <1>2, <2>1 DEF ReachesBut
  <2> QED BY <1>1, <2>1, <2>2 DEF SessionsOf
<1> QED BY <1>2 DEF ReachesBut, left

RoomWith(room, c, user) == [room EXCEPT !.users = Put(@, c, user)]

\* A guest name is that of the same visitor, or nobody's.
LEMMA NextGuestNameFits ==
    ASSUME NEW users, NEW v, NEW name \in NextGuestNames(users, v)
    PROVE  \/ \E d \in DOMAIN users : users[d].visitor = v /\ users[d].name = name
           \/ \A d \in DOMAIN users : users[d].visitor # v /\ users[d].name # name
BY DEF NextGuestNames, NamesOf, FreeNames, Used

\* A newcomer under its guest name keeps a room safe.
LEMMA RoomWithIsSafe ==
    ASSUME NEW room, IsRoom(room), RoomSafe(room), NEW c, c \notin DOMAIN room.users,
           NEW v, NEW name \in NextGuestNames(room.users, v),
           NEW user, user = NewUser(v, name, VisitorOwner(room.users, v))
    PROVE  RoomSafe(RoomWith(room, c, user))
<1> DEFINE more == RoomWith(room, c, user)
<1>1. /\ DOMAIN more.users = DOMAIN room.users \cup {c}
      /\ \A d \in DOMAIN room.users : more.users[d] = room.users[d]
      /\ more.users[c] = user
      /\ more.sessions = room.sessions
      /\ more.closeOnOwnerLeave = room.closeOnOwnerLeave
  BY DEF RoomWith, IsRoom, Put
<1>2. /\ user.visitor = v /\ user.name = name
      /\ user.owner <=> \E d \in DOMAIN room.users :
                            room.users[d].visitor = v /\ room.users[d].owner
  BY DEF NewUser, VisitorOwner
<1> HIDE DEF more
<1>3. SessionsJoin(more)
  BY <1>1 DEF RoomSafe, SessionsJoin
<1>4. NamesIdentify(more)
  BY <1>1, <1>2, NextGuestNameFits DEF RoomSafe, NamesIdentify
<1>5. OwnedByOne(more)
  BY <1>1, <1>2 DEF RoomSafe, OwnedByOne
<1>6. Attended(more)
  BY <1>1 DEF RoomSafe, Attended
<1> QED BY <1>3, <1>4, <1>5, <1>6 DEF RoomSafe, more

\* Only the newcomer has yet to get the streams.
LEMMA RoomWithReaches ==
    ASSUME NEW room, IsRoom(room), NEW c, c \notin DOMAIN room.users, NEW user,
           ~user.streaming, ReachesBut(room, {})
    PROVE  ReachesBut(RoomWith(room, c, user), {c})
BY DEF RoomWith, IsRoom, Put, ReachesBut, Streamers

RoomStreaming(room, c, on) == [room EXCEPT !.users[c].streaming = on]
RoomShowing(room, new) == [room EXCEPT !.sessions = @ \cup new]

\* t is the room with c's streaming set, and all else as it was.
StreamingSet(room, t, c, on) ==
    /\ DOMAIN t.users = DOMAIN room.users
    /\ t.users[c].streaming = on
    /\ \A d \in DOMAIN t.users :
        /\ t.users[d].name = room.users[d].name
        /\ t.users[d].visitor = room.users[d].visitor
        /\ t.users[d].owner = room.users[d].owner
        /\ d # c => t.users[d] = room.users[d]
    /\ t.sessions = room.sessions
    /\ t.closeOnOwnerLeave = room.closeOnOwnerLeave

\* Setting Streaming changes that field of that user alone.
LEMMA RoomStreamingFields ==
    ASSUME NEW room, IsRoom(room), NEW c \in DOMAIN room.users, NEW on
    PROVE  StreamingSet(room, RoomStreaming(room, c, on), c, on)
<1> DEFINE t == RoomStreaming(room, c, on)
<1>1. room.users[c] \in User
  BY DEF IsRoom, IsMap
<1>2. t.users = [room.users EXCEPT ![c].streaming = on]
  BY DEF RoomStreaming, IsRoom
<1>3. DOMAIN t.users = DOMAIN room.users
  BY <1>2
<1>4. t.users[c] = [room.users[c] EXCEPT !.streaming = on]
  BY <1>2
<1>5. /\ t.users[c].name = room.users[c].name
      /\ t.users[c].visitor = room.users[c].visitor
      /\ t.users[c].owner = room.users[c].owner
      /\ t.users[c].streaming = on
  BY <1>1, <1>4 DEF User
<1>6. \A d \in DOMAIN t.users : d # c => t.users[d] = room.users[d]
  BY <1>2, <1>3
<1>7. t.sessions = room.sessions /\ t.closeOnOwnerLeave = room.closeOnOwnerLeave
  BY DEF RoomStreaming, IsRoom
<1> HIDE DEF t
<1>8. StreamingSet(room, t, c, on)
  BY <1>3, <1>5, <1>6, <1>7 DEF StreamingSet
<1> QED BY <1>8 DEF t

\* Starting to stream keeps a room safe;
LEMMA RoomStreamingOnIsSafe ==
    ASSUME NEW room, IsRoom(room), RoomSafe(room), NEW c \in DOMAIN room.users
    PROVE  RoomSafe(RoomStreaming(room, c, TRUE))
<1> DEFINE t == RoomStreaming(room, c, TRUE)
<1>1. StreamingSet(room, t, c, TRUE)
  BY RoomStreamingFields
<1> HIDE DEF t
<1> USE DEF StreamingSet
<1>2. SessionsJoin(t)
  BY <1>1 DEF RoomSafe, SessionsJoin
<1>3. NamesIdentify(t)
  BY <1>1 DEF RoomSafe, NamesIdentify
<1>4. OwnedByOne(t)
  BY <1>1 DEF RoomSafe, OwnedByOne
<1>5. Attended(t)
  BY <1>1 DEF RoomSafe, Attended
<1> QED BY <1>2, <1>3, <1>4, <1>5 DEF RoomSafe, t

\* only the streamer's own stream has yet to reach anybody.
LEMMA RoomStreamingOnReaches ==
    ASSUME NEW room, IsRoom(room), NEW c \in DOMAIN room.users, ReachesBut(room, {})
    PROVE  ReachesBut(RoomStreaming(room, c, TRUE), {c})
<1> DEFINE t == RoomStreaming(room, c, TRUE)
<1>1. StreamingSet(room, t, c, TRUE)
  BY RoomStreamingFields
<1> HIDE DEF t
<1>2. ReachesBut(t, {c})
  BY <1>1 DEF StreamingSet, ReachesBut, Streamers
<1> QED BY <1>2 DEF t

\* Sessions between members, hosted by who streams, may be added.
LEMMA RoomShowingIsSafe ==
    ASSUME NEW room, IsRoom(room), RoomSafe(room), NEW new,
           \A s \in new : /\ s.host # s.client
                          /\ {s.host, s.client} \subseteq DOMAIN room.users
                          /\ room.users[s.host].streaming
    PROVE  RoomSafe(RoomShowing(room, new))
<1> DEFINE t == RoomShowing(room, new)
<1>1. /\ t.users = room.users
      /\ t.sessions = room.sessions \cup new
      /\ t.closeOnOwnerLeave = room.closeOnOwnerLeave
  BY DEF RoomShowing, IsRoom
<1> HIDE DEF t
<1>2. SessionsJoin(t)
  BY <1>1 DEF RoomSafe, SessionsJoin
<1>3. NamesIdentify(t) /\ OwnedByOne(t) /\ Attended(t)
  BY <1>1 DEF RoomSafe, NamesIdentify, OwnedByOne, Attended
<1> QED BY <1>2, <1>3 DEF RoomSafe, t

\* A session between two sets of connections has its ends in them,
LEMMA BetweenMembers ==
    ASSUME NEW H, NEW C, NEW n, NEW s \in SessionsBetween(H, C, n)
    PROVE  s.host \in H /\ s.client \in C
BY DEF SessionsBetween

\* and every pair has one.
LEMMA BetweenAll ==
    ASSUME NEW H, NEW C, NEW n, NEW h \in H, NEW c \in C
    PROVE  \E s \in SessionsBetween(H, C, n) : s.host = h /\ s.client = c
<1>1. [host |-> h, client |-> c, serial |-> n] \in SessionsBetween(H, C, n)
  BY DEF SessionsBetween
<1> QED BY <1>1

RoomStopped(room, c) ==
    [room EXCEPT !.users[c].streaming = FALSE, !.sessions = @ \ HostedBy(@, c)]

\* Ending a stream with its sessions keeps a room safe and the other streams where they were.
LEMMA RoomStoppedIsSafe ==
    ASSUME NEW room, IsRoom(room), RoomSafe(room), NEW c \in DOMAIN room.users,
           ReachesBut(room, {})
    PROVE  RoomSafe(RoomStopped(room, c)) /\ ReachesBut(RoomStopped(room, c), {})
<1> DEFINE off == RoomStreaming(room, c, FALSE)
           t   == RoomStopped(room, c)
<1>1. StreamingSet(room, off, c, FALSE)
  BY RoomStreamingFields
<1>2. /\ t.users = off.users
      /\ t.sessions = room.sessions \ HostedBy(room.sessions, c)
      /\ t.closeOnOwnerLeave = room.closeOnOwnerLeave
  BY DEF RoomStopped, RoomStreaming, IsRoom
<1> HIDE DEF t, off
<1> USE DEF StreamingSet
<1>3. SessionsJoin(t)
  BY <1>1, <1>2 DEF RoomSafe, SessionsJoin, HostedBy
<1>4. NamesIdentify(t)
  BY <1>1, <1>2 DEF RoomSafe, NamesIdentify
<1>5. OwnedByOne(t)
  BY <1>1, <1>2 DEF RoomSafe, OwnedByOne
<1>6. Attended(t)
  BY <1>1, <1>2 DEF RoomSafe, Attended
<1>7. ASSUME NEW h \in Streamers(t.users), NEW d \in DOMAIN t.users, h # d
      PROVE  \E s \in t.sessions : s.host = h /\ s.client = d
  <2>1. h # c /\ h \in Streamers(room.users) /\ d \in DOMAIN room.users
    BY <1>1, <1>2 DEF Streamers
  <2>2. PICK s \in room.sessions : s.host = h /\ s.client = d
    BY <1>7, <2>1 DEF ReachesBut
  <2> QED BY <1>2, <2>1, <2>2 DEF HostedBy
<1> QED BY <1>3, <1>4, <1>5, <1>6, <1>7 DEF RoomSafe, ReachesBut, t

-----------------------------------------------------------------------------
\* What the other handlers do to rooms and connections.

\* Notifying leaves rooms and connections as they are.
LEMMA NotifyShape ==
    ASSUME NEW s, IsState(s), NEW r
    PROVE  /\ NotifyInfoChanged(s, r).rooms = s.rooms
           /\ NotifyInfoChanged(s, r).connected = s.connected
BY NotifyEffect DEF Notifies, Tells

CreatedRoom(c, mode, close, v) ==
    NewRoom(mode, close, Put(Empty, c, NewUser(NormalizeVisitorID(v, c), 1, TRUE)))

RoomAppears(s, t, c, r, room) ==
    /\ t.rooms = Put(s.rooms, r, room)
    /\ t.connected = [s.connected EXCEPT ![c] = r]

\* Creating adds one room, with its creator in it.
LEMMA CreatedShape ==
    ASSUME NEW s, IsState(s), NEW c, NEW r, NEW mode, NEW close, NEW v
    PROVE  RoomAppears(s, Created(s, c, r, mode, close, v), c, r,
                       CreatedRoom(c, mode, close, v))
<1> DEFINE room == CreatedRoom(c, mode, close, v)
           t    == RoomAdded(s, c, r, room)
           u    == NotifyInfoChanged(t, r)
<1>1. Created(s, c, r, mode, close, v) = u
  BY DEF Created, CreatedRoom
<1> HIDE DEF room
<1>2. AddsRoom(s, t, c, r, room)
  BY RoomAddedEffect
<1> HIDE DEF t
<1>3. u.rooms = t.rooms /\ u.connected = t.connected
  BY <1>2, NotifyShape DEF AddsRoom
<1> HIDE DEF u
<1>4. RoomAppears(s, u, c, r, room)
  BY <1>2, <1>3 DEF AddsRoom, RoomAppears
<1> QED BY <1>1, <1>4 DEF room

JoinedUser(s, c, r, v, name) ==
    LET visitor == NormalizeVisitorID(v, c)
    IN  NewUser(visitor, name, VisitorOwner(s.rooms[r].users, visitor))

\* Joining adds one user to one room.
LEMMA JoinedShape ==
    ASSUME NEW s, IsState(s), NEW c, NEW r, NEW v, NEW name
    PROVE  /\ Joined(s, c, r, v, name).rooms =
                [s.rooms EXCEPT ![r] =
                    RoomWith(s.rooms[r], c, JoinedUser(s, c, r, v, name))]
           /\ Joined(s, c, r, v, name).connected = [s.connected EXCEPT ![c] = r]
<1> DEFINE user == JoinedUser(s, c, r, v, name)
           t    == UserAdded(s, c, r, user)
<1>1. Joined(s, c, r, v, name) = NotifyInfoChanged(t, r)
  BY DEF Joined, JoinedUser
<1> HIDE DEF user
<1>2. AddsUser(s, t, c, r, user)
  BY UserAddedEffect
<1> HIDE DEF t
<1>3. IsState(t) /\ t.rooms = [s.rooms EXCEPT ![r] = RoomWith(s.rooms[r], c, user)]
        /\ t.connected = [s.connected EXCEPT ![c] = r]
  BY <1>2 DEF AddsUser, RoomWith
<1> QED BY <1>1, <1>3, NotifyShape DEF user

\* The handler replaces room r and leaves the connections where they are.
RoomBecomes(s, t, r, room) ==
    /\ t.rooms = [s.rooms EXCEPT ![r] = room]
    /\ t.connected = s.connected

\* Opening sessions changes the one room.
LEMMA ShowingShape ==
    ASSUME NEW s, IsState(s), NEW r, NEW new
    PROVE  RoomBecomes(s, OpenSessions(s, r, new), r, RoomShowing(s.rooms[r], new))
<1> DEFINE t == OpenSessions(s, r, new)
<1>1. OpensSessions(s, t, r, new)
  BY OpenSessionsEffect
<1> HIDE DEF t
<1>2. RoomBecomes(s, t, r, RoomShowing(s.rooms[r], new))
  BY <1>1 DEF OpensSessions, RoomShowing, RoomBecomes
<1> QED BY <1>2 DEF t

\* So does setting Streaming,
LEMMA StreamingShape ==
    ASSUME NEW s, IsState(s), NEW c, NEW r, NEW on
    PROVE  /\ IsState(Streaming(s, c, r, on))
           /\ RoomBecomes(s, Streaming(s, c, r, on), r, RoomStreaming(s.rooms[r], c, on))
<1> DEFINE t == Streaming(s, c, r, on)
<1>1. SetsStreaming(s, t, c, r, on)
  BY StreamingEffect
<1> HIDE DEF t
<1>2. /\ IsState(t)
      /\ RoomBecomes(s, t, r, RoomStreaming(s.rooms[r], c, on))
  BY <1>1 DEF SetsStreaming, RoomStreaming, RoomBecomes
<1> QED BY <1>2 DEF t

\* and so does ending a stream.
LEMMA StoppedShape ==
    ASSUME NEW s, StateType(s), NEW r \in DOMAIN s.rooms, NEW c
    PROVE  RoomBecomes(s, Stopped(s, c, r), r, RoomStopped(s.rooms[r], c))
<1> DEFINE old == HostedBy(s.rooms[r].sessions, c)
           C   == DOMAIN s.rooms[r].users
           on  == Streaming(s, c, r, FALSE)
           off == EndShare(on, C, old)
           t   == CloseSessions(off, r, old)
<1>1. Stopped(s, c, r) = NotifyInfoChanged(t, r)
  BY DEF Stopped
<1>2. SetsStreaming(s, on, c, r, FALSE)
  BY StreamingEffect DEF StateType
<1> HIDE DEF on, C
<1>3. EndsForOthers(on, off, C, old)
  BY <1>2, EndShareEffect DEF SetsStreaming
<1> HIDE DEF off
<1>4. ClosesSessions(off, t, r, old)
  BY <1>3, CloseSessionsEffect DEF EndsForOthers, Tells
<1> HIDE DEF t
<1>5. IsState(t) /\ t.connected = s.connected
  BY <1>2, <1>3, <1>4 DEF SetsStreaming, EndsForOthers, Tells, ClosesSessions
<1>6. /\ off.rooms = [s.rooms EXCEPT ![r].users[c].streaming = FALSE]
      /\ t.rooms = [off.rooms EXCEPT ![r].sessions = @ \ old]
  BY <1>2, <1>3, <1>4 DEF SetsStreaming, EndsForOthers, Tells, ClosesSessions
<1>7. IsRoom(s.rooms[r]) /\ s.rooms = [q \in DOMAIN s.rooms |-> s.rooms[q]]
  BY DEF StateType, RoomsType
<1>8. t.rooms = [s.rooms EXCEPT ![r] = RoomStopped(s.rooms[r], c)]
  <2> DEFINE U == [s.rooms[r].users EXCEPT ![c].streaming = FALSE]
             S == s.rooms[r].sessions \ old
  <2>1. off.rooms = [s.rooms EXCEPT ![r].users = U]
    BY <1>6
  <2>2. RoomStopped(s.rooms[r], c) = [s.rooms[r] EXCEPT !.users = U, !.sessions = S]
    BY DEF RoomStopped
  <2> HIDE DEF U, old
  <2>3. off.rooms[r].sessions = s.rooms[r].sessions
    <3>1. off.rooms[r] = [s.rooms[r] EXCEPT !.users = U]
      BY <2>1, <1>7
    <3> QED BY <3>1, <1>7 DEF IsRoom
  <2>4. t.rooms = [off.rooms EXCEPT ![r].sessions = S]
    BY <1>6, <2>3
  <2> HIDE DEF S
  <2>5. t.rooms = [s.rooms EXCEPT ![r] = [s.rooms[r] EXCEPT !.users = U, !.sessions = S]]
    BY <2>1, <2>4, <1>7, UsersThenSessions
  <2> QED BY <2>2, <2>5
<1> QED BY <1>1, <1>5, <1>8, NotifyShape DEF RoomBecomes

-----------------------------------------------------------------------------
\* The invariant, of a state taken as a value.

RoomsSafe(s) == \A r \in DOMAIN s.rooms : RoomSafe(s.rooms[r])

Safe(s) == StateType(s) /\ Matches(s) /\ RoomsSafe(s)

Reaches(s, X) == \A r \in DOMAIN s.rooms : ReachesBut(s.rooms[r], X)

\* A connection is a user of no room but the one it is connected to.
LEMMA InOneRoom ==
    ASSUME NEW s, Matches(s), NEW c, NEW r \in DOMAIN s.rooms,
           c \in DOMAIN s.connected => s.connected[c] # r
    PROVE  c \notin DOMAIN s.rooms[r].users
BY DEF Matches

\* Who is not in a room misses nothing there.
LEMMA ReachesWithoutOutsider ==
    ASSUME NEW room, NEW c, c \notin DOMAIN room.users, ReachesBut(room, {c})
    PROVE  ReachesBut(room, {})
BY DEF ReachesBut, Streamers

\* The end of a connection keeps the invariant, also that of a newcomer who was shown nothing yet.
LEMMA DroppedIsSafe ==
    ASSUME NEW s, Safe(s), NEW c \in DOMAIN s.connected, Reaches(s, {c})
    PROVE  Safe(Dropped(s, c)) /\ Reaches(Dropped(s, c), {})
<1> DEFINE r == s.connected[c]
           t == Dropped(s, c)
           room == RoomWithout(s.rooms[r], c)
<1>1. StateType(t) /\ Leaves(s, t, c)
  BY DroppedType, DroppedShape DEF Safe
<1> HIDE DEF t
<1>2. \A q \in DOMAIN s.rooms : q # r => ReachesBut(s.rooms[q], {})
  BY InOneRoom, ReachesWithoutOutsider DEF Safe, Reaches
<1>3. NoRoom \notin DOMAIN s.rooms
  BY RoomIdAssumption DEF Safe, StateType, RoomsType
<1>4. CASE /\ r = NoRoom
           /\ t.rooms = s.rooms
           /\ t.connected = Without(s.connected, {c})
  <2>1. Matches(t)
    BY <1>3, <1>4 DEF Safe, Matches, Without
  <2>2. RoomsSafe(t)
    BY <1>4 DEF Safe, RoomsSafe
  <2>3. Reaches(t, {})
    BY <1>2, <1>3, <1>4 DEF Reaches
  <2> QED BY <1>1, <2>1, <2>2, <2>3 DEF Safe, t
<1>5. CASE /\ r # NoRoom
           /\ DOMAIN s.rooms[r].users # {c}
           /\ ~OwnerGone(room, s.rooms[r].users[c])
           /\ t.rooms = [s.rooms EXCEPT ![r] = room]
           /\ t.connected = Without(s.connected, {c})
  <2>1. r \in DOMAIN s.rooms /\ c \in DOMAIN s.rooms[r].users
    BY <1>5 DEF Safe, Matches
  <2>2. IsRoom(s.rooms[r]) /\ RoomSafe(s.rooms[r]) /\ ReachesBut(s.rooms[r], {c})
    BY <2>1 DEF Safe, StateType, RoomsType, RoomsSafe, Reaches
  <2>3. RoomSafe(room) /\ ReachesBut(room, {})
    BY <1>5, <2>1, <2>2, RoomWithoutIsSafe, RoomWithoutReaches
  <2>4. DOMAIN room.users = DOMAIN s.rooms[r].users \ {c}
    BY <2>2 DEF RoomWithout, IsRoom, Without
  <2> HIDE DEF room, r
  <2>5. Matches(t)
    <3>1. DOMAIN t.rooms = DOMAIN s.rooms
      BY <1>5
    <3>2. \A q \in DOMAIN s.rooms :
            DOMAIN t.rooms[q].users = DOMAIN s.rooms[q].users \ {c}
      BY <1>5, <2>1, <2>4, InOneRoom DEF Safe, r
    <3> QED BY <1>5, <3>1, <3>2 DEF Safe, Matches, Without
  <2>6. \A q \in DOMAIN t.rooms : t.rooms[q] = IF q = r THEN room ELSE s.rooms[q]
    BY <1>5, <2>1
  <2>7. RoomsSafe(t)
    BY <1>5, <2>3, <2>6 DEF Safe, RoomsSafe
  <2>8. Reaches(t, {})
    BY <1>2, <1>5, <2>3, <2>6 DEF Reaches, r
  <2> QED BY <1>1, <2>5, <2>7, <2>8 DEF Safe, t
<1>6. CASE /\ r # NoRoom
           /\ t.rooms = Without(s.rooms, {r})
           /\ t.connected = Without(s.connected, DOMAIN s.rooms[r].users)
  <2>1. r \in DOMAIN s.rooms
    BY <1>6 DEF Safe, Matches
  <2>2. Matches(t)
    <3>1. /\ DOMAIN t.rooms = DOMAIN s.rooms \ {r}
          /\ \A q \in DOMAIN t.rooms : t.rooms[q] = s.rooms[q]
          /\ DOMAIN t.connected = DOMAIN s.connected \ DOMAIN s.rooms[r].users
          /\ \A d \in DOMAIN t.connected : t.connected[d] = s.connected[d]
      BY <1>6 DEF Without
    <3>2. \A d \in DOMAIN t.connected : t.connected[d] # r
      BY <3>1, <1>6 DEF Safe, Matches
    <3>3. \A q \in DOMAIN t.rooms : \A d \in DOMAIN t.rooms[q].users :
            d \in DOMAIN s.connected /\ s.connected[d] = q
      BY <3>1 DEF Safe, Matches
    <3> HIDE DEF r
    <3>4. \A q \in DOMAIN t.rooms : \A d \in DOMAIN t.rooms[q].users :
            d \in DOMAIN t.connected /\ t.connected[d] = q
      BY <2>1, <3>1, <3>3 DEF Safe, Matches
    <3>5. \A d \in DOMAIN t.connected : t.connected[d] # NoRoom =>
            t.connected[d] \in DOMAIN t.rooms
                /\ d \in DOMAIN t.rooms[t.connected[d]].users
      BY <3>1, <3>2 DEF Safe, Matches
    <3> QED BY <3>4, <3>5 DEF Matches
  <2>3. \A q \in DOMAIN t.rooms : q # r /\ q \in DOMAIN s.rooms /\ t.rooms[q] = s.rooms[q]
    BY <1>6 DEF Without
  <2>4. RoomsSafe(t)
    BY <2>3 DEF Safe, RoomsSafe
  <2>5. Reaches(t, {})
    BY <1>2, <2>3 DEF Reaches
  <2> QED BY <1>1, <2>2, <2>4, <2>5 DEF Safe, t
<1> QED BY <1>1, <1>4, <1>5, <1>6, Zenon DEF Leaves

\* One room is replaced, its members are the same.
LEMMA RoomReplacedIsSafe ==
    ASSUME NEW s, Safe(s), NEW r \in DOMAIN s.rooms, NEW room, RoomSafe(room),
           DOMAIN room.users = DOMAIN s.rooms[r].users,
           NEW t, StateType(t), t.connected = s.connected,
           t.rooms = [s.rooms EXCEPT ![r] = room]
    PROVE  Safe(t)
<1>1. /\ DOMAIN t.rooms = DOMAIN s.rooms
      /\ \A q \in DOMAIN t.rooms : t.rooms[q] = IF q = r THEN room ELSE s.rooms[q]
  OBVIOUS
<1>2. \A q \in DOMAIN t.rooms : DOMAIN t.rooms[q].users = DOMAIN s.rooms[q].users
  BY <1>1
<1>3. Matches(t)
  BY <1>1, <1>2 DEF Safe, Matches
<1>4. RoomsSafe(t)
  BY <1>1 DEF Safe, RoomsSafe
<1> QED BY <1>3, <1>4 DEF Safe

\* Exchanging one room, the streams of the others being where they were.
LEMMA RoomReplacedReaches ==
    ASSUME NEW s, NEW r \in DOMAIN s.rooms, NEW X, Reaches(s, X), NEW room, NEW Y,
           ReachesBut(room, Y), \A q \in DOMAIN s.rooms \ {r} : ReachesBut(s.rooms[q], Y),
           NEW t, t.rooms = [s.rooms EXCEPT ![r] = room]
    PROVE  Reaches(t, Y)
BY DEF Reaches

\* Leaving somebody out asks for less.
LEMMA ReachesButMore ==
    ASSUME NEW room, NEW c, ReachesBut(room, {})
    PROVE  ReachesBut(room, {c})
BY DEF ReachesBut

\* Creating a room keeps the invariant.
LEMMA CreatedIsSafe ==
    ASSUME NEW s, Safe(s), Reaches(s, {}), NEW c \in DOMAIN s.connected,
           s.connected[c] = NoRoom, NEW r \in RoomId, r \notin DOMAIN s.rooms,
           NEW mode \in Mode, NEW close \in BOOLEAN, NEW v \in Visitor \cup {Blank}
    PROVE  /\ Safe(Created(s, c, r, mode, close, v))
           /\ Reaches(Created(s, c, r, mode, close, v), {})
<1> DEFINE t    == Created(s, c, r, mode, close, v)
           room == CreatedRoom(c, mode, close, v)
<1>1. StateType(t)
  BY CreatedType DEF Safe
<1>2. t.rooms = Put(s.rooms, r, room) /\ t.connected = [s.connected EXCEPT ![c] = r]
  <2>1. RoomAppears(s, t, c, r, room)
    BY CreatedShape DEF Safe, StateType
  <2> HIDE DEF t, room
  <2> QED BY <2>1 DEF RoomAppears
<1>3. RoomSafe(room) /\ ReachesBut(room, {})
  BY NewRoomIsSafe DEF CreatedRoom
<1>4. DOMAIN room.users = {c}
  BY DEF CreatedRoom, NewRoom, Put, Empty
<1> HIDE DEF t, room
<1>5. /\ DOMAIN t.rooms = DOMAIN s.rooms \cup {r}
      /\ \A q \in DOMAIN t.rooms : t.rooms[q] = IF q = r THEN room ELSE s.rooms[q]
  BY <1>2 DEF Put
<1>6. \A q \in DOMAIN s.rooms : c \notin DOMAIN s.rooms[q].users
  BY RoomIdAssumption DEF Safe, Matches, StateType, RoomsType
<1>7. NoRoom # r
  BY RoomIdAssumption
<1>8. Matches(t)
  <2>1. /\ DOMAIN t.connected = DOMAIN s.connected
        /\ \A d \in DOMAIN t.connected :
                t.connected[d] = IF d = c THEN r ELSE s.connected[d]
    BY <1>2
  <2> QED BY <1>4, <1>5, <1>6, <1>7, <2>1 DEF Safe, Matches
<1>9. RoomsSafe(t)
  BY <1>3, <1>5 DEF Safe, RoomsSafe
<1>10. Reaches(t, {})
  BY <1>3, <1>5 DEF Reaches
<1> QED BY <1>1, <1>8, <1>9, <1>10 DEF Safe, t

\* Joining does, but for the streams the newcomer has yet to be shown.
LEMMA JoinedIsSafe ==
    ASSUME NEW s, Safe(s), Reaches(s, {}), NEW c \in DOMAIN s.connected,
           s.connected[c] = NoRoom, NEW r \in DOMAIN s.rooms,
           NEW v \in Visitor \cup {Blank},
           NEW name \in NextGuestNames(s.rooms[r].users, NormalizeVisitorID(v, c)),
           NEW t, t = Joined(s, c, r, v, name)
    PROVE  /\ Safe(t) /\ Reaches(t, {c})
           /\ DOMAIN t.rooms = DOMAIN s.rooms
           /\ t.connected = [s.connected EXCEPT ![c] = r]
           /\ c \in DOMAIN t.rooms[r].users
           /\ ~t.rooms[r].users[c].streaming
<1> DEFINE user == JoinedUser(s, c, r, v, name)
           room == RoomWith(s.rooms[r], c, user)
           vis  == NormalizeVisitorID(v, c)
<1>1. IsRoom(s.rooms[r]) /\ RoomSafe(s.rooms[r]) /\ ReachesBut(s.rooms[r], {})
  BY DEF Safe, StateType, RoomsType, RoomsSafe, Reaches
<1>2. StateType(t)
  <2>1. name \in Nat \ {0}
    BY <1>1, NewNames
  <2> QED BY <2>1, JoinedType DEF Safe
<1>3. /\ t.rooms = [s.rooms EXCEPT ![r] = room]
      /\ t.connected = [s.connected EXCEPT ![c] = r]
  BY JoinedShape DEF Safe, StateType
<1>4. \A q \in DOMAIN s.rooms : c \notin DOMAIN s.rooms[q].users
  BY RoomIdAssumption DEF Safe, Matches, StateType, RoomsType
<1>5. user = NewUser(vis, name, VisitorOwner(s.rooms[r].users, vis))
  BY DEF JoinedUser
<1>6. ~user.streaming
  BY <1>5 DEF NewUser
<1>7. DOMAIN room.users = DOMAIN s.rooms[r].users \cup {c}
  BY <1>1 DEF RoomWith, IsRoom, Put
<1> HIDE DEF user, vis
<1>8. RoomSafe(room)
  BY <1>1, <1>4, <1>5, RoomWithIsSafe DEF vis
<1>9. ReachesBut(room, {c})
  BY <1>1, <1>4, <1>6, RoomWithReaches
<1> HIDE DEF room
<1>10. /\ DOMAIN t.rooms = DOMAIN s.rooms
       /\ \A q \in DOMAIN t.rooms : t.rooms[q] = IF q = r THEN room ELSE s.rooms[q]
  BY <1>3
<1>11. Matches(t)
  <2>1. NoRoom # r
    BY RoomIdAssumption DEF Safe, StateType, RoomsType
  <2>2. \A d \in DOMAIN t.connected :
            t.connected[d] = IF d = c THEN r ELSE s.connected[d]
    BY <1>3
  <2>3. DOMAIN t.connected = DOMAIN s.connected
    BY <1>3
  <2> QED BY <1>4, <1>7, <1>10, <2>1, <2>2, <2>3 DEF Safe, Matches
<1>12. RoomsSafe(t)
  BY <1>8, <1>10 DEF Safe, RoomsSafe
<1>13. Reaches(t, {c})
  BY <1>9, <1>10, ReachesButMore DEF Reaches
<1>14. ~room.users[c].streaming
  BY <1>1, <1>6 DEF RoomWith, IsRoom, Put, room
<1> QED BY <1>2, <1>3, <1>7, <1>10, <1>11, <1>12, <1>13, <1>14 DEF Safe

\* A connection that misses streams misses them in its own room.
LEMMA OutsidersReached ==
    ASSUME NEW s, Safe(s), NEW c, Reaches(s, {c}), NEW r, s.connected[c] = r
    PROVE  \A q \in DOMAIN s.rooms \ {r} : ReachesBut(s.rooms[q], {})
<1> SUFFICES ASSUME NEW q \in DOMAIN s.rooms \ {r} PROVE ReachesBut(s.rooms[q], {})
  OBVIOUS
<1>1. c \notin DOMAIN s.rooms[q].users
  BY InOneRoom DEF Safe
<1> QED BY <1>1, ReachesWithoutOutsider DEF Reaches

\* Join after the newcomer is in: every stream is shown to it.
LEMMA ShownToIsSafe ==
    ASSUME NEW s, Safe(s), NEW r \in DOMAIN s.rooms, NEW c \in DOMAIN s.rooms[r].users,
           s.connected[c] = r, Reaches(s, {c}), ~s.rooms[r].users[c].streaming,
           NEW n \in Serial
    PROVE  Safe(ShownTo(s, c, r, n)) /\ Reaches(ShownTo(s, c, r, n), {})
<1> DEFINE was  == s.rooms[r]
           H    == Streamers(was.users) \ {c}
           new  == SessionsBetween(H, {c}, n)
           t    == OpenSessions(s, r, new)
           room == RoomShowing(was, new)
<1>1. IsRoom(was) /\ RoomSafe(was) /\ ReachesBut(was, {c})
  BY DEF Safe, StateType, RoomsType, RoomsSafe, Reaches
<1>2. c \in Client
  BY <1>1 DEF IsRoom, IsMap
<1>3. ShownTo(s, c, r, n) = t
  BY DEF ShownTo
<1>4. StateType(t)
  BY <1>2, <1>3, ShownToType DEF Safe
<1>5. t.rooms = [s.rooms EXCEPT ![r] = room] /\ t.connected = s.connected
  <2>1. RoomBecomes(s, t, r, room)
    BY ShowingShape DEF Safe, StateType
  <2> HIDE DEF t, room
  <2> QED BY <2>1 DEF RoomBecomes
<1>6. \A x \in new : x.host \in H /\ x.client = c
  BY BetweenMembers
<1>7. \A h \in H : \E x \in new : x.host = h /\ x.client = c
  BY BetweenAll
<1>8. room.users = was.users /\ room.sessions = was.sessions \cup new
  BY <1>1 DEF RoomShowing, IsRoom
<1> HIDE DEF t, new, room, was
<1>9. RoomSafe(room)
  BY <1>1, <1>6, RoomShowingIsSafe DEF Streamers, room, was
<1>10. ReachesBut(room, {})
  BY <1>1, <1>7, <1>8 DEF ReachesBut, Streamers, was
<1>11. Safe(t)
  BY <1>4, <1>5, <1>8, <1>9, RoomReplacedIsSafe DEF was
<1>12. Reaches(t, {})
  BY <1>5, <1>10, OutsidersReached, RoomReplacedReaches
<1> QED BY <1>3, <1>11, <1>12

\* StartShare, first half: the user streams, nobody sees it yet.
LEMMA StreamingOnIsSafe ==
    ASSUME NEW s, Safe(s), Reaches(s, {}), NEW r \in DOMAIN s.rooms,
           NEW c \in DOMAIN s.rooms[r].users
    PROVE  Safe(Streaming(s, c, r, TRUE)) /\ Reaches(Streaming(s, c, r, TRUE), {c})
<1> DEFINE was  == s.rooms[r]
           t    == Streaming(s, c, r, TRUE)
           room == RoomStreaming(was, c, TRUE)
<1>1. IsRoom(was) /\ RoomSafe(was) /\ ReachesBut(was, {})
  BY DEF Safe, StateType, RoomsType, RoomsSafe, Reaches
<1>2. StateType(t)
  BY StreamingType, StreamingEffect DEF Safe, StateType
<1>3. t.rooms = [s.rooms EXCEPT ![r] = room] /\ t.connected = s.connected
  <2>1. RoomBecomes(s, t, r, room)
    BY StreamingShape DEF Safe, StateType
  <2> HIDE DEF t, room
  <2> QED BY <2>1 DEF RoomBecomes
<1>4. RoomSafe(room) /\ ReachesBut(room, {c})
  BY <1>1, RoomStreamingOnIsSafe, RoomStreamingOnReaches
<1>5. DOMAIN room.users = DOMAIN s.rooms[r].users
  BY <1>1 DEF RoomStreaming, IsRoom
<1> HIDE DEF t, room, was
<1>6. Safe(t)
  BY <1>2, <1>3, <1>4, <1>5, RoomReplacedIsSafe
<1>7. \A q \in DOMAIN s.rooms \ {r} : ReachesBut(s.rooms[q], {c})
  BY ReachesButMore DEF Reaches
<1>8. Reaches(t, {c})
  BY <1>3, <1>4, <1>7, RoomReplacedReaches
<1> QED BY <1>6, <1>8 DEF t

\* StartShare: and everyone else in the room sees it.
SharedSafely(s, shown) ==
    Safe(shown) /\ Reaches(shown, {}) /\ DOMAIN shown.rooms = DOMAIN s.rooms

Shared(s, c, r, n) == Shown(Streaming(s, c, r, TRUE), c, r, n)

\* StartShare, when it succeeds, keeps the invariant.
LEMMA ShownIsSafe ==
    ASSUME NEW s, Safe(s), Reaches(s, {}), NEW r \in DOMAIN s.rooms,
           NEW c \in DOMAIN s.rooms[r].users, NEW n \in Serial
    PROVE  SharedSafely(s, Shared(s, c, r, n))
<1> DEFINE was  == s.rooms[r]
           on   == Streaming(s, c, r, TRUE)
           mid  == RoomStreaming(was, c, TRUE)
           new  == SessionsBetween({c}, DOMAIN on.rooms[r].users \ {c}, n)
           t    == OpenSessions(on, r, new)
           room == RoomShowing(mid, new)
<1>1. IsRoom(was) /\ RoomSafe(was) /\ ReachesBut(was, {})
  BY DEF Safe, StateType, RoomsType, RoomsSafe, Reaches
<1>2. Safe(on)
  BY StreamingOnIsSafe
<1>3. /\ on.rooms = [s.rooms EXCEPT ![r] = mid]
      /\ on.connected = s.connected
  <2>1. RoomBecomes(s, on, r, mid)
    BY StreamingShape DEF Safe, StateType
  <2> HIDE DEF mid, on
  <2> QED BY <2>1 DEF RoomBecomes
<1>4. StreamingSet(was, mid, c, TRUE)
  BY <1>1, RoomStreamingFields
<1>5. IsRoom(mid) /\ RoomSafe(mid)
  <2>1. on.rooms[r] = mid /\ r \in DOMAIN on.rooms
    BY <1>3
  <2> HIDE DEF mid, on
  <2> QED BY <1>2, <2>1 DEF Safe, StateType, RoomsType, RoomsSafe
<1>6. c \in Client
  BY <1>1 DEF IsRoom, IsMap
<1> HIDE DEF mid, on
<1>7. on.rooms[r] = mid /\ DOMAIN on.rooms = DOMAIN s.rooms
  BY <1>3
<1>8. Shown(on, c, r, n) = t
  BY DEF Shown
<1>9. StateType(t)
  BY <1>2, <1>6, <1>7, <1>8, ShownType DEF Safe
<1>10. t.rooms = [on.rooms EXCEPT ![r] = room] /\ t.connected = on.connected
  <2>1. RoomBecomes(on, t, r, room)
    BY <1>2, <1>7, ShowingShape DEF Safe, StateType
  <2> HIDE DEF t, room
  <2> QED BY <2>1 DEF RoomBecomes
<1>11. \A x \in new : x.host = c /\ x.client \in DOMAIN mid.users \ {c}
  BY <1>7, BetweenMembers
<1>12. \A d \in DOMAIN mid.users \ {c} : \E x \in new : x.host = c /\ x.client = d
  <2> DEFINE D == DOMAIN mid.users \ {c}
  <2>1. new = SessionsBetween({c}, D, n)
    BY <1>7
  <2> HIDE DEF new, D
  <2>2. \A d \in D : \E x \in new : x.host = c /\ x.client = d
    BY <2>1, BetweenAll
  <2> QED BY <2>2 DEF D
<1>13. room.users = mid.users /\ room.sessions = mid.sessions \cup new
  BY <1>5 DEF RoomShowing, IsRoom
<1> HIDE DEF t, new, room, was
<1>14. RoomSafe(room)
  BY <1>4, <1>5, <1>11, RoomShowingIsSafe DEF StreamingSet, was, room
<1>15. ReachesBut(room, {})
  <2> SUFFICES ASSUME NEW h \in Streamers(room.users), NEW d \in DOMAIN room.users, h # d
               PROVE  \E x \in room.sessions : x.host = h /\ x.client = d
    BY DEF ReachesBut
  <2>1. CASE h = c
    BY <1>12, <1>13, <2>1
  <2>2. CASE h # c
    <3>1. h \in Streamers(was.users) /\ d \in DOMAIN was.users
      BY <1>4, <1>13, <2>2 DEF StreamingSet, Streamers
    <3> QED BY <1>1, <1>4, <1>13, <3>1 DEF ReachesBut, StreamingSet
  <2> QED BY <2>1, <2>2
<1>16. DOMAIN room.users = DOMAIN on.rooms[r].users
  BY <1>7, <1>13
<1>17. Safe(t)
  BY <1>2, <1>7, <1>9, <1>10, <1>14, <1>16, RoomReplacedIsSafe
<1>18. Reaches(t, {})
  <2>1. \A q \in DOMAIN s.rooms \ {r} : ReachesBut(s.rooms[q], {})
    BY DEF Reaches
  <2>2. t.rooms = [s.rooms EXCEPT ![r] = room]
    BY <1>3, <1>10
  <2> QED BY <1>15, <2>1, <2>2, RoomReplacedReaches
<1> QED BY <1>7, <1>8, <1>10, <1>17, <1>18 DEF on, Shared, SharedSafely

\* Ending a stream keeps the invariant.
LEMMA StoppedIsSafe ==
    ASSUME NEW s, Safe(s), Reaches(s, {}), NEW r \in DOMAIN s.rooms,
           NEW c \in DOMAIN s.rooms[r].users
    PROVE  Safe(Stopped(s, c, r)) /\ Reaches(Stopped(s, c, r), {})
<1> DEFINE was  == s.rooms[r]
           t    == Stopped(s, c, r)
           room == RoomStopped(was, c)
<1>1. IsRoom(was) /\ RoomSafe(was) /\ ReachesBut(was, {})
  BY DEF Safe, StateType, RoomsType, RoomsSafe, Reaches
<1>2. StateType(t)
  BY StoppedType DEF Safe
<1>3. t.rooms = [s.rooms EXCEPT ![r] = room] /\ t.connected = s.connected
  <2>1. RoomBecomes(s, t, r, room)
    BY StoppedShape DEF Safe
  <2> HIDE DEF t, room
  <2> QED BY <2>1 DEF RoomBecomes
<1>4. RoomSafe(room) /\ ReachesBut(room, {})
  BY <1>1, RoomStoppedIsSafe
<1>5. DOMAIN room.users = DOMAIN s.rooms[r].users
  BY <1>1 DEF RoomStopped, IsRoom
<1> HIDE DEF t, room, was
<1>6. Safe(t)
  BY <1>2, <1>3, <1>4, <1>5, RoomReplacedIsSafe
<1>7. \A q \in DOMAIN s.rooms \ {r} : ReachesBut(s.rooms[q], {})
  BY DEF Reaches
<1>8. Reaches(t, {})
  BY <1>3, <1>4, <1>7, RoomReplacedReaches
<1> QED BY <1>6, <1>8 DEF t

\* Notifying keeps the invariant.
LEMMA NotifiedIsSafe ==
    ASSUME NEW s, Safe(s), Reaches(s, {}), NEW r \in DOMAIN s.rooms
    PROVE  Safe(NotifyInfoChanged(s, r)) /\ Reaches(NotifyInfoChanged(s, r), {})
<1> DEFINE t == NotifyInfoChanged(s, r)
<1>1. Notifies(s, t, r)
  BY NotifyEffect DEF Safe, StateType
<1> HIDE DEF t
<1>2. StateType(t)
  BY <1>1, NotifyType DEF Safe
<1>3. t.rooms = s.rooms /\ t.connected = s.connected
  BY <1>1 DEF Notifies, Tells
<1> QED BY <1>2, <1>3 DEF Safe, Matches, RoomsSafe, Reaches, t

-----------------------------------------------------------------------------
\* The invariant of the loop.

IInv ==
    /\ TypeOK
    /\ ConnectedMatchesRooms
    /\ SessionsJoinMembers
    /\ StreamReachesEveryone
    /\ GuestNamesIdentifyVisitors
    /\ OwnerIsOneVisitor
    /\ RoomsAreAttended

\* The invariant, said of the state as a value.
LEMMA IInvOfNow == IInv => Safe(Now) /\ Reaches(Now, {})
<1> SUFFICES ASSUME IInv PROVE Safe(Now) /\ Reaches(Now, {})
  OBVIOUS
<1>1. StateType(Now)
  BY TypeOfNow DEF IInv
<1>2. Matches(Now)
  BY NowFields DEF IInv, ConnectedMatchesRooms, Matches
<1>3. RoomsSafe(Now)
  <2> SUFFICES ASSUME NEW r \in DOMAIN rooms PROVE RoomSafe(rooms[r])
    BY NowFields DEF RoomsSafe
  <2>1. SessionsJoin(rooms[r])
    BY DEF IInv, SessionsJoinMembers, SessionsJoin
  <2>2. NamesIdentify(rooms[r])
    BY DEF IInv, GuestNamesIdentifyVisitors, NamesIdentify
  <2>3. OwnedByOne(rooms[r])
    BY DEF IInv, OwnerIsOneVisitor, OwnedByOne
  <2>4. Attended(rooms[r])
    BY DEF IInv, RoomsAreAttended, Attended
  <2> QED BY <2>1, <2>2, <2>3, <2>4 DEF RoomSafe
<1>4. Reaches(Now, {})
  BY NowFields DEF IInv, StreamReachesEveryone, Reaches, ReachesBut
<1> QED BY <1>1, <1>2, <1>3, <1>4 DEF Safe

\* A handler that yields a safe state keeps the invariant.
LEMMA BecomeSafe ==
    ASSUME NEW s, Safe(s), Reaches(s, {}), Become(s)
    PROVE  IInv'
<1>1. /\ rooms' = s.rooms /\ connected' = s.connected /\ lookup' = s.lookup
      /\ told' = s.told /\ metrics' = s.metrics
  BY DEF Become
<1>2. TypeOK'
  BY <1>1 DEF Safe, StateType, RoomsType, ConnectedType, ToldType, TypeOK
<1>3. ConnectedMatchesRooms'
  BY <1>1 DEF Safe, Matches, ConnectedMatchesRooms
<1>4. StreamReachesEveryone'
  BY <1>1 DEF Reaches, ReachesBut, StreamReachesEveryone
<1>5. \A r \in DOMAIN rooms' : RoomSafe(rooms'[r])
  BY <1>1 DEF Safe, RoomsSafe
<1>6. SessionsJoinMembers'
  BY <1>5 DEF RoomSafe, SessionsJoin, SessionsJoinMembers
<1>7. GuestNamesIdentifyVisitors'
  BY <1>5 DEF RoomSafe, NamesIdentify, GuestNamesIdentifyVisitors
<1>8. OwnerIsOneVisitor'
  BY <1>5 DEF RoomSafe, OwnedByOne, OwnerIsOneVisitor
<1>9. RoomsAreAttended'
  BY <1>5 DEF RoomSafe, Attended, RoomsAreAttended
<1> QED BY <1>2, <1>3, <1>4, <1>6, <1>7, <1>8, <1>9 DEF IInv

\* The invariant holds when the server starts.
LEMMA InitSafe == Init => IInv
<1> SUFFICES ASSUME Init PROVE IInv
  OBVIOUS
<1>1. DOMAIN rooms = {} /\ DOMAIN connected = {}
  BY DEF Init, Empty
<1>2. TypeOK
  <2>1. \A c \in Client : IsTold(told[c])
    BY DEF Init, IsTold, Gone, Empty, IsMap
  <2>2. rooms = [r \in DOMAIN rooms |-> rooms[r]]
    BY DEF Init, Empty
  <2>3. IsMap(connected, Client, RoomId \cup {NoRoom})
    BY DEF Init, Empty, IsMap
  <2>4. lookup \subseteq Credential /\ metrics \in MetricsType
    BY DEF Init, MetricsType
  <2>5. told = [c \in Client |-> told[c]]
    BY DEF Init
  <2> QED BY <1>1, <2>1, <2>2, <2>3, <2>4, <2>5 DEF TypeOK
<1> QED
  BY <1>1, <1>2 DEF IInv, ConnectedMatchesRooms, SessionsJoinMembers,
     StreamReachesEveryone, GuestNamesIdentifyVisitors, OwnerIsOneVisitor, RoomsAreAttended

\* Nothing happens.
LEMMA StutterSafe == IInv /\ UNCHANGED vars => IInv'
BY DEF vars, IInv, TypeOK, ConnectedMatchesRooms, SessionsJoinMembers,
       StreamReachesEveryone, GuestNamesIdentifyVisitors, OwnerIsOneVisitor, RoomsAreAttended

\* Connected keeps the invariant.
LEMMA ConnectSafe ==
    ASSUME IInv, NEW c \in Client, Connect(c)
    PROVE  IInv'
<1>1. /\ c \notin DOMAIN connected
      /\ connected' = Put(connected, c, NoRoom)
      /\ told' = [told EXCEPT ![c] = Fresh]
      /\ rooms' = rooms /\ lookup' = lookup /\ metrics' = metrics
  BY DEF Connect
<1>2. TypeOK'
  <2>1. IsMap(connected', Client, RoomId \cup {NoRoom})
    BY <1>1, PutType DEF IInv, TypeOK
  <2>2. IsTold(Fresh)
    BY DEF IsTold, Fresh, Empty, IsMap
  <2>3. told' = [d \in Client |-> told'[d]] /\ \A d \in Client : IsTold(told'[d])
    BY <1>1, <2>2 DEF IInv, TypeOK
  <2> QED BY <1>1, <2>1, <2>3 DEF IInv, TypeOK
<1>3. ConnectedMatchesRooms'
  <2>1. /\ DOMAIN connected' = DOMAIN connected \cup {c}
        /\ \A d \in DOMAIN connected' :
                connected'[d] = IF d = c THEN NoRoom ELSE connected[d]
    BY <1>1 DEF Put
  <2> QED BY <1>1, <2>1 DEF IInv, ConnectedMatchesRooms
<1>4. SessionsJoinMembers' /\ RoomsAreAttended'
  BY <1>1 DEF IInv, SessionsJoinMembers, RoomsAreAttended
<1>5. StreamReachesEveryone'
  BY <1>1 DEF IInv, StreamReachesEveryone
<1>6. GuestNamesIdentifyVisitors' /\ OwnerIsOneVisitor'
  BY <1>1 DEF IInv, GuestNamesIdentifyVisitors, OwnerIsOneVisitor
<1> QED BY <1>2, <1>3, <1>4, <1>5, <1>6 DEF IInv

\* Every error path, and the page going away.
LEMMA RefusedSafe ==
    ASSUME IInv, NEW c \in DOMAIN connected, Become(Dropped(Now, c))
    PROVE  IInv'
<1>1. c \in DOMAIN Now.connected
  BY NowFields
<1>2. Reaches(Now, {c})
  BY IInvOfNow, ReachesButMore DEF Reaches
<1>3. Safe(Dropped(Now, c)) /\ Reaches(Dropped(Now, c), {})
  BY <1>1, <1>2, IInvOfNow, DroppedIsSafe
<1> QED BY <1>3, BecomeSafe

\* Who is in a room is one of its users.
LEMMA MemberOf ==
    ASSUME IInv, NEW c \in DOMAIN connected, InRoom(c)
    PROVE  c \in DOMAIN rooms[connected[c]].users
BY RoomIdAssumption DEF IInv, TypeOK, ConnectedMatchesRooms, InRoom

\* The body of Join keeps it.
LEMMA JoinRoomSafe ==
    ASSUME IInv, NEW c \in DOMAIN connected, connected[c] = NoRoom,
           NEW r \in DOMAIN rooms, JoinRoom(c, r)
    PROVE  IInv'
<1>1. PICK v \in Visitor \cup {Blank} :
        \E name \in NextGuestNames(rooms[r].users, NormalizeVisitorID(v, c)) :
            \/ \E n \in Serial : Become(ShownTo(Joined(Now, c, r, v, name), c, r, n))
            \/ Become(Dropped(Joined(Now, c, r, v, name), c))
  BY DEF JoinRoom
<1>0. PICK name \in NextGuestNames(rooms[r].users, NormalizeVisitorID(v, c)) :
            \/ \E n \in Serial : Become(ShownTo(Joined(Now, c, r, v, name), c, r, n))
            \/ Become(Dropped(Joined(Now, c, r, v, name), c))
  BY <1>1
<1> DEFINE joined == Joined(Now, c, r, v, name)
<1>2. /\ Safe(joined) /\ Reaches(joined, {c})
      /\ DOMAIN joined.rooms = DOMAIN Now.rooms
      /\ joined.connected = [Now.connected EXCEPT ![c] = r]
      /\ c \in DOMAIN joined.rooms[r].users
      /\ ~joined.rooms[r].users[c].streaming
  BY NowFields, IInvOfNow, JoinedIsSafe
<1>3. CASE \E n \in Serial : Become(ShownTo(joined, c, r, n))
  <2>1. PICK n \in Serial : Become(ShownTo(joined, c, r, n))
    BY <1>3
  <2>2. r \in DOMAIN joined.rooms /\ joined.connected[c] = r
    BY <1>2, NowFields
  <2> HIDE DEF joined
  <2> QED BY <1>2, <2>1, <2>2, ShownToIsSafe, BecomeSafe
<1>4. CASE Become(Dropped(joined, c))
  <2>1. c \in DOMAIN joined.connected
    BY <1>2, NowFields
  <2> HIDE DEF joined
  <2> QED BY <1>2, <1>4, <2>1, DroppedIsSafe, BecomeSafe
<1> QED BY <1>0, <1>3, <1>4

\* Join keeps it.
LEMMA JoinSafe ==
    ASSUME IInv, NEW c \in DOMAIN connected, Join(c)
    PROVE  IInv'
<1>1. PICK id \in RoomId \cup {ShortId} :
        IF connected[c] = NoRoom /\ id \in DOMAIN rooms
        THEN JoinRoom(c, id) ELSE Refused(c)
  BY DEF Join
<1>2. CASE Refused(c)
  BY <1>2, RefusedSafe DEF Refused
<1>3. CASE connected[c] = NoRoom /\ id \in DOMAIN rooms /\ JoinRoom(c, id)
  BY <1>3, JoinRoomSafe
<1> QED BY <1>1, <1>2, <1>3

\* The body of Create keeps it.
LEMMA CreateRoomSafe ==
    ASSUME IInv, NEW c \in DOMAIN connected, connected[c] = NoRoom,
           NEW r \in RoomId, r \notin DOMAIN rooms, CreateRoom(c, r)
    PROVE  IInv'
<1>1. PICK mode \in Mode, close \in BOOLEAN, v \in Visitor \cup {Blank} :
        IF MayCreate(c, mode)
        THEN Become(Created(Now, c, r, mode, close, v)) ELSE Refused(c)
  BY DEF CreateRoom
<1>2. CASE Refused(c)
  BY <1>2, RefusedSafe DEF Refused
<1>3. CASE Become(Created(Now, c, r, mode, close, v))
  <2>1. Safe(Created(Now, c, r, mode, close, v))
        /\ Reaches(Created(Now, c, r, mode, close, v), {})
    BY NowFields, IInvOfNow, CreatedIsSafe
  <2> QED BY <1>3, <2>1, BecomeSafe
<1> QED BY <1>1, <1>2, <1>3

\* Create keeps it, joining an existing room included.
LEMMA CreateSafe ==
    ASSUME IInv, NEW c \in DOMAIN connected, Create(c)
    PROVE  IInv'
<1>1. PICK id \in RoomId \cup {ShortId}, joinIfExist \in BOOLEAN :
        IF connected[c] # NoRoom \/ id = ShortId
        THEN Refused(c)
        ELSE IF id \notin DOMAIN rooms
        THEN CreateRoom(c, id)
        ELSE IF joinIfExist
        THEN JoinRoom(c, id)
        ELSE Refused(c)
  BY DEF Create
<1>2. CASE Refused(c)
  BY <1>2, RefusedSafe DEF Refused
<1>3. CASE connected[c] = NoRoom /\ id \in RoomId /\ id \notin DOMAIN rooms
            /\ CreateRoom(c, id)
  BY <1>3, CreateRoomSafe
<1>4. CASE connected[c] = NoRoom /\ id \in DOMAIN rooms /\ JoinRoom(c, id)
  BY <1>4, JoinRoomSafe
<1> QED BY <1>1, <1>2, <1>3, <1>4

\* StartShare keeps it.
LEMMA StartShareSafe ==
    ASSUME IInv, NEW c \in DOMAIN connected, StartShare(c)
    PROVE  IInv'
<1> DEFINE r  == connected[c]
           on == Streaming(Now, c, r, TRUE)
<1>1. CASE NotInRoom(c)
  BY <1>1, RefusedSafe DEF NotInRoom, Refused
<1>2. CASE InRoom(c)
  <2>1. /\ Safe(Now) /\ Reaches(Now, {})
        /\ r \in DOMAIN Now.rooms /\ c \in DOMAIN Now.rooms[r].users
    BY <1>2, MemberOf, IInvOfNow, NowFields DEF InRoom
  <2>2. CASE Become(Dropped(on, c))
    <3>1. Safe(on) /\ Reaches(on, {c})
      BY <2>1, StreamingOnIsSafe
    <3>2. c \in DOMAIN on.connected
      <4>1. RoomBecomes(Now, on, r, RoomStreaming(Now.rooms[r], c, TRUE))
        BY <2>1, StreamingShape DEF Safe, StateType
      <4> HIDE DEF on
      <4> QED BY <4>1, NowFields DEF RoomBecomes
    <3> HIDE DEF on
    <3>3. Safe(Dropped(on, c)) /\ Reaches(Dropped(on, c), {})
      BY <3>1, <3>2, DroppedIsSafe
    <3> QED BY <2>2, <3>3, BecomeSafe
  <2>3. ASSUME NEW n \in Serial, Become(NotifyInfoChanged(Shown(on, c, r, n), r))
        PROVE  IInv'
    <3> DEFINE shown == Shown(on, c, r, n)
    <3>1. Safe(shown) /\ Reaches(shown, {}) /\ DOMAIN shown.rooms = DOMAIN Now.rooms
      <4>1. SharedSafely(Now, Shared(Now, c, r, n))
        BY <2>1, ShownIsSafe
      <4>2. shown = Shared(Now, c, r, n)
        BY DEF Shared
      <4> HIDE DEF shown
      <4> QED BY <4>1, <4>2 DEF SharedSafely
    <3> HIDE DEF shown
    <3>2. Safe(NotifyInfoChanged(shown, r)) /\ Reaches(NotifyInfoChanged(shown, r), {})
      BY <2>1, <3>1, NotifiedIsSafe
    <3>3. Become(NotifyInfoChanged(shown, r))
      BY <2>3 DEF shown
    <3> QED BY <3>2, <3>3, BecomeSafe
  <2>4. \/ Become(Dropped(on, c))
        \/ \E n \in Serial : Become(NotifyInfoChanged(Shown(on, c, r, n), r))
    BY <1>2 DEF StartShare, NotInRoom
  <2> QED BY <2>2, <2>3, <2>4
<1> QED BY <1>1, <1>2 DEF StartShare

\* StopShare keeps it.
LEMMA StopShareSafe ==
    ASSUME IInv, NEW c \in DOMAIN connected, StopShare(c)
    PROVE  IInv'
<1>1. CASE NotInRoom(c)
  BY <1>1, RefusedSafe DEF NotInRoom, Refused
<1>2. CASE InRoom(c) /\ Become(Stopped(Now, c, connected[c]))
  <2>1. Safe(Stopped(Now, c, connected[c])) /\ Reaches(Stopped(Now, c, connected[c]), {})
    BY <1>2, MemberOf, IInvOfNow, NowFields, StoppedIsSafe DEF InRoom
  <2> QED BY <1>2, <2>1, BecomeSafe
<1> QED BY <1>1, <1>2 DEF StopShare

\* Name keeps it.
LEMMA NameSafe ==
    ASSUME IInv, NEW c \in DOMAIN connected, Name(c)
    PROVE  IInv'
<1>1. CASE NotInRoom(c)
  BY <1>1, RefusedSafe DEF NotInRoom, Refused
<1>2. CASE InRoom(c) /\ Become(NotifyInfoChanged(Now, connected[c]))
  <2>1. /\ Safe(NotifyInfoChanged(Now, connected[c]))
        /\ Reaches(NotifyInfoChanged(Now, connected[c]), {})
    BY <1>2, IInvOfNow, NowFields, NotifiedIsSafe DEF InRoom
  <2> QED BY <1>2, <2>1, BecomeSafe
<1> QED BY <1>1, <1>2 DEF Name

\* Offers, answers and candidates keep it.
LEMMA RelayedSafe ==
    ASSUME IInv, NEW c \in DOMAIN connected, NEW side, Relayed(c, side)
    PROVE  IInv'
<1>1. CASE NotInRoom(c)
  BY <1>1, RefusedSafe DEF NotInRoom, Refused
<1>2. CASE UNCHANGED vars
  BY <1>2, StutterSafe
<1>3. CASE Refused(c)
  BY <1>3, RefusedSafe DEF Refused
<1> QED BY <1>1, <1>2, <1>3 DEF Relayed

\* Every message and every new connection keeps the invariant.
LEMMA NextSafe == IInv /\ [Next]_vars => IInv'
<1> SUFFICES ASSUME IInv, [Next]_vars PROVE IInv'
  OBVIOUS
<1>1. CASE UNCHANGED vars
  BY <1>1, StutterSafe
<1>2. ASSUME NEW c \in Client, Connect(c) PROVE IInv'
  BY <1>2, ConnectSafe
<1>3. ASSUME NEW c \in Client, Message(c) PROVE IInv'
  <2>1. c \in DOMAIN connected
    BY <1>3 DEF Message
  <2>2. CASE Disconnected(c)
    BY <2>1, <2>2, RefusedSafe DEF Disconnected
  <2>3. CASE Create(c)
    BY <2>1, <2>3, CreateSafe
  <2>4. CASE Join(c)
    BY <2>1, <2>4, JoinSafe
  <2>5. CASE Name(c)
    BY <2>1, <2>5, NameSafe
  <2>6. CASE StartShare(c)
    BY <2>1, <2>6, StartShareSafe
  <2>7. CASE StopShare(c)
    BY <2>1, <2>7, StopShareSafe
  <2>8. CASE HostOffer(c) \/ HostICE(c) \/ ClientAnswer(c) \/ ClientICE(c)
    BY <2>1, <2>8, RelayedSafe DEF HostOffer, HostICE, ClientAnswer, ClientICE
  <2> QED BY <1>3, <2>2, <2>3, <2>4, <2>5, <2>6, <2>7, <2>8 DEF Message
<1> QED BY <1>1, <1>2, <1>3 DEF Next

\* The invariant is inductive: it holds at the start and no message or new connection
\* breaks it.
THEOREM Invariant == Spec => []IInv
BY InitSafe, NextSafe, PTL DEF Spec

-----------------------------------------------------------------------------
\* The parts of the invariant, one by one.

\* Whatever the connections, visitors and rooms, the loop's state stays within the
\* types of the code, counters included.
THEOREM TypeCorrect == Spec => []TypeOK
<1>1. IInv => TypeOK
  BY DEF IInv
<1> QED BY <1>1, Invariant, PTL

\* A connection is a user of the room it is connected to, and of no other.
THEOREM ConnectedMatches == Spec => []ConnectedMatchesRooms
<1>1. IInv => ConnectedMatchesRooms
  BY DEF IInv
<1> QED BY <1>1, Invariant, PTL

\* No handler leaves a session behind whose end is gone, so the relays never
\* dereference a user that is not there.
THEOREM NoDanglingSession == Spec => []SessionsJoinMembers
<1>1. IInv => SessionsJoinMembers
  BY DEF IInv
<1> QED BY <1>1, Invariant, PTL

\* Nobody in a room misses a stream, in whatever order the room filled and the
\* sharing began.
THEOREM NobodyMissesAStream == Spec => []StreamReachesEveryone
<1>1. IInv => StreamReachesEveryone
  BY DEF IInv
<1> QED BY <1>1, Invariant, PTL

\* Guest names tell visitors apart in a room of any size.
THEOREM NamesTellVisitorsApart == Spec => []GuestNamesIdentifyVisitors
<1>1. IInv => GuestNamesIdentifyVisitors
  BY DEF IInv
<1> QED BY <1>1, Invariant, PTL

\* A room is owned by one visitor, through all of its connections.
THEOREM OneOwner == Spec => []OwnerIsOneVisitor
<1>1. IInv => OwnerIsOneVisitor
  BY DEF IInv
<1> QED BY <1>1, Invariant, PTL

\* No empty room is kept, and none that is to close with its owner outlives it.
THEOREM NoRoomUnattended == Spec => []RoomsAreAttended
<1>1. IInv => RoomsAreAttended
  BY DEF IInv
<1> QED BY <1>1, Invariant, PTL

\* Connections and rooms belong together, and no room stays that nobody could close.
THEOREM RoomsMatch == Spec => []RoomsMatchMembers
BY ConnectedMatches, NoRoomUnattended, PTL DEF RoomsMatchMembers

-----------------------------------------------------------------------------
\* The handlers, as what they make of a state s.

Newcomer(s, c, r, v, name) ==
    /\ c \in DOMAIN s.connected /\ s.connected[c] = NoRoom
    /\ r \in DOMAIN s.rooms
    /\ v \in Visitor \cup {Blank}
    /\ name \in NextGuestNames(s.rooms[r].users, NormalizeVisitorID(v, c))

Member(s, c, r) ==
    /\ r \in DOMAIN s.rooms /\ c \in DOMAIN s.rooms[r].users
    /\ c \in DOMAIN s.connected /\ s.connected[c] = r

IsDrop(s, t) == \E c \in DOMAIN s.connected : t = Dropped(s, c)

IsCreate(s, t) ==
    \E c \in DOMAIN s.connected, r \in RoomId, mode \in Mode, close \in BOOLEAN,
       v \in Visitor \cup {Blank} :
        /\ s.connected[c] = NoRoom /\ r \notin DOMAIN s.rooms
        /\ t = Created(s, c, r, mode, close, v)

IsJoin(s, t) ==
    \E c, r, v, name : \E n \in Serial :
        Newcomer(s, c, r, v, name) /\ t = ShownTo(Joined(s, c, r, v, name), c, r, n)

IsFailedJoin(s, t) ==
    \E c, r, v, name :
        Newcomer(s, c, r, v, name) /\ t = Dropped(Joined(s, c, r, v, name), c)

IsShare(s, t) ==
    \E c, r : \E n \in Serial :
        /\ Member(s, c, r)
        /\ s.rooms[r].sessions \cap SessionsBetween({c}, Client, n) = {}
        /\ t = NotifyInfoChanged(Shared(s, c, r, n), r)

IsFailedShare(s, t) ==
    \E c, r : Member(s, c, r) /\ t = Dropped(Streaming(s, c, r, TRUE), c)

IsStop(s, t) == \E c, r : Member(s, c, r) /\ t = Stopped(s, c, r)

IsNotice(s, t) == \E r \in DOMAIN s.rooms : t = NotifyInfoChanged(s, r)

Outcome(s, t) ==
    \/ IsDrop(s, t) \/ IsCreate(s, t) \/ IsJoin(s, t) \/ IsFailedJoin(s, t)
    \/ IsShare(s, t) \/ IsFailedShare(s, t) \/ IsStop(s, t) \/ IsNotice(s, t)

Becomes == \E t : Become(t) /\ Outcome(Now, t)

\* An error is the end of its connection.
LEMMA RefusedOutcome ==
    ASSUME NEW c \in DOMAIN connected, Refused(c)
    PROVE  Becomes
<1>1. Become(Dropped(Now, c))
  BY DEF Refused
<1>2. IsDrop(Now, Dropped(Now, c))
  BY NowFields DEF IsDrop
<1> QED BY <1>1, <1>2 DEF Outcome, Becomes

\* Join enters and shows, or enters and drops.
LEMMA JoinRoomOutcome ==
    ASSUME NEW c \in DOMAIN connected, connected[c] = NoRoom,
           NEW r \in DOMAIN rooms, JoinRoom(c, r)
    PROVE  Becomes
<1>1. PICK v \in Visitor \cup {Blank} :
        \E name \in NextGuestNames(rooms[r].users, NormalizeVisitorID(v, c)) :
            \/ \E n \in Serial : Become(ShownTo(Joined(Now, c, r, v, name), c, r, n))
            \/ Become(Dropped(Joined(Now, c, r, v, name), c))
  BY DEF JoinRoom
<1>2. PICK name \in NextGuestNames(rooms[r].users, NormalizeVisitorID(v, c)) :
            \/ \E n \in Serial : Become(ShownTo(Joined(Now, c, r, v, name), c, r, n))
            \/ Become(Dropped(Joined(Now, c, r, v, name), c))
  BY <1>1
<1>3. Newcomer(Now, c, r, v, name)
  BY NowFields DEF Newcomer
<1>4. ASSUME NEW n \in Serial, Become(ShownTo(Joined(Now, c, r, v, name), c, r, n))
      PROVE  Becomes
  <2>1. IsJoin(Now, ShownTo(Joined(Now, c, r, v, name), c, r, n))
    BY <1>3 DEF IsJoin
  <2> QED BY <1>4, <2>1 DEF Outcome, Becomes
<1>5. CASE Become(Dropped(Joined(Now, c, r, v, name), c))
  <2>1. IsFailedJoin(Now, Dropped(Joined(Now, c, r, v, name), c))
    BY <1>3 DEF IsFailedJoin
  <2> QED BY <1>5, <2>1 DEF Outcome, Becomes
<1> QED BY <1>2, <1>4, <1>5

\* Create makes a room, joins one, or fails.
LEMMA CreateOutcome ==
    ASSUME NEW c \in DOMAIN connected, Create(c)
    PROVE  Becomes
<1>1. PICK id \in RoomId \cup {ShortId}, joinIfExist \in BOOLEAN :
        IF connected[c] # NoRoom \/ id = ShortId
        THEN Refused(c)
        ELSE IF id \notin DOMAIN rooms
        THEN CreateRoom(c, id)
        ELSE IF joinIfExist
        THEN JoinRoom(c, id)
        ELSE Refused(c)
  BY DEF Create
<1>2. CASE Refused(c)
  BY <1>2, RefusedOutcome
<1>3. CASE connected[c] = NoRoom /\ id \in RoomId /\ id \notin DOMAIN rooms
            /\ CreateRoom(c, id)
  <2>1. PICK mode \in Mode, close \in BOOLEAN, v \in Visitor \cup {Blank} :
          IF MayCreate(c, mode)
          THEN Become(Created(Now, c, id, mode, close, v)) ELSE Refused(c)
    BY <1>3 DEF CreateRoom
  <2>2. CASE Become(Created(Now, c, id, mode, close, v))
    <3>1. IsCreate(Now, Created(Now, c, id, mode, close, v))
      BY <1>3, NowFields DEF IsCreate
    <3> QED BY <2>2, <3>1 DEF Outcome, Becomes
  <2> QED BY <2>1, <2>2, RefusedOutcome
<1>4. CASE connected[c] = NoRoom /\ id \in DOMAIN rooms /\ JoinRoom(c, id)
  BY <1>4, JoinRoomOutcome
<1> QED BY <1>1, <1>2, <1>3, <1>4

\* Who is in a room is a member.
LEMMA InRoomIsMember ==
    ASSUME IInv, NEW c \in DOMAIN connected, InRoom(c)
    PROVE  Member(Now, c, connected[c])
BY MemberOf, NowFields DEF Member, InRoom

\* StartShare shows, or drops.
LEMMA StartShareOutcome ==
    ASSUME IInv, NEW c \in DOMAIN connected, StartShare(c)
    PROVE  Becomes
<1> DEFINE r  == connected[c]
           on == Streaming(Now, c, r, TRUE)
<1>1. CASE NotInRoom(c)
  BY <1>1, RefusedOutcome DEF NotInRoom
<1>2. CASE InRoom(c)
  <2>1. Member(Now, c, r)
    BY <1>2, InRoomIsMember
  <2>2. CASE Become(Dropped(on, c))
    <3>1. IsFailedShare(Now, Dropped(on, c))
      BY <2>1 DEF IsFailedShare
    <3> QED BY <2>2, <3>1 DEF Outcome, Becomes
  <2>3. ASSUME NEW n \in Serial, FreshXids(r, SessionsBetween({c}, Client, n)),
               Become(NotifyInfoChanged(Shown(on, c, r, n), r))
        PROVE  Becomes
    <3>1. IsShare(Now, NotifyInfoChanged(Shown(on, c, r, n), r))
      BY <2>1, <2>3, NowFields DEF IsShare, Shared, FreshXids
    <3> QED BY <2>3, <3>1 DEF Outcome, Becomes
  <2>4. \/ Become(Dropped(on, c))
        \/ \E n \in Serial : /\ FreshXids(r, SessionsBetween({c}, Client, n))
                             /\ Become(NotifyInfoChanged(Shown(on, c, r, n), r))
    BY <1>2 DEF StartShare, NotInRoom
  <2> QED BY <2>2, <2>3, <2>4
<1> QED BY <1>1, <1>2 DEF StartShare

\* Whatever the loop does is one of the outcomes, or a connection is new.
LEMMA NextOutcome ==
    ASSUME IInv, [Next]_vars
    PROVE  UNCHANGED vars \/ (\E c \in Client : Connect(c)) \/ Becomes
<1>1. ASSUME NEW c \in Client, Message(c) PROVE UNCHANGED vars \/ Becomes
  <2>1. c \in DOMAIN connected
    BY <1>1 DEF Message
  <2>2. CASE Disconnected(c)
    BY <2>1, <2>2, RefusedOutcome DEF Disconnected, Refused
  <2>3. CASE Create(c)
    BY <2>1, <2>3, CreateOutcome
  <2>4. CASE Join(c)
    <3>1. PICK id \in RoomId \cup {ShortId} :
            IF connected[c] = NoRoom /\ id \in DOMAIN rooms
            THEN JoinRoom(c, id) ELSE Refused(c)
      BY <2>4 DEF Join
    <3> QED BY <2>1, <3>1, RefusedOutcome, JoinRoomOutcome
  <2>5. CASE Name(c)
    <3>1. CASE InRoom(c) /\ Become(NotifyInfoChanged(Now, connected[c]))
      <4>1. IsNotice(Now, NotifyInfoChanged(Now, connected[c]))
        BY <3>1, NowFields DEF IsNotice, InRoom
      <4> QED BY <3>1, <4>1 DEF Outcome, Becomes
    <3> QED BY <2>1, <2>5, <3>1, RefusedOutcome DEF Name, NotInRoom
  <2>6. CASE StartShare(c)
    BY <2>1, <2>6, StartShareOutcome
  <2>7. CASE StopShare(c)
    <3>1. CASE InRoom(c) /\ Become(Stopped(Now, c, connected[c]))
      <4>1. IsStop(Now, Stopped(Now, c, connected[c]))
        BY <2>1, <3>1, InRoomIsMember DEF IsStop
      <4> QED BY <3>1, <4>1 DEF Outcome, Becomes
    <3> QED BY <2>1, <2>7, <3>1, RefusedOutcome DEF StopShare, NotInRoom
  <2>8. CASE HostOffer(c) \/ HostICE(c) \/ ClientAnswer(c) \/ ClientICE(c)
    <3>1. UNCHANGED vars \/ Refused(c)
      BY <2>8 DEF HostOffer, HostICE, ClientAnswer, ClientICE, Relayed, NotInRoom
    <3> QED BY <2>1, <3>1, RefusedOutcome
  <2> QED BY <1>1, <2>2, <2>3, <2>4, <2>5, <2>6, <2>7, <2>8 DEF Message
<1> QED BY <1>1 DEF Next

-----------------------------------------------------------------------------
\* What the chains do to the ledger.

\* The counters after so many more (or fewer) users, rooms and sessions,
Shifted(m, users, rms, sessions) ==
    [users |-> m.users + users, rooms |-> m.rooms + rms, sessions |-> m.sessions + sessions]

\* and what a connection was told after a Room message and messages about sessions.
Knowing(m, info, open) == [info |-> info, open |-> open, closes |-> m.closes]

\* Counting users shifts the counters,
LEMMA ShiftedByUser ==
    ASSUME NEW m \in MetricsType
    PROVE  /\ [m EXCEPT !.users = @ + 1] = Shifted(m, 1, 0, 0)
           /\ [m EXCEPT !.users = @ - 1] = Shifted(m, -1, 0, 0)
<1>1. /\ m.users \in Int /\ m.rooms \in Int /\ m.sessions \in Int
      /\ m = [users |-> m.users, rooms |-> m.rooms, sessions |-> m.sessions]
  BY DEF MetricsType
<1>2. [m EXCEPT !.users = @ + 1] = Shifted(m, 1, 0, 0)
  BY <1>1 DEF Shifted
<1>3. [m EXCEPT !.users = @ - 1] = Shifted(m, -1, 0, 0)
  BY <1>1 DEF Shifted
<1> QED BY <1>2, <1>3

\* so does counting sessions,
LEMMA ShiftedBySessions ==
    ASSUME NEW m \in MetricsType, NEW n \in Nat
    PROVE  /\ [m EXCEPT !.sessions = @ + n] = Shifted(m, 0, 0, n)
           /\ [m EXCEPT !.sessions = @ - n] = Shifted(m, 0, 0, -n)
<1>1. /\ m.users \in Int /\ m.rooms \in Int /\ m.sessions \in Int
      /\ m = [users |-> m.users, rooms |-> m.rooms, sessions |-> m.sessions]
  BY DEF MetricsType
<1>2. [m EXCEPT !.sessions = @ + n] = Shifted(m, 0, 0, n)
  BY <1>1 DEF Shifted
<1>3. [m EXCEPT !.sessions = @ - n] = Shifted(m, 0, 0, -n)
  BY <1>1 DEF Shifted
<1> QED BY <1>2, <1>3

\* and counting a room with its users.
LEMMA ShiftedByRoom ==
    ASSUME NEW m \in MetricsType, NEW u \in Nat
    PROVE  /\ [m EXCEPT !.users = @ + 1, !.rooms = @ + 1] = Shifted(m, 1, 1, 0)
           /\ [m EXCEPT !.users = @ - u, !.rooms = @ - 1] = Shifted(m, -u, -1, 0)
<1>1. m.users \in Int /\ m.rooms \in Int /\ m.sessions \in Int
  BY DEF MetricsType
<1>2. ASSUME NEW a \in Int, NEW b \in Int
      PROVE  [m EXCEPT !.users = a, !.rooms = b]
               = [users |-> a, rooms |-> b, sessions |-> m.sessions]
  <2> DEFINE x == [m EXCEPT !.users = a, !.rooms = b]
  <2>1. x \in MetricsType
    BY DEF MetricsType
  <2>2. x.users = a /\ x.rooms = b /\ x.sessions = m.sessions
    BY DEF MetricsType
  <2> HIDE DEF x
  <2>3. x = [users |-> a, rooms |-> b, sessions |-> m.sessions]
    BY <2>1, <2>2 DEF MetricsType
  <2> QED BY <2>3 DEF x
<1>3. [m EXCEPT !.users = @ + 1, !.rooms = @ + 1] = Shifted(m, 1, 1, 0)
  <2> DEFINE a == m.users + 1
             b == m.rooms + 1
  <2>1. a \in Int /\ b \in Int /\ m.sessions + 0 = m.sessions
    BY <1>1
  <2> HIDE DEF a, b
  <2>2. [m EXCEPT !.users = a, !.rooms = b] = [users |-> a, rooms |-> b, sessions |-> m.sessions]
    BY <1>2, <2>1
  <2> QED BY <2>1, <2>2 DEF Shifted, a, b
<1>4. [m EXCEPT !.users = @ - u, !.rooms = @ - 1] = Shifted(m, -u, -1, 0)
  <2> DEFINE a == m.users - u
             b == m.rooms - 1
  <2>1. /\ a \in Int /\ b \in Int /\ m.sessions + 0 = m.sessions
        /\ a = m.users + -u /\ b = m.rooms + -1
    BY <1>1
  <2> HIDE DEF a, b
  <2>2. [m EXCEPT !.users = a, !.rooms = b] = [users |-> a, rooms |-> b, sessions |-> m.sessions]
    BY <1>2, <2>1
  <2>3. Shifted(m, -u, -1, 0) = [users |-> a, rooms |-> b, sessions |-> m.sessions]
    BY <2>1 DEF Shifted
  <2> QED BY <2>2, <2>3 DEF a, b
<1> QED BY <1>3, <1>4

\* What a connection is told changes in these fields.
LEMMA KnowingFields ==
    ASSUME NEW m, IsTold(m), NEW info, NEW open
    PROVE  /\ [m EXCEPT !.open = open] = Knowing(m, m.info, open)
           /\ [m EXCEPT !.info = info] = Knowing(m, info, m.open)
           /\ m = Knowing(m, m.info, m.open)
BY DEF Knowing, IsTold

\* These are its fields.
LEMMA KnowingParts ==
    ASSUME NEW m, NEW info, NEW open
    PROVE  /\ Knowing(m, info, open).info = info
           /\ Knowing(m, info, open).open = open
           /\ Knowing(m, info, open).closes = m.closes
BY DEF Knowing

\* The credentials after those of some sessions of a room were allowed, or disallowed.
Allowed(L, mode, new) == IF mode = "turn" THEN L \cup Credentials(new) ELSE L
Disallowed(L, mode, old) == IF mode = "turn" THEN L \ Credentials(old) ELSE L

\* Both halves of a room's sessions disallowed are all of them.
LEMMA DisallowedInTwo ==
    ASSUME NEW L, NEW mode, NEW S, NEW T, T \subseteq S
    PROVE  Disallowed(Disallowed(L, mode, T), mode, S \ T) = Disallowed(L, mode, S)
BY DEF Disallowed, Credentials, Side

RemovesUserEntries(s, t, r, c, old) ==
    /\ t.lookup = Disallowed(s.lookup, s.rooms[r].mode, old)
    /\ t.told = [d \in Client |->
            IF d \in DOMAIN s.rooms[r].users \ {c}
            THEN Knowing(s.told[d], s.told[d].info, s.told[d].open \ old) ELSE s.told[d]]
    /\ t.metrics = Shifted(s.metrics, -1, 0, -Cardinality(old))

\* Leaving a room ends the sessions of one user.
LEMMA RemoveUserEntries ==
    ASSUME NEW s, StateType(s), NEW r \in DOMAIN s.rooms, NEW c,
           NEW t, t = RemoveUser(s, r, c)
    PROVE  RemovesUserEntries(s, t, r, c, SessionsOf(s.rooms[r].sessions, c))
<1> DEFINE old   == SessionsOf(s.rooms[r].sessions, c)
           left  == UserRemoved(s, r, c)
           C     == DOMAIN left.rooms[r].users
           heard == EndShare(left, C, old)
           u     == CloseSessions(heard, r, old)
<1>1. t = u
  BY DEF RemoveUser
<1>2. RemovesUser(s, left, r, c)
  BY UserRemovedEffect DEF StateType
<1> HIDE DEF left
<1>3. EndsForOthers(left, heard, C, old)
  BY <1>2, EndShareEffect DEF RemovesUser
<1>4. IsRoom(s.rooms[r])
  BY DEF StateType, RoomsType
<1>5. left.rooms[r] = [s.rooms[r] EXCEPT !.users = Without(@, {c})]
  BY <1>2 DEF RemovesUser
<1>6. left.rooms[r].mode = s.rooms[r].mode
      /\ C = DOMAIN s.rooms[r].users \ {c}
  BY <1>4, <1>5 DEF IsRoom, Without
<1>7. Cardinality(old) \in Nat
  BY <1>4, SessionsCounted DEF IsRoom, SessionsOf
<1> HIDE DEF C, heard, old
<1>8. ClosesSessions(heard, u, r, old)
  BY <1>3, CloseSessionsEffect DEF EndsForOthers, Tells
<1> HIDE DEF u
<1>9. heard.rooms = left.rooms /\ heard.lookup = s.lookup /\ left.told = s.told
  BY <1>2, <1>3 DEF EndsForOthers, Tells, RemovesUser
<1>10. u.lookup = Disallowed(s.lookup, s.rooms[r].mode, old)
  BY <1>6, <1>8, <1>9 DEF ClosesSessions, Disallowed
<1>11. u.told = [d \in Client |->
            IF d \in DOMAIN s.rooms[r].users \ {c}
            THEN Knowing(s.told[d], s.told[d].info, s.told[d].open \ old) ELSE s.told[d]]
  <2>1. u.told = [d \in Client |->
            IF d \in DOMAIN s.rooms[r].users \ {c}
            THEN [s.told[d] EXCEPT !.open = @ \ old] ELSE s.told[d]]
    BY <1>3, <1>6, <1>8, <1>9 DEF EndsForOthers, ClosesSessions
  <2>2. \A d \in Client :
          [s.told[d] EXCEPT !.open = s.told[d].open \ old]
            = Knowing(s.told[d], s.told[d].info, s.told[d].open \ old)
    BY KnowingFields DEF StateType, ToldType
  <2> QED BY <2>1, <2>2
<1>12. u.metrics = Shifted(s.metrics, -1, 0, -Cardinality(old))
  <2>1. s.metrics \in MetricsType
    BY DEF StateType
  <2>2. left.metrics = [s.metrics EXCEPT !.users = @ - 1]
    BY <1>2 DEF RemovesUser
  <2>3. heard.metrics = left.metrics
    BY <1>3 DEF EndsForOthers, Tells
  <2>4. u.metrics = [heard.metrics EXCEPT !.sessions = @ - Cardinality(old)]
    BY <1>8 DEF ClosesSessions
  <2>5. left.metrics = Shifted(s.metrics, -1, 0, 0)
    BY <2>1, <2>2, ShiftedByUser
  <2>6. left.metrics \in MetricsType
    BY <2>1, <2>5 DEF Shifted, MetricsType
  <2>7. u.metrics = Shifted(left.metrics, 0, 0, -Cardinality(old))
    BY <1>7, <2>3, <2>4, <2>6, ShiftedBySessions
  <2>8. Shifted(Shifted(s.metrics, -1, 0, 0), 0, 0, -Cardinality(old))
            = Shifted(s.metrics, -1, 0, -Cardinality(old))
    BY <1>7, <2>1 DEF Shifted, MetricsType
  <2> QED BY <2>5, <2>7, <2>8
<1> QED BY <1>1, <1>10, <1>11, <1>12 DEF RemovesUserEntries, old

ClosesRoomEntries(s, t, r) ==
    /\ t.lookup = Disallowed(s.lookup, s.rooms[r].mode, s.rooms[r].sessions)
    /\ t.told = s.told
    /\ t.metrics = Shifted(s.metrics, -Cardinality(DOMAIN s.rooms[r].users), -1,
                           -Cardinality(s.rooms[r].sessions))

\* Closing a room ends what sessions it has, and tells nobody.
LEMMA CloseRoomEntries ==
    ASSUME NEW s, StateType(s), NEW r \in DOMAIN s.rooms,
           NEW t, t = CloseRoom(s, r)
    PROVE  ClosesRoomEntries(s, t, r)
<1> DEFINE m == CloseSessions(s, r, s.rooms[r].sessions)
<1>1. ClosesSessions(s, m, r, s.rooms[r].sessions)
  BY CloseSessionsEffect DEF StateType
<1>2. RemovesRoom(s, m, t, r)
  BY CloseRoomEffect DEF StateType
<1> HIDE DEF m
<1>3. Cardinality(DOMAIN s.rooms[r].users) \in Nat /\ Cardinality(s.rooms[r].sessions) \in Nat
  BY SessionsCounted, UsersCounted DEF StateType, RoomsType, IsRoom, IsMap
<1>4. t.metrics = Shifted(s.metrics, -Cardinality(DOMAIN s.rooms[r].users), -1,
                          -Cardinality(s.rooms[r].sessions))
  <2>1. s.metrics \in MetricsType
    BY DEF StateType
  <2> DEFINE n == Cardinality(s.rooms[r].sessions)
             u == Cardinality(DOMAIN s.rooms[r].users)
  <2>2. m.metrics = [s.metrics EXCEPT !.sessions = @ - n]
    BY <1>1 DEF ClosesSessions
  <2>3. t.metrics = [m.metrics EXCEPT !.users = @ - u, !.rooms = @ - 1]
    BY <1>2 DEF RemovesRoom
  <2>4. n \in Nat /\ u \in Nat
    BY <1>3
  <2> HIDE DEF n, u
  <2>5. m.metrics = Shifted(s.metrics, 0, 0, -n)
    BY <2>1, <2>2, <2>4, ShiftedBySessions
  <2>6. m.metrics \in MetricsType
    BY <2>1, <2>4, <2>5 DEF Shifted, MetricsType
  <2>7. t.metrics = Shifted(m.metrics, -u, -1, 0)
    BY <2>3, <2>4, <2>6, ShiftedByRoom
  <2>8. Shifted(Shifted(s.metrics, 0, 0, -n), -u, -1, 0) = Shifted(s.metrics, -u, -1, -n)
    BY <2>1, <2>4 DEF Shifted, MetricsType
  <2>9. t.metrics = Shifted(s.metrics, -u, -1, -n)
    BY <2>5, <2>7, <2>8
  <2> QED BY <2>9 DEF n, u
<1> QED BY <1>1, <1>2, <1>4 DEF ClosesSessions, RemovesRoom, Disallowed, ClosesRoomEntries

\* What was written to a connection that is gone.
Over(m) == [Gone EXCEPT !.closes = @ + m.closes]

\* How a connection ends: in no room; leaving its room to others, who hear of it; or
\* closing the room, which everybody in it is told.
DropsOutside(s, t, c) ==
    /\ s.connected[c] = NoRoom
    /\ t.rooms = s.rooms /\ t.lookup = s.lookup /\ t.metrics = s.metrics
    /\ t.connected = Without(s.connected, {c})
    /\ t.told = [d \in Client |-> IF d = c THEN Over(s.told[d]) ELSE s.told[d]]

DropsMember(s, t, c, r) ==
    LET old  == SessionsOf(s.rooms[r].sessions, c)
        room == RoomWithout(s.rooms[r], c)
    IN  /\ Member(s, c, r)
        /\ DOMAIN s.rooms[r].users # {c}
        /\ ~OwnerGone(room, s.rooms[r].users[c])
        /\ t.rooms = [s.rooms EXCEPT ![r] = room]
        /\ t.connected = Without(s.connected, {c})
        /\ t.lookup = Disallowed(s.lookup, s.rooms[r].mode, old)
        /\ t.told = [d \in Client |->
                IF d = c THEN Over(s.told[d])
                ELSE IF d \in DOMAIN s.rooms[r].users
                THEN Knowing(s.told[d], room.users, s.told[d].open \ old)
                ELSE s.told[d]]
        /\ t.metrics = Shifted(s.metrics, -1, 0, -Cardinality(old))

DropsRoom(s, t, c, r) ==
    LET users == DOMAIN s.rooms[r].users
    IN  /\ Member(s, c, r)
        /\ users = {c} \/ OwnerGone(RoomWithout(s.rooms[r], c), s.rooms[r].users[c])
        /\ t.rooms = Without(s.rooms, {r})
        /\ t.connected = Without(s.connected, users)
        /\ t.lookup = Disallowed(s.lookup, s.rooms[r].mode, s.rooms[r].sessions)
        /\ t.told = [d \in Client |->
                IF d \in users THEN Over(s.told[d]) ELSE s.told[d]]
        /\ t.metrics = Shifted(s.metrics, -Cardinality(users), -1,
                               -Cardinality(s.rooms[r].sessions))

\* Removing some of the sessions and then the rest removes all of them.
LEMMA CountInTwo ==
    ASSUME NEW S, S \subseteq Session, NEW T, T \subseteq S
    PROVE  Cardinality(T) + Cardinality(S \ T) = Cardinality(S)
<1>1. IsFiniteSet(S)
  BY SessionIsFinite, FS_Subset
<1>2. /\ IsFiniteSet(T) /\ IsFiniteSet(S \ T)
      /\ Cardinality(S) \in Nat /\ Cardinality(T) \in Nat /\ Cardinality(S \ T) \in Nat
  BY <1>1, FS_Subset, FS_CardinalityType
<1>3. Cardinality(S \ T) = Cardinality(S) - Cardinality(S \cap T)
  BY <1>1, FS_Difference
<1>4. S \cap T = T
  OBVIOUS
<1> QED BY <1>2, <1>3, <1>4

\* closeRoom after its member has left ends the sessions that are left.
LEMMA ClosedAfterLeaving ==
    ASSUME NEW s, StateType(s), NEW r \in DOMAIN s.rooms, NEW c \in DOMAIN s.rooms[r].users,
           NEW left, StateType(left),
           left.rooms = [s.rooms EXCEPT ![r] = RoomWithout(s.rooms[r], c)],
           left.lookup = Disallowed(s.lookup, s.rooms[r].mode,
                                    SessionsOf(s.rooms[r].sessions, c)),
           left.metrics = Shifted(s.metrics, -1, 0,
                                  -Cardinality(SessionsOf(s.rooms[r].sessions, c))),
           NEW t, t = CloseRoom(left, r)
    PROVE  /\ t.lookup = Disallowed(s.lookup, s.rooms[r].mode, s.rooms[r].sessions)
           /\ t.told = left.told
           /\ t.metrics = Shifted(s.metrics, -Cardinality(DOMAIN s.rooms[r].users), -1,
                                  -Cardinality(s.rooms[r].sessions))
<1> DEFINE users == DOMAIN s.rooms[r].users
           all   == s.rooms[r].sessions
           old   == SessionsOf(all, c)
           mode  == s.rooms[r].mode
<1>1. IsRoom(s.rooms[r]) /\ users \subseteq Client /\ all \subseteq Session /\ old \subseteq all
  BY DEF StateType, RoomsType, IsRoom, IsMap, SessionsOf
<1>2. r \in DOMAIN left.rooms /\ left.rooms[r] = RoomWithout(s.rooms[r], c)
  OBVIOUS
<1>3. /\ DOMAIN left.rooms[r].users = users \ {c}
      /\ left.rooms[r].sessions = all \ old
      /\ left.rooms[r].mode = mode
  BY <1>1, <1>2 DEF RoomWithout, IsRoom, Without
<1>4. ClosesRoomEntries(left, t, r)
  BY <1>2, CloseRoomEntries
<1>5. /\ left.lookup = Disallowed(s.lookup, mode, old)
      /\ left.metrics = Shifted(s.metrics, -1, 0, -Cardinality(old))
      /\ s.metrics \in MetricsType /\ c \in users
  BY DEF StateType
<1> HIDE DEF users, old, mode, all
<1>6. /\ t.lookup = Disallowed(left.lookup, mode, all \ old)
      /\ t.told = left.told
      /\ t.metrics = Shifted(left.metrics, -Cardinality(users \ {c}), -1, -Cardinality(all \ old))
  BY <1>3, <1>4 DEF ClosesRoomEntries
<1>7. t.lookup = Disallowed(s.lookup, mode, all)
  BY <1>1, <1>5, <1>6, DisallowedInTwo
<1>8. t.metrics = Shifted(s.metrics, -Cardinality(users), -1, -Cardinality(all))
  <2>1. Cardinality(users) \in Nat /\ Cardinality(users \ {c}) = Cardinality(users) - 1
    BY <1>1, <1>5, ClientAssumption, FS_Subset, FS_RemoveElement, FS_CardinalityType
  <2>2. /\ Cardinality(old) \in Nat /\ Cardinality(all \ old) \in Nat /\ Cardinality(all) \in Nat
        /\ Cardinality(old) + Cardinality(all \ old) = Cardinality(all)
    BY <1>1, CountInTwo, SessionsCounted
  <2> QED BY <1>5, <1>6, <2>1, <2>2 DEF Shifted, MetricsType
<1> QED BY <1>6, <1>7, <1>8 DEF users, all, mode

\* The end of a connection is one of the three.
LEMMA DroppedEntries ==
    ASSUME NEW s, StateType(s), Matches(s), NEW c \in DOMAIN s.connected,
           NEW t, t = Dropped(s, c)
    PROVE  \/ DropsOutside(s, t, c)
           \/ DropsMember(s, t, c, s.connected[c])
           \/ DropsRoom(s, t, c, s.connected[c])
<1> DEFINE r     == s.connected[c]
           out   == Disconnect(s, {c})
           left  == RemoveUser(out, r, c)
           room  == RoomWithout(s.rooms[r], c)
           users == DOMAIN s.rooms[r].users
           old   == SessionsOf(s.rooms[r].sessions, c)
           all   == Disconnect(left, users \ {c})
<1>1. Disconnects(s, out, {c}) /\ StateType(out)
  BY DisconnectEffect, DisconnectType DEF StateType
<1>2. r = NoRoom \/ (r \in DOMAIN s.rooms /\ c \in users)
  BY DEF Matches
<1>3. NoRoom \notin DOMAIN s.rooms
  BY RoomIdAssumption DEF StateType, RoomsType
<1>4. t = IF r \in DOMAIN s.rooms /\ c \in users THEN Leave(out, r, c) ELSE out
  BY Zenon DEF Dropped
<1>5. CASE r = NoRoom
  <2>1. t = out
    BY <1>3, <1>4, <1>5
  <2> HIDE DEF out
  <2>2. DropsOutside(s, t, c)
    BY <1>1, <1>5, <2>1 DEF Disconnects, DropsOutside, Over
  <2> QED BY <2>2
<1>6. CASE r # NoRoom
  <2>1. r \in DOMAIN s.rooms /\ c \in users /\ t = Leave(out, r, c) /\ Member(s, c, r)
    BY <1>2, <1>4, <1>6 DEF Member
  <2>2. /\ out.rooms = s.rooms /\ out.connected = Without(s.connected, {c})
        /\ out.lookup = s.lookup /\ out.metrics = s.metrics
        /\ out.told = [d \in Client |-> IF d = c THEN Over(s.told[d]) ELSE s.told[d]]
    BY <1>1 DEF Disconnects, Over
  <2>3. IsRoom(s.rooms[r]) /\ users \subseteq Client
    BY <2>1 DEF StateType, RoomsType, IsRoom, IsMap
  <2> HIDE DEF out
  <2>4. StateType(left) /\ r \in DOMAIN left.rooms
    BY <1>1, <2>1, <2>2, RemoveUserType
  <2>5. /\ left.rooms = [s.rooms EXCEPT ![r] = room]
        /\ left.connected = Without(s.connected, {c})
    BY <1>1, <2>1, <2>2, RemoveUserShape
  <2>6. /\ left.lookup = Disallowed(s.lookup, s.rooms[r].mode, old)
        /\ left.metrics = Shifted(s.metrics, -1, 0, -Cardinality(old))
        /\ left.told = [d \in Client |->
                IF d = c THEN Over(s.told[d])
                ELSE IF d \in users
                THEN Knowing(s.told[d], s.told[d].info, s.told[d].open \ old) ELSE s.told[d]]
    <3>1. RemovesUserEntries(out, left, r, c, old)
      BY <1>1, <2>1, <2>2, RemoveUserEntries
    <3> HIDE DEF left, r, old
    <3> QED BY <2>2, <3>1 DEF RemovesUserEntries
  <2>7. DOMAIN room.users = users \ {c} /\ room.mode = s.rooms[r].mode
    BY <2>3 DEF RoomWithout, IsRoom, Without
  <2>8. left.rooms[r] = room
    BY <2>1, <2>5
  <2>9. t = IF OwnerGone(room, s.rooms[r].users[c])
            THEN CloseRoom(Disconnect(left, DOMAIN room.users), r)
            ELSE IF DOMAIN room.users = {} THEN CloseRoom(left, r)
            ELSE NotifyInfoChanged(left, r)
    <3>1. t = IF OwnerGone(left.rooms[r], out.rooms[r].users[c])
              THEN CloseRoom(Disconnect(left, DOMAIN left.rooms[r].users), r)
              ELSE IF DOMAIN left.rooms[r].users = {} THEN CloseRoom(left, r)
              ELSE NotifyInfoChanged(left, r)
      BY <2>1, Zenon DEF Leave
    <3> QED BY <2>2, <2>8, <3>1
  <2> HIDE DEF left
  <2>10. CASE OwnerGone(room, s.rooms[r].users[c])
    <3>1. t = CloseRoom(all, r)
      BY <2>7, <2>9, <2>10
    <3>2. Disconnects(left, all, users \ {c}) /\ StateType(all)
      BY <2>4, DisconnectEffect, DisconnectType DEF StateType
    <3> HIDE DEF all
    <3>3. /\ all.rooms = left.rooms /\ all.lookup = left.lookup
          /\ all.metrics = left.metrics
          /\ all.connected = Without(left.connected, users \ {c})
          /\ all.told = [d \in Client |->
                  IF d \in users \ {c} THEN Over(left.told[d]) ELSE left.told[d]]
      BY <3>2 DEF Disconnects, Over
    <3>4. t.rooms = Without(all.rooms, {r}) /\ t.connected = all.connected
      <4>1. r \in DOMAIN all.rooms
        BY <2>4, <3>3
      <4> HIDE DEF r
      <4> QED BY <3>1, <3>2, <4>1, CloseRoomShape
    <3>5. /\ t.lookup = Disallowed(s.lookup, s.rooms[r].mode, s.rooms[r].sessions)
          /\ t.told = all.told
          /\ t.metrics = Shifted(s.metrics, -Cardinality(users), -1,
                                 -Cardinality(s.rooms[r].sessions))
      <4>1. /\ all.rooms = [s.rooms EXCEPT ![r] = RoomWithout(s.rooms[r], c)]
            /\ all.lookup = Disallowed(s.lookup, s.rooms[r].mode,
                                       SessionsOf(s.rooms[r].sessions, c))
            /\ all.metrics = Shifted(s.metrics, -1, 0,
                                     -Cardinality(SessionsOf(s.rooms[r].sessions, c)))
        BY <2>5, <2>6, <3>3
      <4> HIDE DEF r
      <4> QED BY <2>1, <3>1, <3>2, <4>1, ClosedAfterLeaving
    <3> HIDE DEF users, room, r
    <3>6. t.rooms = Without(s.rooms, {r})
      BY <2>5, <3>3, <3>4 DEF Without
    <3>7. t.connected = Without(s.connected, users)
      BY <2>1, <2>5, <3>3, <3>4 DEF Without
    <3>8. t.told = [d \in Client |-> IF d \in users THEN Over(s.told[d]) ELSE s.told[d]]
      <4>1. \A d \in users \ {c} : d \in Client /\ left.told[d].closes = s.told[d].closes
        BY <2>3, <2>6 DEF Knowing
      <4> QED BY <2>1, <2>6, <3>3, <3>5, <4>1 DEF Over
    <3>9. DropsRoom(s, t, c, r)
      BY <2>1, <2>10, <3>5, <3>6, <3>7, <3>8 DEF DropsRoom, room, users
    <3> QED BY <3>9 DEF r
  <2>11. CASE ~OwnerGone(room, s.rooms[r].users[c]) /\ DOMAIN room.users = {}
    <3>1. t = CloseRoom(left, r)
      BY <2>9, <2>11
    <3>2. users = {c}
      BY <2>1, <2>7, <2>11
    <3>3. t.rooms = Without(left.rooms, {r}) /\ t.connected = left.connected
      BY <2>4, <3>1, CloseRoomShape
    <3>4. /\ t.lookup = Disallowed(s.lookup, s.rooms[r].mode, s.rooms[r].sessions)
          /\ t.told = left.told
          /\ t.metrics = Shifted(s.metrics, -Cardinality(users), -1,
                                 -Cardinality(s.rooms[r].sessions))
      <4> HIDE DEF r
      <4> QED BY <2>1, <2>4, <2>5, <2>6, <3>1, ClosedAfterLeaving
    <3> HIDE DEF users, room, r, old
    <3>5. t.rooms = Without(s.rooms, {r})
      BY <2>5, <3>3 DEF Without
    <3>6. t.told = [d \in Client |-> IF d \in users THEN Over(s.told[d]) ELSE s.told[d]]
      BY <2>6, <3>2, <3>4
    <3>7. DropsRoom(s, t, c, r)
      BY <2>1, <2>5, <3>2, <3>3, <3>4, <3>5, <3>6 DEF DropsRoom, users
    <3> QED BY <3>7 DEF r
  <2>12. CASE ~OwnerGone(room, s.rooms[r].users[c]) /\ DOMAIN room.users # {}
    <3>1. Notifies(left, t, r)
      BY <2>4, <2>9, <2>12, NotifyEffect DEF StateType
    <3>2. users # {c}
      BY <2>7, <2>12
    <3> HIDE DEF users, room, r, old
    <3>3. /\ t.rooms = left.rooms /\ t.connected = left.connected
          /\ t.lookup = left.lookup /\ t.metrics = left.metrics
          /\ t.told = [d \in Client |-> IF d \in users \ {c}
                THEN [left.told[d] EXCEPT !.info = room.users] ELSE left.told[d]]
      BY <2>7, <2>8, <3>1 DEF Notifies, Tells
    <3>4. t.told = [d \in Client |->
                IF d = c THEN Over(s.told[d])
                ELSE IF d \in users
                THEN Knowing(s.told[d], room.users, s.told[d].open \ old)
                ELSE s.told[d]]
      <4>1. \A d \in users \ {c} : d \in Client =>
              [left.told[d] EXCEPT !.info = room.users]
                = Knowing(s.told[d], room.users, s.told[d].open \ old)
        <5> SUFFICES ASSUME NEW d \in users \ {c}, d \in Client
                     PROVE  [left.told[d] EXCEPT !.info = room.users]
                              = Knowing(s.told[d], room.users, s.told[d].open \ old)
          OBVIOUS
        <5>1. left.told[d] = Knowing(s.told[d], s.told[d].info, s.told[d].open \ old)
          BY <2>6
        <5> QED BY <5>1 DEF Knowing
      <4> QED BY <2>6, <3>3, <4>1
    <3>5. DropsMember(s, t, c, r)
      BY <2>1, <2>5, <2>6, <2>12, <3>2, <3>3, <3>4 DEF DropsMember, room, users, old
    <3> QED BY <3>5 DEF r
  <2> QED BY <2>10, <2>11, <2>12
<1> QED BY <1>5, <1>6

-----------------------------------------------------------------------------
\* Counting what the rooms hold.

\* What S has for r.
At(S, r) == IF r \in DOMAIN S THEN S[r] ELSE {}

\* All that S has, with where it has it.
Pairs(S) == UNION {{r} \X S[r] : r \in DOMAIN S}

\* A pair is something S has somewhere.
LEMMA InPairs ==
    ASSUME NEW S
    PROVE  /\ \A r, x : <<r, x>> \in Pairs(S) <=> x \in At(S, r)
           /\ \A p \in Pairs(S) : \E r, x : p = <<r, x>>
BY DEF Pairs, At

\* Tagging the elements of a set does not change their number.
LEMMA TaggedCount ==
    ASSUME NEW r, NEW A, IsFiniteSet(A)
    PROVE  IsFiniteSet({r} \X A) /\ Cardinality({r} \X A) = Cardinality(A)
<1> DEFINE f == [x \in A |-> <<r, x>>]
<1>1. f \in Bijection(A, {r} \X A)
  <2>1. f \in [A -> {r} \X A]
    OBVIOUS
  <2>2. \A x, y \in A : f[x] = f[y] => x = y
    OBVIOUS
  <2>3. \A p \in {r} \X A : \E x \in A : f[x] = p
    OBVIOUS
  <2> HIDE DEF f
  <2>4. f \in Injection(A, {r} \X A)
    BY <2>1, <2>2 DEF Injection, IsInjective
  <2>5. f \in Surjection(A, {r} \X A)
    BY <2>1, <2>3 DEF Surjection
  <2> QED BY <2>4, <2>5 DEF Bijection
<1> HIDE DEF f
<1>2. ExistsBijection(A, {r} \X A)
  BY <1>1 DEF ExistsBijection
<1> QED BY <1>2, FS_Bijection

\* When only what is held for r changes, the count changes by that.
LEMMA CountAtOne ==
    ASSUME NEW S, IsFiniteSet(Pairs(S)), NEW T, NEW r,
           \A q : q # r => At(T, q) = At(S, q), IsFiniteSet(At(T, r))
    PROVE  /\ IsFiniteSet(At(S, r))
           /\ Cardinality(Pairs(T))
                = Cardinality(Pairs(S)) - Cardinality(At(S, r)) + Cardinality(At(T, r))
<1> DEFINE A == At(S, r)
           B == At(T, r)
           P == {r} \X A
           Q == {r} \X B
<1>1. P \subseteq Pairs(S) /\ Q \subseteq Pairs(T)
  BY InPairs
<1>2. IsFiniteSet(P)
  BY <1>1, FS_Subset
<1>3. IsFiniteSet(A)
  <2> DEFINE f == [p \in P |-> p[2]]
  <2>1. f \in [P -> A] /\ \A x \in A : \E p \in P : f[p] = x
    <3>1. \A x \in A : <<r, x>> \in P /\ f[<<r, x>>] = x
      OBVIOUS
    <3> QED BY <3>1
  <2> HIDE DEF f, P, A
  <2>2. f \in Surjection(P, A)
    BY <2>1 DEF Surjection
  <2> QED BY <1>2, <2>2, FS_Surjection
<1>4. /\ Cardinality(P) = Cardinality(A) /\ IsFiniteSet(Q)
      /\ Cardinality(Q) = Cardinality(B)
  BY <1>3, TaggedCount
<1>5. Pairs(T) = (Pairs(S) \ P) \cup Q
  <2>1. ASSUME NEW p, p \in Pairs(T) PROVE p \in (Pairs(S) \ P) \cup Q
    <3>1. PICK q, x : p = <<q, x>>
      BY <2>1, InPairs
    <3>2. x \in At(T, q)
      BY <2>1, <3>1, InPairs
    <3>3. CASE q = r
      BY <3>1, <3>2, <3>3
    <3>4. CASE q # r
      <4>1. p \in Pairs(S)
        BY <3>1, <3>2, <3>4, InPairs
      <4> QED BY <3>1, <3>4, <4>1
    <3> QED BY <3>3, <3>4
  <2>2. ASSUME NEW p, p \in Pairs(S) \ P PROVE p \in Pairs(T)
    <3>1. PICK q, x : p = <<q, x>>
      BY <2>2, InPairs
    <3>2. x \in At(S, q)
      BY <2>2, <3>1, InPairs
    <3>3. q # r
      BY <2>2, <3>1, <3>2
    <3> QED BY <3>1, <3>2, <3>3, InPairs
  <2> HIDE DEF P, Q
  <2> QED BY <1>1, <2>1, <2>2
<1>6. (Pairs(S) \ P) \cap Q = {}
  <2>1. ASSUME NEW p, p \in Q, p \in Pairs(S) PROVE p \in P
    <3>1. PICK x \in B : p = <<r, x>>
      BY <2>1
    <3>2. x \in A
      BY <2>1, <3>1, InPairs
    <3> QED BY <3>1, <3>2
  <2> HIDE DEF P, Q
  <2> QED BY <2>1
<1> HIDE DEF A, B, P, Q
<1>7. Pairs(S) \cap P = P
  BY <1>1
<1>8. /\ IsFiniteSet(Pairs(S) \ P)
      /\ Cardinality(Pairs(S) \ P) = Cardinality(Pairs(S)) - Cardinality(P)
  BY <1>7, FS_Difference
<1>9. Cardinality(Pairs(T))
        = Cardinality(Pairs(S) \ P) + Cardinality(Q) - Cardinality((Pairs(S) \ P) \cap Q)
  BY <1>4, <1>5, <1>8, FS_Union
<1>10. Cardinality((Pairs(S) \ P) \cap Q) = 0
  BY <1>6, FS_EmptySet
<1>11. Cardinality(Pairs(S)) \in Nat /\ Cardinality(P) \in Nat /\ Cardinality(Q) \in Nat
  BY <1>2, <1>4, FS_CardinalityType
<1>12. Cardinality(Pairs(T)) = Cardinality(Pairs(S)) - Cardinality(P) + Cardinality(Q)
  BY <1>8, <1>9, <1>10, <1>11
<1> QED BY <1>3, <1>4, <1>12 DEF A, B

UsersAt(s) == [r \in DOMAIN s.rooms |-> DOMAIN s.rooms[r].users]
SessionsAt(s) == [r \in DOMAIN s.rooms |-> s.rooms[r].sessions]

\* The counters agree with the rooms.
Counted(s) ==
    /\ s.metrics.rooms = Cardinality(DOMAIN s.rooms)
    /\ s.metrics.users = Cardinality(Pairs(UsersAt(s)))
    /\ s.metrics.sessions = Cardinality(Pairs(SessionsAt(s)))

\* No more rooms than connections are in some room, so all of this is finite.
LEMMA RoomsFinite ==
    ASSUME NEW s, StateType(s), Matches(s), \A r \in DOMAIN s.rooms : DOMAIN s.rooms[r].users # {}
    PROVE  /\ IsFiniteSet(DOMAIN s.rooms)
           /\ IsFiniteSet(Pairs(UsersAt(s))) /\ IsFiniteSet(Pairs(SessionsAt(s)))
<1> DEFINE C == {c \in DOMAIN s.connected : s.connected[c] \in DOMAIN s.rooms}
           R == DOMAIN s.rooms
           f == [c \in C |-> s.connected[c]]
<1>1. IsFiniteSet(C)
  BY ClientAssumption, FS_Subset DEF StateType, ConnectedType, IsMap
<1>2. IsFiniteSet(R)
  <2>1. f \in [C -> R]
    OBVIOUS
  <2>2. \A r \in R : \E c \in C : f[c] = r
    <3> SUFFICES ASSUME NEW r \in R PROVE \E c \in C : f[c] = r
      OBVIOUS
    <3>1. PICK c : c \in DOMAIN s.rooms[r].users
      OBVIOUS
    <3>2. c \in DOMAIN s.connected /\ s.connected[c] = r
      BY <3>1 DEF Matches
    <3> QED BY <3>2
  <2> HIDE DEF f, C, R
  <2>3. f \in Surjection(C, R)
    BY <2>1, <2>2 DEF Surjection
  <2> QED BY <1>1, <2>3, FS_Surjection
<1>3. IsFiniteSet(R \X Client) /\ IsFiniteSet(R \X Session)
  BY <1>2, ClientAssumption, SessionIsFinite, FS_Product
<1>4. Pairs(UsersAt(s)) \subseteq R \X Client /\ Pairs(SessionsAt(s)) \subseteq R \X Session
  <2>1. \A r \in R : DOMAIN s.rooms[r].users \subseteq Client /\ s.rooms[r].sessions \subseteq Session
    BY DEF StateType, RoomsType, IsRoom, IsMap
  <2>2. \A r, c : <<r, c>> \in Pairs(UsersAt(s)) => r \in R /\ c \in Client
    BY <2>1, InPairs DEF At, UsersAt
  <2>3. \A r, x : <<r, x>> \in Pairs(SessionsAt(s)) => r \in R /\ x \in Session
    BY <2>1, InPairs DEF At, SessionsAt
  <2> HIDE DEF R
  <2>4. ASSUME NEW p \in Pairs(UsersAt(s)) PROVE p \in R \X Client
    <3>1. PICK r, c : p = <<r, c>>
      BY InPairs
    <3> QED BY <2>2, <3>1
  <2>5. ASSUME NEW p \in Pairs(SessionsAt(s)) PROVE p \in R \X Session
    <3>1. PICK r, x : p = <<r, x>>
      BY InPairs
    <3> QED BY <2>3, <3>1
  <2> QED BY <2>4, <2>5
<1> QED BY <1>2, <1>3, <1>4, FS_Subset

\* One room changes: so do the counts.
LEMMA CountedReplaced ==
    ASSUME NEW s, StateType(s), Matches(s),
           \A q \in DOMAIN s.rooms : DOMAIN s.rooms[q].users # {}, Counted(s),
           NEW r \in DOMAIN s.rooms, NEW room, IsRoom(room),
           NEW t, t.rooms = [s.rooms EXCEPT ![r] = room],
           t.metrics = Shifted(s.metrics,
               Cardinality(DOMAIN room.users) - Cardinality(DOMAIN s.rooms[r].users), 0,
               Cardinality(room.sessions) - Cardinality(s.rooms[r].sessions))
    PROVE  Counted(t)
<1> DEFINE was == s.rooms[r]
<1>1. /\ IsFiniteSet(DOMAIN s.rooms) /\ IsFiniteSet(Pairs(UsersAt(s)))
      /\ IsFiniteSet(Pairs(SessionsAt(s)))
  BY RoomsFinite
<1>2. /\ IsFiniteSet(DOMAIN room.users) /\ IsFiniteSet(room.sessions)
      /\ IsFiniteSet(DOMAIN was.users) /\ IsFiniteSet(was.sessions)
  BY ClientAssumption, SessionIsFinite, FS_Subset DEF StateType, RoomsType, IsRoom, IsMap
<1>3. /\ DOMAIN t.rooms = DOMAIN s.rooms /\ t.rooms[r] = room
      /\ \A q \in DOMAIN s.rooms : q # r => t.rooms[q] = s.rooms[q]
  OBVIOUS
<1>4. /\ At(UsersAt(t), r) = DOMAIN room.users /\ At(UsersAt(s), r) = DOMAIN was.users
      /\ \A q : q # r => At(UsersAt(t), q) = At(UsersAt(s), q)
      /\ At(SessionsAt(t), r) = room.sessions /\ At(SessionsAt(s), r) = was.sessions
      /\ \A q : q # r => At(SessionsAt(t), q) = At(SessionsAt(s), q)
  BY <1>3 DEF At, UsersAt, SessionsAt
<1>5. Cardinality(Pairs(UsersAt(t)))
        = Cardinality(Pairs(UsersAt(s))) - Cardinality(DOMAIN was.users) + Cardinality(DOMAIN room.users)
  BY <1>1, <1>2, <1>4, CountAtOne
<1>6. Cardinality(Pairs(SessionsAt(t)))
        = Cardinality(Pairs(SessionsAt(s))) - Cardinality(was.sessions) + Cardinality(room.sessions)
  BY <1>1, <1>2, <1>4, CountAtOne
<1>7. /\ Cardinality(Pairs(UsersAt(s))) \in Nat /\ Cardinality(Pairs(SessionsAt(s))) \in Nat
      /\ Cardinality(DOMAIN was.users) \in Nat /\ Cardinality(DOMAIN room.users) \in Nat
      /\ Cardinality(was.sessions) \in Nat /\ Cardinality(room.sessions) \in Nat
      /\ Cardinality(DOMAIN s.rooms) \in Nat
  BY <1>1, <1>2, FS_CardinalityType
<1> QED BY <1>3, <1>5, <1>6, <1>7 DEF Counted, Shifted

\* A room is gone.
LEMMA CountedWithout ==
    ASSUME NEW s, StateType(s), Matches(s),
           \A q \in DOMAIN s.rooms : DOMAIN s.rooms[q].users # {}, Counted(s),
           NEW r \in DOMAIN s.rooms, NEW t, t.rooms = Without(s.rooms, {r}),
           t.metrics = Shifted(s.metrics, -Cardinality(DOMAIN s.rooms[r].users), -1,
                               -Cardinality(s.rooms[r].sessions))
    PROVE  Counted(t)
<1> DEFINE was == s.rooms[r]
<1>1. /\ IsFiniteSet(DOMAIN s.rooms) /\ IsFiniteSet(Pairs(UsersAt(s)))
      /\ IsFiniteSet(Pairs(SessionsAt(s)))
  BY RoomsFinite
<1>2. DOMAIN t.rooms = DOMAIN s.rooms \ {r} /\ \A q \in DOMAIN t.rooms : t.rooms[q] = s.rooms[q]
  BY DEF Without
<1>3. /\ At(UsersAt(t), r) = {} /\ At(UsersAt(s), r) = DOMAIN was.users
      /\ \A q : q # r => At(UsersAt(t), q) = At(UsersAt(s), q)
      /\ At(SessionsAt(t), r) = {} /\ At(SessionsAt(s), r) = was.sessions
      /\ \A q : q # r => At(SessionsAt(t), q) = At(SessionsAt(s), q)
  BY <1>2 DEF At, UsersAt, SessionsAt
<1>4. /\ Cardinality({}) = 0
      /\ IsFiniteSet(At(UsersAt(t), r)) /\ IsFiniteSet(At(SessionsAt(t), r))
  BY <1>3, FS_EmptySet
<1>5. /\ IsFiniteSet(DOMAIN was.users)
      /\ Cardinality(Pairs(UsersAt(t)))
           = Cardinality(Pairs(UsersAt(s))) - Cardinality(DOMAIN was.users) + Cardinality({})
  BY <1>1, <1>3, <1>4, CountAtOne
<1>6. /\ IsFiniteSet(was.sessions)
      /\ Cardinality(Pairs(SessionsAt(t)))
           = Cardinality(Pairs(SessionsAt(s))) - Cardinality(was.sessions) + Cardinality({})
  <2> DEFINE S == SessionsAt(s)
             T == SessionsAt(t)
  <2>1. /\ IsFiniteSet(Pairs(S)) /\ IsFiniteSet(At(T, r)) /\ At(T, r) = {}
        /\ At(S, r) = was.sessions /\ \A q : q # r => At(T, q) = At(S, q)
    BY <1>1, <1>3, <1>4
  <2> HIDE DEF S, T
  <2>2. /\ IsFiniteSet(At(S, r))
        /\ Cardinality(Pairs(T))
             = Cardinality(Pairs(S)) - Cardinality(At(S, r)) + Cardinality(At(T, r))
    BY <2>1, CountAtOne
  <2> QED BY <2>1, <2>2 DEF S, T
<1>7. Cardinality(DOMAIN t.rooms) = Cardinality(DOMAIN s.rooms) - 1
  BY <1>1, <1>2, FS_RemoveElement
<1>8. /\ Cardinality(Pairs(UsersAt(s))) \in Nat /\ Cardinality(Pairs(SessionsAt(s))) \in Nat
      /\ Cardinality(DOMAIN was.users) \in Nat /\ Cardinality(was.sessions) \in Nat
      /\ Cardinality(DOMAIN s.rooms) \in Nat
  BY <1>1, <1>5, <1>6, FS_CardinalityType
<1> QED BY <1>4, <1>5, <1>6, <1>7, <1>8 DEF Counted, Shifted

\* A room of one is new.
LEMMA CountedPut ==
    ASSUME NEW s, StateType(s), Matches(s),
           \A q \in DOMAIN s.rooms : DOMAIN s.rooms[q].users # {}, Counted(s),
           NEW r, r \notin DOMAIN s.rooms, NEW room, NEW c, DOMAIN room.users = {c},
           room.sessions = {}, NEW t, t.rooms = Put(s.rooms, r, room),
           t.metrics = Shifted(s.metrics, 1, 1, 0)
    PROVE  Counted(t)
<1>1. /\ IsFiniteSet(DOMAIN s.rooms) /\ IsFiniteSet(Pairs(UsersAt(s)))
      /\ IsFiniteSet(Pairs(SessionsAt(s)))
  BY RoomsFinite
<1>2. /\ DOMAIN t.rooms = DOMAIN s.rooms \cup {r} /\ t.rooms[r] = room
      /\ \A q \in DOMAIN s.rooms : t.rooms[q] = s.rooms[q]
  BY DEF Put
<1>3. /\ At(UsersAt(s), r) = {} /\ At(UsersAt(t), r) = {c}
      /\ \A q : q # r => At(UsersAt(t), q) = At(UsersAt(s), q)
      /\ At(SessionsAt(s), r) = {} /\ At(SessionsAt(t), r) = {}
      /\ \A q : q # r => At(SessionsAt(t), q) = At(SessionsAt(s), q)
  BY <1>2 DEF At, UsersAt, SessionsAt
<1>4. /\ Cardinality({}) = 0 /\ IsFiniteSet({})
      /\ Cardinality({c}) = 1 /\ IsFiniteSet({c})
  <2>1. Cardinality({}) = 0 /\ IsFiniteSet({})
    BY FS_EmptySet
  <2>2. Cardinality({c}) = 1 /\ IsFiniteSet({c})
    BY FS_Singleton
  <2> QED BY <2>1, <2>2
<1>5. Cardinality(Pairs(UsersAt(t)))
        = Cardinality(Pairs(UsersAt(s))) - Cardinality({}) + Cardinality({c})
  <2> DEFINE S == UsersAt(s)
             T == UsersAt(t)
  <2>1. /\ IsFiniteSet(Pairs(S)) /\ IsFiniteSet(At(T, r))
        /\ \A q : q # r => At(T, q) = At(S, q)
    BY <1>1, <1>3, <1>4
  <2>2. At(S, r) = {} /\ At(T, r) = {c}
    BY <1>3
  <2> HIDE DEF S, T
  <2>3. Cardinality(Pairs(T))
          = Cardinality(Pairs(S)) - Cardinality(At(S, r)) + Cardinality(At(T, r))
    BY <2>1, CountAtOne
  <2> QED BY <2>2, <2>3 DEF S, T
<1>6. Cardinality(Pairs(SessionsAt(t)))
        = Cardinality(Pairs(SessionsAt(s))) - Cardinality({}) + Cardinality({})
  <2> DEFINE S == SessionsAt(s)
             T == SessionsAt(t)
  <2>1. /\ IsFiniteSet(Pairs(S)) /\ IsFiniteSet(At(T, r))
        /\ \A q : q # r => At(T, q) = At(S, q)
    BY <1>1, <1>3, <1>4
  <2>2. At(S, r) = {} /\ At(T, r) = {}
    BY <1>3
  <2> HIDE DEF S, T
  <2>3. Cardinality(Pairs(T))
          = Cardinality(Pairs(S)) - Cardinality(At(S, r)) + Cardinality(At(T, r))
    BY <2>1, CountAtOne
  <2> QED BY <2>2, <2>3 DEF S, T
<1>7. Cardinality(DOMAIN t.rooms) = Cardinality(DOMAIN s.rooms) + 1
  BY <1>1, <1>2, FS_AddElement
<1>8. /\ Cardinality(Pairs(UsersAt(s))) \in Nat /\ Cardinality(Pairs(SessionsAt(s))) \in Nat
      /\ Cardinality(DOMAIN s.rooms) \in Nat
  BY <1>1, FS_CardinalityType
<1> QED BY <1>4, <1>5, <1>6, <1>7, <1>8 DEF Counted, Shifted

-----------------------------------------------------------------------------
\* The ledger, said of the state as a value.

\* Every credential of the TURN server is that of a session, and the other way round.
TurnKept(s) ==
    \A k : k \in s.lookup <=>
        \E r \in DOMAIN s.rooms :
            s.rooms[r].mode = "turn" /\ k \in Credentials(s.rooms[r].sessions)

\* What connections were told of sessions is what there is.
Known(s) ==
    \A d \in Client :
        /\ d \notin DOMAIN s.connected => s.told[d] = Gone
        /\ d \in DOMAIN s.connected =>
            /\ s.told[d].closes = 0
            /\ s.connected[d] = NoRoom => s.told[d].open = {}
            /\ s.connected[d] # NoRoom =>
                   s.told[d].open = SessionsOf(s.rooms[s.connected[d]].sessions, d)

\* Members have the list of members, except in the rooms X, where a handler has yet
\* to send it.
Informed(s, X) ==
    \A r \in DOMAIN s.rooms \ X : \A d \in DOMAIN s.rooms[r].users :
        s.told[d].info = s.rooms[r].users

Ledger(s, X) == TurnKept(s) /\ Known(s) /\ Informed(s, X) /\ Counted(s)

\* The ends of a session are connected to its room, so a session is of one room.
LEMMA EndsConnected ==
    ASSUME NEW s, Safe(s), NEW r \in DOMAIN s.rooms, NEW x \in s.rooms[r].sessions
    PROVE  /\ x.host \in DOMAIN s.rooms[r].users /\ x.client \in DOMAIN s.rooms[r].users
           /\ x.host \in DOMAIN s.connected /\ s.connected[x.host] = r
           /\ x.client \in DOMAIN s.connected /\ s.connected[x.client] = r
BY DEF Safe, RoomsSafe, RoomSafe, SessionsJoin, Matches

\* What a safe state is made of, for its rooms.
LEMMA SafeRooms ==
    ASSUME NEW s, Safe(s)
    PROVE  /\ StateType(s) /\ Matches(s)
           /\ \A r \in DOMAIN s.rooms : IsRoom(s.rooms[r])
           /\ \A r \in DOMAIN s.rooms : DOMAIN s.rooms[r].users # {}
           /\ \A r \in DOMAIN s.rooms : s.rooms[r].sessions \subseteq Session
           /\ \A r \in DOMAIN s.rooms : DOMAIN s.rooms[r].users \subseteq Client
BY DEF Safe, RoomsSafe, RoomSafe, Attended, StateType, RoomsType, IsRoom, IsMap

\* The credentials follow when the sessions of one room become others: new ones are
\* allowed,
LEMMA TurnOpened ==
    ASSUME NEW s, TurnKept(s), NEW r \in DOMAIN s.rooms, NEW new, NEW room,
           room.mode = s.rooms[r].mode, room.sessions = s.rooms[r].sessions \cup new,
           NEW t, DOMAIN t.rooms = DOMAIN s.rooms, t.rooms[r] = room,
           \A q \in DOMAIN s.rooms \ {r} : t.rooms[q] = s.rooms[q],
           t.lookup = Allowed(s.lookup, s.rooms[r].mode, new)
    PROVE  TurnKept(t)
<1>1. /\ DOMAIN t.rooms = DOMAIN s.rooms /\ t.rooms[r] = room
      /\ \A q \in DOMAIN s.rooms \ {r} : t.rooms[q] = s.rooms[q]
  OBVIOUS
<1>2. \A k : k \in Credentials(room.sessions)
                <=> k \in Credentials(s.rooms[r].sessions) \/ k \in Credentials(new)
  BY DEF Credentials, Side
<1>3. \A k : k \in t.lookup <=>
             k \in s.lookup \/ (s.rooms[r].mode = "turn" /\ k \in Credentials(new))
  BY DEF Allowed
<1>4. \A k : k \in t.lookup <=>
        \/ s.rooms[r].mode = "turn" /\ k \in Credentials(room.sessions)
        \/ \E q \in DOMAIN s.rooms \ {r} :
               s.rooms[q].mode = "turn" /\ k \in Credentials(s.rooms[q].sessions)
  BY <1>2, <1>3 DEF TurnKept
<1> SUFFICES ASSUME NEW k
             PROVE  k \in t.lookup <=> \E q \in DOMAIN t.rooms :
                        t.rooms[q].mode = "turn" /\ k \in Credentials(t.rooms[q].sessions)
  BY DEF TurnKept
<1>5. (\E q \in DOMAIN t.rooms :
            t.rooms[q].mode = "turn" /\ k \in Credentials(t.rooms[q].sessions))
        <=> \/ s.rooms[r].mode = "turn" /\ k \in Credentials(room.sessions)
            \/ \E q \in DOMAIN s.rooms \ {r} :
                   s.rooms[q].mode = "turn" /\ k \in Credentials(s.rooms[q].sessions)
  BY <1>1
<1> QED BY <1>4, <1>5

\* old ones are disallowed,
LEMMA TurnClosed ==
    ASSUME NEW s, Safe(s), TurnKept(s), NEW r \in DOMAIN s.rooms, NEW old,
           old \subseteq s.rooms[r].sessions, NEW room,
           room.mode = s.rooms[r].mode, room.sessions = s.rooms[r].sessions \ old,
           NEW t, t.rooms = [s.rooms EXCEPT ![r] = room],
           t.lookup = Disallowed(s.lookup, s.rooms[r].mode, old)
    PROVE  TurnKept(t)
<1>1. /\ DOMAIN t.rooms = DOMAIN s.rooms /\ t.rooms[r] = room
      /\ \A q \in DOMAIN s.rooms \ {r} : t.rooms[q] = s.rooms[q]
  OBVIOUS
<1>2. \A k : k \in Credentials(room.sessions)
                <=> k \in Credentials(s.rooms[r].sessions) /\ k \notin Credentials(old)
  BY DEF Credentials, Side
<1>3. \A q \in DOMAIN s.rooms \ {r} : \A k :
        k \in Credentials(s.rooms[q].sessions) => k \notin Credentials(old)
  <2>1. \A q \in DOMAIN s.rooms \ {r} : \A x \in s.rooms[q].sessions : x \notin old
    BY EndsConnected
  <2> QED BY <2>1 DEF Credentials, Side
<1>4. \A k : k \in t.lookup <=>
             k \in s.lookup /\ (s.rooms[r].mode = "turn" => k \notin Credentials(old))
  BY DEF Disallowed
<1>5. \A k : k \in t.lookup <=>
        \/ s.rooms[r].mode = "turn" /\ k \in Credentials(room.sessions)
        \/ \E q \in DOMAIN s.rooms \ {r} :
               s.rooms[q].mode = "turn" /\ k \in Credentials(s.rooms[q].sessions)
  BY <1>2, <1>3, <1>4 DEF TurnKept
<1> SUFFICES ASSUME NEW k
             PROVE  k \in t.lookup <=> \E q \in DOMAIN t.rooms :
                        t.rooms[q].mode = "turn" /\ k \in Credentials(t.rooms[q].sessions)
  BY DEF TurnKept
<1>6. (\E q \in DOMAIN t.rooms :
            t.rooms[q].mode = "turn" /\ k \in Credentials(t.rooms[q].sessions))
        <=> \/ s.rooms[r].mode = "turn" /\ k \in Credentials(room.sessions)
            \/ \E q \in DOMAIN s.rooms \ {r} :
                   s.rooms[q].mode = "turn" /\ k \in Credentials(s.rooms[q].sessions)
  BY <1>1
<1> QED BY <1>5, <1>6

\* those of a room that is deleted too,
LEMMA TurnWithout ==
    ASSUME NEW s, Safe(s), TurnKept(s), NEW r \in DOMAIN s.rooms,
           NEW t, t.rooms = Without(s.rooms, {r}),
           t.lookup = Disallowed(s.lookup, s.rooms[r].mode, s.rooms[r].sessions)
    PROVE  TurnKept(t)
<1>1. /\ DOMAIN t.rooms = DOMAIN s.rooms \ {r}
      /\ \A q \in DOMAIN t.rooms : t.rooms[q] = s.rooms[q]
  BY DEF Without
<1>2. \A q \in DOMAIN s.rooms \ {r} : \A k :
        k \in Credentials(s.rooms[q].sessions) => k \notin Credentials(s.rooms[r].sessions)
  <2>1. \A q \in DOMAIN s.rooms \ {r} : \A x \in s.rooms[q].sessions : x \notin s.rooms[r].sessions
    BY EndsConnected
  <2> QED BY <2>1 DEF Credentials, Side
<1>3. \A k : k \in t.lookup <=> k \in s.lookup /\
             (s.rooms[r].mode = "turn" => k \notin Credentials(s.rooms[r].sessions))
  BY DEF Disallowed
<1> QED BY <1>1, <1>2, <1>3 DEF TurnKept

\* and a new room has none.
LEMMA TurnPut ==
    ASSUME NEW s, TurnKept(s), NEW r, r \notin DOMAIN s.rooms, NEW room, room.sessions = {},
           NEW t, t.rooms = Put(s.rooms, r, room), t.lookup = s.lookup
    PROVE  TurnKept(t)
<1>1. /\ DOMAIN t.rooms = DOMAIN s.rooms \cup {r} /\ t.rooms[r] = room
      /\ \A q \in DOMAIN s.rooms : t.rooms[q] = s.rooms[q]
  BY DEF Put
<1>2. \A k : k \notin Credentials(room.sessions)
  BY DEF Credentials
<1> QED BY <1>1, <1>2 DEF TurnKept

\* What a connection was told once it is over.
LEMMA OverIsGone ==
    ASSUME NEW m, m.closes = 0
    PROVE  Over(m) = Gone
BY DEF Over, Gone

-----------------------------------------------------------------------------
\* What the steps of the handlers do to the ledger.

\* Telling a room its members.
LEMMA NotifyLedger ==
    ASSUME NEW s, Safe(s), NEW r \in DOMAIN s.rooms, Ledger(s, {r})
    PROVE  Ledger(NotifyInfoChanged(s, r), {})
<1> DEFINE t == NotifyInfoChanged(s, r)
           U == s.rooms[r].users
<1>1. Notifies(s, t, r)
  BY NotifyEffect DEF Safe, StateType
<1> HIDE DEF t
<1>2. /\ t.rooms = s.rooms /\ t.connected = s.connected /\ t.lookup = s.lookup
      /\ t.metrics = s.metrics
      /\ t.told = [d \in Client |->
            IF d \in DOMAIN U THEN [s.told[d] EXCEPT !.info = U] ELSE s.told[d]]
  BY <1>1 DEF Notifies, Tells
<1>3. \A d \in Client : IsTold(s.told[d])
  BY DEF Safe, StateType, ToldType
<1>4. \A d \in Client \ DOMAIN U : t.told[d] = s.told[d]
  BY <1>2
<1>5. DOMAIN U \subseteq Client
  BY SafeRooms
<1>6. \A d \in DOMAIN U : t.told[d] = Knowing(s.told[d], U, s.told[d].open)
  BY <1>2, <1>3, <1>5, KnowingFields
<1>7. \A d \in DOMAIN U : t.told[d].info = U /\ t.told[d].open = s.told[d].open
                          /\ t.told[d].closes = s.told[d].closes
  <2> SUFFICES ASSUME NEW d \in DOMAIN U
               PROVE  /\ t.told[d].info = U /\ t.told[d].open = s.told[d].open
                      /\ t.told[d].closes = s.told[d].closes
    OBVIOUS
  <2>1. t.told[d] = Knowing(s.told[d], U, s.told[d].open)
    BY <1>6
  <2> HIDE DEF U
  <2> QED BY <2>1 DEF Knowing
<1>8. \A d \in DOMAIN U : d \in DOMAIN s.connected /\ s.connected[d] = r
  BY DEF Safe, Matches
<1>9. TurnKept(t)
  BY <1>2 DEF Ledger, TurnKept
<1>10. Known(t)
  BY <1>2, <1>4, <1>5, <1>7, <1>8 DEF Ledger, Known
<1>11. Counted(t)
  BY <1>2 DEF Ledger, Counted, UsersAt, SessionsAt
<1>12. Informed(t, {})
  <2> SUFFICES ASSUME NEW q \in DOMAIN s.rooms, NEW d \in DOMAIN s.rooms[q].users
               PROVE  t.told[d].info = s.rooms[q].users
    BY <1>2 DEF Informed
  <2>1. CASE q = r
    BY <1>7, <2>1
  <2>2. CASE q # r
    <3>1. d \in Client /\ s.connected[d] = q
      BY SafeRooms DEF Safe, Matches
    <3>2. t.told[d] = s.told[d]
      BY <1>4, <1>8, <2>2, <3>1
    <3> QED BY <2>2, <3>2 DEF Ledger, Informed
  <2> QED BY <2>1, <2>2
<1> QED BY <1>9, <1>10, <1>11, <1>12 DEF Ledger, t

\* Opening sessions between members of a room.
LEMMA OpenLedger ==
    ASSUME NEW s, Safe(s), NEW X, Ledger(s, X), NEW r \in DOMAIN s.rooms, NEW new,
           new \subseteq Session, new \cap s.rooms[r].sessions = {},
           \A x \in new : {x.host, x.client} \subseteq DOMAIN s.rooms[r].users
    PROVE  Ledger(OpenSessions(s, r, new), X)
<1> DEFINE t == OpenSessions(s, r, new)
           was == s.rooms[r]
           room == RoomShowing(was, new)
<1>1. OpensSessions(s, t, r, new) /\ RoomBecomes(s, t, r, room)
  BY OpenSessionsEffect, ShowingShape DEF Safe, StateType
<1> HIDE DEF t
<1>2. IsRoom(was) /\ was.sessions \subseteq Session /\ DOMAIN was.users \subseteq Client
  BY SafeRooms
<1>3. /\ room.sessions = was.sessions \cup new /\ room.users = was.users
      /\ room.mode = was.mode
  BY <1>2 DEF RoomShowing, IsRoom
<1>4. IsRoom(room)
  BY <1>2, RoomSessionsType DEF RoomShowing
<1> HIDE DEF room
<1>5. /\ t.rooms = [s.rooms EXCEPT ![r] = room] /\ t.connected = s.connected
      /\ t.lookup = IF was.mode = "turn" THEN s.lookup \cup Credentials(new) ELSE s.lookup
      /\ t.told = [d \in Client |-> [s.told[d] EXCEPT !.open = @ \cup SessionsOf(new, d)]]
      /\ t.metrics = [s.metrics EXCEPT !.sessions = @ + Cardinality(new)]
  BY <1>1 DEF OpensSessions, RoomBecomes
<1>6. /\ DOMAIN t.rooms = DOMAIN s.rooms /\ t.rooms[r] = room
      /\ \A q \in DOMAIN s.rooms \ {r} : t.rooms[q] = s.rooms[q]
  BY <1>5
<1>7. TurnKept(t)
  <2>1. /\ room.mode = s.rooms[r].mode /\ room.sessions = s.rooms[r].sessions \cup new
        /\ DOMAIN t.rooms = DOMAIN s.rooms /\ t.rooms[r] = room
        /\ \A q \in DOMAIN s.rooms \ {r} : t.rooms[q] = s.rooms[q]
        /\ t.lookup = Allowed(s.lookup, s.rooms[r].mode, new)
    BY <1>3, <1>5, <1>6 DEF Allowed
  <2>2. TurnKept(s)
    BY DEF Ledger
  <2> QED BY <2>1, <2>2, TurnOpened
<1>8. \A d \in Client :
        /\ t.told[d].info = s.told[d].info /\ t.told[d].closes = s.told[d].closes
        /\ t.told[d].open = s.told[d].open \cup SessionsOf(new, d)
        /\ IsTold(t.told[d]) /\ IsTold(s.told[d])
  <2> SUFFICES ASSUME NEW d \in Client
               PROVE  /\ t.told[d].info = s.told[d].info /\ t.told[d].closes = s.told[d].closes
                      /\ t.told[d].open = s.told[d].open \cup SessionsOf(new, d)
                      /\ IsTold(t.told[d]) /\ IsTold(s.told[d])
    OBVIOUS
  <2>1. IsTold(s.told[d])
    BY DEF Safe, StateType, ToldType
  <2>2. SessionsOf(new, d) \subseteq Session
    BY DEF SessionsOf
  <2>3. t.told[d] = Knowing(s.told[d], s.told[d].info, s.told[d].open \cup SessionsOf(new, d))
    <3>1. t.told[d] = [s.told[d] EXCEPT !.open = s.told[d].open \cup SessionsOf(new, d)]
      BY <1>5
    <3> QED BY <2>1, <3>1, KnowingFields
  <2> QED BY <2>1, <2>2, <2>3 DEF Knowing, IsTold
<1>9. \A d \in Client : d \notin DOMAIN was.users => SessionsOf(new, d) = {}
  BY DEF SessionsOf
<1>10. Known(t)
  <2> SUFFICES ASSUME NEW d \in Client
               PROVE  /\ d \notin DOMAIN s.connected => t.told[d] = Gone
                      /\ d \in DOMAIN s.connected =>
                          /\ t.told[d].closes = 0
                          /\ s.connected[d] = NoRoom => t.told[d].open = {}
                          /\ s.connected[d] # NoRoom =>
                               t.told[d].open = SessionsOf(t.rooms[s.connected[d]].sessions, d)
    BY <1>5 DEF Known
  <2>1. d \in DOMAIN was.users => d \in DOMAIN s.connected /\ s.connected[d] = r /\ r # NoRoom
    BY RoomIdAssumption DEF Safe, StateType, RoomsType, Matches
  <2>2. CASE d \in DOMAIN was.users
    <3>1. s.told[d].open = SessionsOf(was.sessions, d) /\ s.told[d].closes = 0
      BY <2>1, <2>2 DEF Ledger, Known
    <3>2. SessionsOf(room.sessions, d) = SessionsOf(was.sessions, d) \cup SessionsOf(new, d)
      BY <1>3 DEF SessionsOf
    <3> QED BY <1>6, <1>8, <2>1, <2>2, <3>1, <3>2
  <2>3. CASE d \notin DOMAIN was.users
    <3>1. t.told[d].open = s.told[d].open
      BY <1>8, <1>9, <2>3
    <3>2. t.told[d] = s.told[d]
      BY <1>8, <3>1 DEF IsTold
    <3>3. d \in DOMAIN s.connected => s.connected[d] # r
      BY <2>3, RoomIdAssumption DEF Safe, StateType, RoomsType, Matches
    <3>4. d \in DOMAIN s.connected /\ s.connected[d] # NoRoom
            => s.connected[d] \in DOMAIN s.rooms
      BY DEF Safe, Matches
    <3> QED BY <1>6, <3>2, <3>3, <3>4 DEF Ledger, Known
  <2> QED BY <2>2, <2>3
<1>11. Counted(t)
  <2>1. /\ Cardinality(new) \in Nat /\ Cardinality(was.sessions) \in Nat
        /\ Cardinality(DOMAIN was.users) \in Nat
    BY <1>2, SessionsCounted, UsersCounted
  <2>2. Cardinality(room.sessions) = Cardinality(was.sessions) + Cardinality(new)
    <3>1. IsFiniteSet(was.sessions) /\ IsFiniteSet(new) /\ was.sessions \cap new = {}
      BY <1>2, SessionIsFinite, FS_Subset
    <3>2. Cardinality(was.sessions \cup new) = Cardinality(was.sessions) + Cardinality(new)
                                                 - Cardinality(was.sessions \cap new)
      BY <3>1, FS_Union
    <3>3. Cardinality(was.sessions \cap new) = 0
      BY <3>1, FS_EmptySet
    <3> QED BY <1>3, <2>1, <3>2, <3>3
  <2>3. t.metrics = Shifted(s.metrics, 0, 0, Cardinality(new))
    BY <1>5, <2>1, ShiftedBySessions DEF Safe, StateType
  <2>4. /\ Cardinality(DOMAIN room.users) - Cardinality(DOMAIN was.users) = 0
        /\ Cardinality(room.sessions) - Cardinality(was.sessions) = Cardinality(new)
    BY <1>3, <2>1, <2>2
  <2>5. t.metrics = Shifted(s.metrics,
               Cardinality(DOMAIN room.users) - Cardinality(DOMAIN was.users), 0,
               Cardinality(room.sessions) - Cardinality(was.sessions))
    BY <2>3, <2>4
  <2>6. /\ t.rooms = [s.rooms EXCEPT ![r] = room] /\ Counted(s) /\ StateType(s) /\ Matches(s)
        /\ \A q \in DOMAIN s.rooms : DOMAIN s.rooms[q].users # {}
    BY <1>5, SafeRooms DEF Ledger
  <2> QED BY <1>4, <2>5, <2>6, CountedReplaced
<1>12. Informed(t, X)
  <2> SUFFICES ASSUME NEW q \in DOMAIN s.rooms \ X, NEW d \in DOMAIN t.rooms[q].users
               PROVE  t.told[d].info = t.rooms[q].users
    BY <1>6 DEF Informed
  <2>1. t.rooms[q].users = s.rooms[q].users
    BY <1>3, <1>6
  <2>2. d \in Client
    BY <2>1, SafeRooms
  <2> QED BY <1>8, <2>1, <2>2 DEF Ledger, Informed
<1> QED BY <1>7, <1>10, <1>11, <1>12 DEF Ledger, t

\* Nothing changes for who is not in the room.
LEMMA KnownInRoom ==
    ASSUME NEW s, Safe(s), Known(s), NEW r \in DOMAIN s.rooms, NEW t,
           t.connected = s.connected,
           \A q \in DOMAIN s.rooms \ {r} : t.rooms[q].sessions = s.rooms[q].sessions,
           \A d \in DOMAIN s.rooms[r].users :
               /\ t.told[d].closes = s.told[d].closes
               /\ t.told[d].open = SessionsOf(t.rooms[r].sessions, d),
           \A d \in Client \ DOMAIN s.rooms[r].users : t.told[d] = s.told[d]
    PROVE  Known(t)
<1> SUFFICES ASSUME NEW d \in Client
             PROVE  /\ d \notin DOMAIN s.connected => t.told[d] = Gone
                    /\ d \in DOMAIN s.connected =>
                        /\ t.told[d].closes = 0
                        /\ s.connected[d] = NoRoom => t.told[d].open = {}
                        /\ s.connected[d] # NoRoom =>
                             t.told[d].open = SessionsOf(t.rooms[s.connected[d]].sessions, d)
  BY DEF Known
<1>1. CASE d \in DOMAIN s.rooms[r].users
  <2>1. d \in DOMAIN s.connected /\ s.connected[d] = r /\ r # NoRoom
    BY <1>1, RoomIdAssumption DEF Safe, StateType, RoomsType, Matches
  <2> QED BY <1>1, <2>1 DEF Known
<1>2. CASE d \notin DOMAIN s.rooms[r].users
  <2>1. t.told[d] = s.told[d]
    BY <1>2
  <2>2. d \in DOMAIN s.connected => s.connected[d] # r
    BY <1>2, RoomIdAssumption DEF Safe, StateType, RoomsType, Matches
  <2>3. d \in DOMAIN s.connected /\ s.connected[d] # NoRoom
          => s.connected[d] \in DOMAIN s.rooms \ {r}
    BY <2>2 DEF Safe, Matches
  <2> QED BY <2>1, <2>3 DEF Known
<1> QED BY <1>1, <1>2

\* Who is in another room keeps its list.
LEMMA InformedElsewhere ==
    ASSUME NEW s, Safe(s), NEW X, Informed(s, X), NEW r \in DOMAIN s.rooms, NEW t,
           DOMAIN t.rooms \subseteq DOMAIN s.rooms,
           \A q \in DOMAIN t.rooms \ {r} : t.rooms[q].users = s.rooms[q].users,
           \A d \in Client : t.told[d].info # s.told[d].info =>
               d \notin DOMAIN s.connected \/ s.connected[d] \in {r, NoRoom}
    PROVE  Informed(t, X \cup {r})
<1> SUFFICES ASSUME NEW q \in DOMAIN t.rooms, q \notin X, q # r,
                    NEW d \in DOMAIN t.rooms[q].users
             PROVE  t.told[d].info = t.rooms[q].users
  BY DEF Informed
<1>1. q \in DOMAIN s.rooms /\ t.rooms[q].users = s.rooms[q].users
  OBVIOUS
<1>2. d \in Client /\ d \in DOMAIN s.connected /\ s.connected[d] = q /\ q # NoRoom
  BY <1>1, SafeRooms, RoomIdAssumption DEF Safe, StateType, RoomsType, Matches
<1>3. t.told[d].info = s.told[d].info
  BY <1>2
<1> QED BY <1>1, <1>3 DEF Informed

\* Setting Streaming: the members have yet to hear of it.
LEMMA StreamingLedger ==
    ASSUME NEW s, Safe(s), Ledger(s, {}), NEW r \in DOMAIN s.rooms,
           NEW c \in DOMAIN s.rooms[r].users, NEW on \in BOOLEAN
    PROVE  Ledger(Streaming(s, c, r, on), {r})
<1> DEFINE t == Streaming(s, c, r, on)
           room == RoomStreaming(s.rooms[r], c, on)
<1>1. SetsStreaming(s, t, c, r, on) /\ RoomBecomes(s, t, r, room)
  BY StreamingEffect, StreamingShape DEF Safe, StateType
<1>2. IsRoom(s.rooms[r])
  BY SafeRooms
<1>3. /\ room.sessions = s.rooms[r].sessions /\ room.mode = s.rooms[r].mode
      /\ DOMAIN room.users = DOMAIN s.rooms[r].users
  BY <1>2 DEF IsRoom, RoomStreaming
<1> HIDE DEF t, room
<1>4. /\ t.rooms = [s.rooms EXCEPT ![r] = room] /\ t.connected = s.connected
      /\ t.lookup = s.lookup /\ t.told = s.told /\ t.metrics = s.metrics
  BY <1>1 DEF SetsStreaming, RoomBecomes
<1>5. /\ DOMAIN t.rooms = DOMAIN s.rooms /\ t.rooms[r] = room
      /\ \A q \in DOMAIN s.rooms \ {r} : t.rooms[q] = s.rooms[q]
  BY <1>4
<1>6. \A q \in DOMAIN s.rooms :
        /\ t.rooms[q].sessions = s.rooms[q].sessions /\ t.rooms[q].mode = s.rooms[q].mode
        /\ DOMAIN t.rooms[q].users = DOMAIN s.rooms[q].users
  BY <1>3, <1>5
<1>7. TurnKept(t)
  BY <1>4, <1>5, <1>6 DEF Ledger, TurnKept
<1>8. Known(t)
  <2>1. \A d \in DOMAIN s.connected :
          s.connected[d] # NoRoom => s.connected[d] \in DOMAIN s.rooms
    BY DEF Safe, Matches
  <2> QED BY <1>4, <1>6, <2>1 DEF Ledger, Known
<1>9. Informed(t, {r})
  BY <1>4, <1>5 DEF Ledger, Informed
<1>10. Counted(t)
  <2>1. UsersAt(t) = UsersAt(s) /\ SessionsAt(t) = SessionsAt(s)
    BY <1>5, <1>6 DEF UsersAt, SessionsAt
  <2> QED BY <1>4, <1>5, <2>1 DEF Ledger, Counted
<1> QED BY <1>7, <1>8, <1>9, <1>10 DEF Ledger, t

\* Joining: everybody in the room hears of the newcomer, who has no sessions yet.
LEMMA JoinedLedger ==
    ASSUME NEW s, Safe(s), Ledger(s, {}), NEW c \in DOMAIN s.connected,
           s.connected[c] = NoRoom, NEW r \in DOMAIN s.rooms,
           NEW v \in Visitor \cup {Blank}, NEW name, name \in Nat \ {0},
           NEW t, t = Joined(s, c, r, v, name)
    PROVE  Ledger(t, {})
<1> DEFINE was  == s.rooms[r]
           user == JoinedUser(s, c, r, v, name)
           m    == UserAdded(s, c, r, user)
           room == RoomWith(was, c, user)
<1>1. t = NotifyInfoChanged(m, r)
  BY DEF Joined, JoinedUser
<1>2. AddsUser(s, m, c, r, user)
  BY UserAddedEffect DEF Safe, StateType
<1>3. t.rooms = [s.rooms EXCEPT ![r] = room] /\ t.connected = [s.connected EXCEPT ![c] = r]
  BY JoinedShape DEF Safe, StateType
<1> HIDE DEF m
<1>4. m.rooms = [s.rooms EXCEPT ![r] = room]
  BY <1>2 DEF AddsUser, RoomWith
<1>5. Notifies(m, t, r)
  BY <1>1, <1>2, NotifyEffect DEF AddsUser
<1>6. IsRoom(was) /\ DOMAIN was.users \subseteq Client /\ c \in Client /\ c \notin DOMAIN was.users
  <2>1. c \notin DOMAIN was.users
    BY RoomIdAssumption DEF Safe, Matches, StateType, RoomsType
  <2>2. c \in Client
    BY DEF Safe, StateType, ConnectedType, IsMap
  <2> QED BY <2>1, <2>2, SafeRooms
<1>7. /\ room.sessions = was.sessions /\ room.mode = was.mode
      /\ DOMAIN room.users = DOMAIN was.users \cup {c}
  BY <1>6 DEF IsRoom, RoomWith, Put
<1>8. IsRoom(room)
  <2>1. user \in User
    BY <1>6 DEF JoinedUser, NewUser, NormalizeVisitorID, VisitorId, User, VisitorOwner
  <2> HIDE DEF user
  <2>2. IsMap(Put(was.users, c, user), Client, User)
    BY <1>6, <2>1, PutType DEF IsRoom
  <2> QED BY <1>6, <2>2, RoomUsersType DEF RoomWith
<1> HIDE DEF room, user
<1>9. /\ DOMAIN t.rooms = DOMAIN s.rooms /\ t.rooms[r] = room /\ m.rooms[r] = room
      /\ \A q \in DOMAIN s.rooms \ {r} : t.rooms[q] = s.rooms[q]
  BY <1>3, <1>4
<1>10. t.lookup = s.lookup /\ t.metrics = Shifted(s.metrics, 1, 0, 0)
  <2>1. s.metrics \in MetricsType /\ m.metrics = [s.metrics EXCEPT !.users = @ + 1]
    BY <1>2 DEF Safe, StateType, AddsUser
  <2>2. m.metrics = Shifted(s.metrics, 1, 0, 0)
    BY <2>1, ShiftedByUser
  <2> QED BY <1>2, <1>5, <2>2 DEF AddsUser, Notifies, Tells
<1>11. \A d \in Client :
         /\ t.told[d].closes = s.told[d].closes /\ t.told[d].open = s.told[d].open
         /\ d \in DOMAIN room.users => t.told[d].info = room.users
         /\ d \notin DOMAIN room.users => t.told[d] = s.told[d]
  <2> SUFFICES ASSUME NEW d \in Client
               PROVE  /\ t.told[d].closes = s.told[d].closes /\ t.told[d].open = s.told[d].open
                      /\ d \in DOMAIN room.users => t.told[d].info = room.users
                      /\ d \notin DOMAIN room.users => t.told[d] = s.told[d]
    OBVIOUS
  <2>1. m.told = s.told
    BY <1>2 DEF AddsUser
  <2>2. t.told[d] = IF d \in DOMAIN room.users
                    THEN [s.told[d] EXCEPT !.info = room.users] ELSE s.told[d]
    BY <1>5, <1>9, <2>1 DEF Notifies
  <2>3. IsTold(s.told[d])
    BY DEF Safe, StateType, ToldType
  <2>4. [s.told[d] EXCEPT !.info = room.users] = Knowing(s.told[d], room.users, s.told[d].open)
    BY <2>3, KnowingFields
  <2> QED BY <2>2, <2>4 DEF Knowing
<1>12. TurnKept(t)
  BY <1>7, <1>9, <1>10 DEF Ledger, TurnKept
<1>13. Known(t)
  <2> SUFFICES ASSUME NEW d \in Client
               PROVE  /\ d \notin DOMAIN t.connected => t.told[d] = Gone
                      /\ d \in DOMAIN t.connected =>
                          /\ t.told[d].closes = 0
                          /\ t.connected[d] = NoRoom => t.told[d].open = {}
                          /\ t.connected[d] # NoRoom =>
                               t.told[d].open = SessionsOf(t.rooms[t.connected[d]].sessions, d)
    BY DEF Known
  <2>1. DOMAIN t.connected = DOMAIN s.connected
    BY <1>3
  <2>2. CASE d = c
    <3>1. t.connected[d] = r /\ r # NoRoom /\ t.told[d].open = {} /\ t.told[d].closes = 0
      BY <1>3, <1>11, <2>2, RoomIdAssumption DEF Ledger, Known, Safe, StateType, RoomsType
    <3>2. SessionsOf(room.sessions, c) = {}
      BY <1>6, <1>7, EndsConnected DEF SessionsOf
    <3> QED BY <1>9, <2>1, <2>2, <3>1, <3>2
  <2>3. CASE d # c /\ d \notin DOMAIN s.connected
    <3>1. d \notin DOMAIN room.users
      BY <1>7, <2>3 DEF Safe, Matches
    <3> QED BY <1>11, <2>1, <2>3, <3>1 DEF Ledger, Known
  <2>4. CASE d # c /\ d \in DOMAIN s.connected
    <3>1. t.connected[d] = s.connected[d]
      BY <1>3, <2>4
    <3>2. s.connected[d] # NoRoom => s.connected[d] \in DOMAIN s.rooms
      BY <2>4 DEF Safe, Matches
    <3>3. \A q \in DOMAIN s.rooms : t.rooms[q].sessions = s.rooms[q].sessions
      BY <1>7, <1>9
    <3> QED BY <1>11, <2>1, <2>4, <3>1, <3>2, <3>3 DEF Ledger, Known
  <2> QED BY <2>2, <2>3, <2>4
<1>14. Informed(t, {})
  <2>1. \A d \in Client : t.told[d].info # s.told[d].info =>
               d \notin DOMAIN s.connected \/ s.connected[d] \in {r, NoRoom}
    BY <1>7, <1>11 DEF Safe, Matches
  <2>2. Informed(t, {} \cup {r})
    BY <1>9, <2>1, InformedElsewhere DEF Ledger
  <2>3. \A d \in DOMAIN t.rooms[r].users : t.told[d].info = t.rooms[r].users
    BY <1>6, <1>7, <1>9, <1>11
  <2> QED BY <2>2, <2>3 DEF Informed
<1>15. Counted(t)
  <2>1. /\ Cardinality(DOMAIN was.users) \in Nat /\ Cardinality(was.sessions) \in Nat
        /\ Cardinality(DOMAIN room.users) = Cardinality(DOMAIN was.users) + 1
    BY <1>6, <1>7, SessionsCounted, UsersCounted, ClientAssumption, FS_Subset, FS_AddElement
       DEF IsRoom
  <2>2. /\ Cardinality(DOMAIN room.users) - Cardinality(DOMAIN was.users) = 1
        /\ Cardinality(room.sessions) - Cardinality(was.sessions) = 0
    BY <1>7, <2>1
  <2>3. t.metrics = Shifted(s.metrics,
               Cardinality(DOMAIN room.users) - Cardinality(DOMAIN was.users), 0,
               Cardinality(room.sessions) - Cardinality(was.sessions))
    BY <1>10, <2>2
  <2>4. /\ Counted(s) /\ StateType(s) /\ Matches(s)
        /\ \A q \in DOMAIN s.rooms : DOMAIN s.rooms[q].users # {}
    BY SafeRooms DEF Ledger
  <2>5. t.rooms = [s.rooms EXCEPT ![r] = room]
    BY <1>3
  <2> QED BY <1>8, <2>3, <2>4, <2>5, CountedReplaced
<1> QED BY <1>12, <1>13, <1>14, <1>15 DEF Ledger

\* Creating: the creator hears of itself.
LEMMA CreatedLedger ==
    ASSUME NEW s, Safe(s), Ledger(s, {}), NEW c \in DOMAIN s.connected,
           s.connected[c] = NoRoom, NEW r \in RoomId, r \notin DOMAIN s.rooms,
           NEW mode, NEW close, NEW v, NEW t, t = Created(s, c, r, mode, close, v)
    PROVE  Ledger(t, {})
<1> DEFINE room == CreatedRoom(c, mode, close, v)
           m    == RoomAdded(s, c, r, room)
<1>1. t = NotifyInfoChanged(m, r)
  BY DEF Created, CreatedRoom
<1>2. room.sessions = {} /\ DOMAIN room.users = {c}
  BY DEF CreatedRoom, NewRoom, Put, Empty
<1> HIDE DEF room
<1>3. AddsRoom(s, m, c, r, room)
  BY RoomAddedEffect DEF Safe, StateType
<1> HIDE DEF m
<1>4. Notifies(m, t, r)
  BY <1>1, <1>3, NotifyEffect DEF AddsRoom
<1>5. t.rooms = Put(s.rooms, r, room) /\ t.connected = [s.connected EXCEPT ![c] = r]
      /\ t.lookup = s.lookup /\ m.rooms = t.rooms /\ m.told = s.told
  BY <1>3, <1>4 DEF AddsRoom, Notifies, Tells
<1>6. /\ DOMAIN t.rooms = DOMAIN s.rooms \cup {r} /\ t.rooms[r] = room
      /\ \A q \in DOMAIN s.rooms : t.rooms[q] = s.rooms[q]
  BY <1>5 DEF Put
<1>7. t.metrics = Shifted(s.metrics, 1, 1, 0)
  <2>1. s.metrics \in MetricsType
    BY DEF Safe, StateType
  <2>2. m.metrics = [s.metrics EXCEPT !.users = @ + 1, !.rooms = @ + 1]
    BY <1>3 DEF AddsRoom
  <2>3. t.metrics = m.metrics
    BY <1>4 DEF Notifies, Tells
  <2>4. 0 \in Nat
    OBVIOUS
  <2>5. [s.metrics EXCEPT !.users = @ + 1, !.rooms = @ + 1] = Shifted(s.metrics, 1, 1, 0)
    BY <2>1, <2>4, ShiftedByRoom
  <2> QED BY <2>2, <2>3, <2>5
<1>8. c \in Client /\ r # NoRoom
  BY RoomIdAssumption DEF Safe, StateType, ConnectedType, IsMap
<1>9. \A d \in Client \ {c} : t.told[d] = s.told[d]
  BY <1>2, <1>4, <1>5, <1>6 DEF Notifies
<1>10. /\ t.told[c].closes = s.told[c].closes /\ t.told[c].open = s.told[c].open
       /\ t.told[c].info = room.users
  <2>1. t.told[c] = [s.told[c] EXCEPT !.info = room.users]
    BY <1>2, <1>4, <1>5, <1>6, <1>8 DEF Notifies
  <2>2. IsTold(s.told[c])
    BY <1>8 DEF Safe, StateType, ToldType
  <2>3. t.told[c] = Knowing(s.told[c], room.users, s.told[c].open)
    BY <2>1, <2>2, KnowingFields
  <2> QED BY <2>3 DEF Knowing
<1>11. TurnKept(t)
  BY <1>2, <1>5, TurnPut DEF Ledger
<1>12. Known(t)
  <2> SUFFICES ASSUME NEW d \in Client
               PROVE  /\ d \notin DOMAIN t.connected => t.told[d] = Gone
                      /\ d \in DOMAIN t.connected =>
                          /\ t.told[d].closes = 0
                          /\ t.connected[d] = NoRoom => t.told[d].open = {}
                          /\ t.connected[d] # NoRoom =>
                               t.told[d].open = SessionsOf(t.rooms[t.connected[d]].sessions, d)
    BY DEF Known
  <2>1. DOMAIN t.connected = DOMAIN s.connected
    BY <1>5
  <2>2. CASE d = c
    <3>1. t.connected[d] = r /\ t.told[d].open = {} /\ t.told[d].closes = 0
      BY <1>5, <1>10, <2>2 DEF Ledger, Known
    <3>2. SessionsOf(room.sessions, c) = {}
      BY <1>2 DEF SessionsOf
    <3> QED BY <1>6, <1>8, <2>1, <2>2, <3>1, <3>2
  <2>3. CASE d # c /\ d \notin DOMAIN s.connected
    BY <1>9, <2>1, <2>3 DEF Ledger, Known
  <2>4. CASE d # c /\ d \in DOMAIN s.connected
    <3>1. t.connected[d] = s.connected[d]
      BY <1>5, <2>4
    <3>2. s.connected[d] # NoRoom => s.connected[d] \in DOMAIN s.rooms
      BY <2>4 DEF Safe, Matches
    <3> QED BY <1>6, <1>9, <2>1, <2>4, <3>1, <3>2 DEF Ledger, Known
  <2> QED BY <2>2, <2>3, <2>4
<1>13. Informed(t, {})
  <2> SUFFICES ASSUME NEW q \in DOMAIN t.rooms, NEW d \in DOMAIN t.rooms[q].users
               PROVE  t.told[d].info = t.rooms[q].users
    BY DEF Informed
  <2>1. CASE q = r
    BY <1>2, <1>6, <1>10, <2>1
  <2>2. CASE q # r
    <3>1. q \in DOMAIN s.rooms /\ t.rooms[q] = s.rooms[q]
      BY <1>6, <2>2
    <3>2. d \in Client /\ d # c
      BY <3>1, SafeRooms, RoomIdAssumption DEF Safe, Matches, StateType, RoomsType
    <3> QED BY <1>9, <3>1, <3>2 DEF Ledger, Informed
  <2> QED BY <2>1, <2>2
<1>14. Counted(t)
  <2>1. /\ Counted(s) /\ StateType(s) /\ Matches(s)
        /\ \A q \in DOMAIN s.rooms : DOMAIN s.rooms[q].users # {}
    BY SafeRooms DEF Ledger
  <2>2. t.rooms = Put(s.rooms, r, room)
    BY <1>5
  <2> QED BY <1>2, <1>7, <2>1, <2>2, CountedPut
<1> QED BY <1>11, <1>12, <1>13, <1>14 DEF Ledger

\* Ending a stream: its sessions end for everyone, and everyone hears that it did.
LEMMA StoppedLedger ==
    ASSUME NEW s, Safe(s), Ledger(s, {}), NEW r \in DOMAIN s.rooms,
           NEW c \in DOMAIN s.rooms[r].users, NEW t, t = Stopped(s, c, r)
    PROVE  Ledger(t, {})
<1> DEFINE was  == s.rooms[r]
           old  == HostedBy(was.sessions, c)
           C    == DOMAIN was.users
           on   == Streaming(s, c, r, FALSE)
           off  == EndShare(on, C, old)
           m    == CloseSessions(off, r, old)
           room == RoomStopped(was, c)
<1>1. t = NotifyInfoChanged(m, r)
  BY DEF Stopped
<1>2. SetsStreaming(s, on, c, r, FALSE)
  BY StreamingEffect DEF Safe, StateType
<1>3. IsRoom(was) /\ C \subseteq Client /\ was.sessions \subseteq Session
  BY SafeRooms
<1>4. old \subseteq was.sessions
  BY DEF HostedBy
<1>5. /\ room.sessions = was.sessions \ old /\ room.mode = was.mode
      /\ DOMAIN room.users = C
  BY <1>3 DEF IsRoom, RoomStopped
<1>6. IsRoom(room)
  <2> DEFINE U == [was.users EXCEPT ![c].streaming = FALSE]
             x == [was EXCEPT !.users = U]
  <2>1. IsMap(U, Client, User)
    BY <1>3 DEF IsRoom, IsMap, User
  <2> HIDE DEF U
  <2>2. IsRoom(x)
    BY <1>3, <2>1, RoomUsersType
  <2>3. room = [x EXCEPT !.sessions = was.sessions \ old]
    BY <1>3 DEF RoomStopped, U, IsRoom
  <2> HIDE DEF x
  <2>4. was.sessions \ old \subseteq Session
    BY <1>3
  <2> QED BY <2>2, <2>3, <2>4, RoomSessionsType
<1>7. t.rooms = [s.rooms EXCEPT ![r] = room] /\ t.connected = s.connected
  BY StoppedShape DEF RoomBecomes, Safe
<1>8. on.rooms[r].mode = was.mode
  <2>1. on.rooms[r] = [was EXCEPT !.users[c].streaming = FALSE]
    BY <1>2 DEF SetsStreaming
  <2> QED BY <1>3, <2>1 DEF IsRoom
<1> HIDE DEF on, room, old, C
<1>9. EndsForOthers(on, off, C, old)
  BY <1>2, EndShareEffect DEF SetsStreaming
<1> HIDE DEF off
<1>10. ClosesSessions(off, m, r, old)
  BY <1>9, CloseSessionsEffect DEF EndsForOthers, Tells
<1> HIDE DEF m
<1>11. Notifies(m, t, r)
  BY <1>1, <1>10, NotifyEffect DEF ClosesSessions
<1>12. /\ DOMAIN t.rooms = DOMAIN s.rooms /\ t.rooms[r] = room
       /\ \A q \in DOMAIN s.rooms \ {r} : t.rooms[q] = s.rooms[q]
  BY <1>7
<1>13. m.rooms[r] = room
  BY <1>11, <1>12 DEF Notifies, Tells
<1>14. t.lookup = Disallowed(s.lookup, was.mode, old)
  <2>1. m.lookup = IF off.rooms[r].mode = "turn"
                   THEN off.lookup \ Credentials(old) ELSE off.lookup
    BY <1>10 DEF ClosesSessions
  <2>2. off.rooms = on.rooms /\ off.lookup = on.lookup
    BY <1>9 DEF EndsForOthers, Tells
  <2>3. on.lookup = s.lookup /\ t.lookup = m.lookup
    BY <1>2, <1>11 DEF SetsStreaming, Notifies, Tells
  <2> QED BY <1>8, <2>1, <2>2, <2>3 DEF Disallowed
<1>15. Cardinality(old) \in Nat /\ Cardinality(was.sessions \ old) \in Nat
  BY <1>3, <1>4, SessionsCounted
<1>16. t.metrics = Shifted(s.metrics, 0, 0, -Cardinality(old))
  <2>1. m.metrics = [off.metrics EXCEPT !.sessions = @ - Cardinality(old)]
    BY <1>10 DEF ClosesSessions
  <2>2. off.metrics = s.metrics /\ t.metrics = m.metrics /\ s.metrics \in MetricsType
    BY <1>2, <1>9, <1>11 DEF SetsStreaming, EndsForOthers, Tells, Notifies, Safe, StateType
  <2> QED BY <1>15, <2>1, <2>2, ShiftedBySessions
<1>17. \A d \in C : t.told[d] = Knowing(s.told[d], room.users, s.told[d].open \ old)
  <2> SUFFICES ASSUME NEW d \in C
               PROVE  t.told[d] = Knowing(s.told[d], room.users, s.told[d].open \ old)
    OBVIOUS
  <2>1. d \in Client
    BY <1>3
  <2>2. IsTold(s.told[d])
    BY <2>1 DEF Safe, StateType, ToldType
  <2>3. off.told[d] = [s.told[d] EXCEPT !.open = s.told[d].open \ old]
    BY <1>2, <1>9, <2>1 DEF SetsStreaming, EndsForOthers
  <2>4. off.told[d] = Knowing(s.told[d], s.told[d].info, s.told[d].open \ old)
    BY <2>2, <2>3, KnowingFields
  <2>5. t.told[d] = [off.told[d] EXCEPT !.info = room.users]
    BY <1>5, <1>10, <1>11, <1>13, <2>1 DEF ClosesSessions, Notifies
  <2> QED BY <2>4, <2>5 DEF Knowing
<1>18. \A d \in Client \ C : t.told[d] = s.told[d]
  <2>1. on.told = s.told /\ m.told = off.told
    BY <1>2, <1>10 DEF SetsStreaming, ClosesSessions
  <2>2. \A d \in Client \ C : off.told[d] = on.told[d]
    BY <1>9 DEF EndsForOthers
  <2>3. \A d \in Client \ C : t.told[d] = m.told[d]
    BY <1>5, <1>11, <1>13 DEF Notifies
  <2> QED BY <2>1, <2>2, <2>3
<1>19. TurnKept(t)
  <2>1. TurnKept(s) /\ t.rooms = [s.rooms EXCEPT ![r] = room]
    BY <1>7 DEF Ledger
  <2> QED BY <1>4, <1>5, <1>14, <2>1, TurnClosed
<1>20. Known(t)
  <2>1. \A d \in C : /\ t.told[d].closes = s.told[d].closes
                     /\ t.told[d].open = SessionsOf(t.rooms[r].sessions, d)
    <3> SUFFICES ASSUME NEW d \in C
                 PROVE  /\ t.told[d].closes = s.told[d].closes
                        /\ t.told[d].open = SessionsOf(t.rooms[r].sessions, d)
      OBVIOUS
    <3>1. t.told[d].closes = s.told[d].closes /\ t.told[d].open = s.told[d].open \ old
      <4> DEFINE open == s.told[d].open \ old
                 users == room.users
      <4>1. t.told[d] = Knowing(s.told[d], users, open)
        BY <1>17
      <4> HIDE DEF open, users
      <4>2. t.told[d].closes = s.told[d].closes /\ t.told[d].open = open
        BY <4>1, KnowingParts
      <4> QED BY <4>2 DEF open
    <3>2. s.told[d].open = SessionsOf(was.sessions, d)
      BY <1>3, RoomIdAssumption DEF Ledger, Known, C, Safe, Matches, StateType, RoomsType
    <3>3. SessionsOf(was.sessions, d) \ old = SessionsOf(was.sessions \ old, d)
      BY DEF SessionsOf
    <3> QED BY <1>5, <1>12, <3>1, <3>2, <3>3
  <2>2. Known(s) /\ t.connected = s.connected
        /\ \A q \in DOMAIN s.rooms \ {r} : t.rooms[q].sessions = s.rooms[q].sessions
    BY <1>7, <1>12 DEF Ledger
  <2> QED BY <1>18, <2>1, <2>2, KnownInRoom DEF C
<1>21. Informed(t, {})
  <2>1. \A d \in Client : t.told[d].info # s.told[d].info =>
               d \notin DOMAIN s.connected \/ s.connected[d] \in {r, NoRoom}
    BY <1>18 DEF C, Safe, Matches
  <2>2. Informed(t, {} \cup {r})
    BY <1>12, <2>1, InformedElsewhere DEF Ledger
  <2>3. \A d \in DOMAIN t.rooms[r].users : t.told[d].info = t.rooms[r].users
    <3> SUFFICES ASSUME NEW d \in C PROVE t.told[d].info = room.users
      BY <1>5, <1>12
    <3> DEFINE open == s.told[d].open \ old
               users == room.users
    <3>1. t.told[d] = Knowing(s.told[d], users, open)
      BY <1>17
    <3> HIDE DEF open, users
    <3>2. t.told[d].info = users
      BY <3>1, KnowingParts
    <3> QED BY <3>2 DEF users
  <2> QED BY <2>2, <2>3 DEF Informed
<1>22. Counted(t)
  <2>1. /\ Cardinality(C) \in Nat /\ Cardinality(was.sessions) \in Nat
        /\ Cardinality(old) + Cardinality(was.sessions \ old) = Cardinality(was.sessions)
    BY <1>3, <1>4, CountInTwo, SessionsCounted, UsersCounted
  <2>2. /\ Cardinality(DOMAIN room.users) - Cardinality(DOMAIN was.users) = 0
        /\ Cardinality(room.sessions) - Cardinality(was.sessions) = -Cardinality(old)
    BY <1>5, <1>15, <2>1 DEF C
  <2>3. t.metrics = Shifted(s.metrics,
               Cardinality(DOMAIN room.users) - Cardinality(DOMAIN was.users), 0,
               Cardinality(room.sessions) - Cardinality(was.sessions))
    BY <1>16, <2>2
  <2>4. /\ Counted(s) /\ StateType(s) /\ Matches(s)
        /\ \A q \in DOMAIN s.rooms : DOMAIN s.rooms[q].users # {}
    BY SafeRooms DEF Ledger
  <2>5. t.rooms = [s.rooms EXCEPT ![r] = room]
    BY <1>7
  <2> QED BY <1>6, <2>3, <2>4, <2>5, CountedReplaced
<1> QED BY <1>19, <1>20, <1>21, <1>22 DEF Ledger

\* The end of a connection in no room,
LEMMA OutsideLedger ==
    ASSUME NEW s, Safe(s), Ledger(s, {}), NEW c \in DOMAIN s.connected,
           NEW t, DropsOutside(s, t, c)
    PROVE  Ledger(t, {})
<1>1. /\ t.rooms = s.rooms /\ t.lookup = s.lookup /\ t.metrics = s.metrics
      /\ DOMAIN t.connected = DOMAIN s.connected \ {c}
      /\ \A d \in DOMAIN s.connected \ {c} : t.connected[d] = s.connected[d]
  BY DEF DropsOutside, Without
<1>2. \A d \in Client \ {c} : t.told[d] = s.told[d]
  BY DEF DropsOutside
<1>3. c \in Client /\ t.told[c] = Gone
  <2>1. c \in Client
    BY DEF Safe, StateType, ConnectedType, IsMap
  <2>2. s.told[c].closes = 0 /\ t.told[c] = Over(s.told[c])
    BY <2>1 DEF Ledger, Known, DropsOutside
  <2> QED BY <2>1, <2>2, OverIsGone
<1>4. TurnKept(t)
  BY <1>1 DEF Ledger, TurnKept
<1>5. Known(t)
  <2> SUFFICES ASSUME NEW d \in Client
               PROVE  /\ d \notin DOMAIN t.connected => t.told[d] = Gone
                      /\ d \in DOMAIN t.connected =>
                          /\ t.told[d].closes = 0
                          /\ t.connected[d] = NoRoom => t.told[d].open = {}
                          /\ t.connected[d] # NoRoom =>
                               t.told[d].open = SessionsOf(t.rooms[t.connected[d]].sessions, d)
    BY DEF Known
  <2>1. CASE d = c
    BY <1>1, <1>3, <2>1
  <2>2. CASE d # c
    BY <1>1, <1>2, <2>2 DEF Ledger, Known
  <2> QED BY <2>1, <2>2
<1>6. Informed(t, {})
  <2> SUFFICES ASSUME NEW q \in DOMAIN s.rooms, NEW d \in DOMAIN s.rooms[q].users
               PROVE  t.told[d].info = s.rooms[q].users
    BY <1>1 DEF Informed
  <2>1. d \in Client /\ d # c
    BY SafeRooms, RoomIdAssumption DEF DropsOutside, Safe, Matches, StateType, RoomsType
  <2> QED BY <1>2, <2>1 DEF Ledger, Informed
<1>7. Counted(t)
  BY <1>1 DEF Ledger, Counted, UsersAt, SessionsAt
<1> QED BY <1>4, <1>5, <1>6, <1>7 DEF Ledger

\* of a member whose room goes on,
LEMMA MemberLedger ==
    ASSUME NEW s, Safe(s), NEW c \in DOMAIN s.connected, NEW r \in DOMAIN s.rooms,
           Ledger(s, {r}), NEW t, DropsMember(s, t, c, r)
    PROVE  Ledger(t, {})
<1> DEFINE was  == s.rooms[r]
           old  == SessionsOf(was.sessions, c)
           room == RoomWithout(was, c)
           C    == DOMAIN was.users
<1>1. r \in DOMAIN s.rooms /\ c \in C /\ c \in Client /\ r # NoRoom
  BY RoomIdAssumption
     DEF DropsMember, Member, Safe, StateType, RoomsType, ConnectedType, IsMap
<1>2. IsRoom(was) /\ C \subseteq Client /\ was.sessions \subseteq Session /\ old \subseteq was.sessions
  BY <1>1, SafeRooms DEF SessionsOf
<1>3. /\ room.sessions = was.sessions \ old /\ room.mode = was.mode
      /\ DOMAIN room.users = C \ {c}
  BY <1>2 DEF IsRoom, RoomWithout, Without
<1>4. IsRoom(room)
  <2> DEFINE U == Without(was.users, {c})
             x == [was EXCEPT !.users = U]
  <2>1. IsMap(U, Client, User)
    BY <1>2, WithoutType DEF IsRoom
  <2> HIDE DEF U
  <2>2. IsRoom(x)
    BY <1>2, <2>1, RoomUsersType
  <2>3. room = [x EXCEPT !.sessions = was.sessions \ old]
    BY <1>2 DEF RoomWithout, U, IsRoom
  <2> HIDE DEF x
  <2>4. was.sessions \ old \subseteq Session
    BY <1>2
  <2> QED BY <2>2, <2>3, <2>4, RoomSessionsType
<1> HIDE DEF room, old
<1>5. /\ t.rooms = [s.rooms EXCEPT ![r] = room]
      /\ t.connected = Without(s.connected, {c})
      /\ t.lookup = Disallowed(s.lookup, was.mode, old)
      /\ t.metrics = Shifted(s.metrics, -1, 0, -Cardinality(old))
  BY DEF DropsMember, room, old
<1>6. t.told = [d \in Client |->
                IF d = c THEN Over(s.told[d])
                ELSE IF d \in C
                THEN Knowing(s.told[d], room.users, s.told[d].open \ old)
                ELSE s.told[d]]
  BY DEF DropsMember, room, old
<1>7. /\ DOMAIN t.rooms = DOMAIN s.rooms /\ t.rooms[r] = room
      /\ \A q \in DOMAIN s.rooms \ {r} : t.rooms[q] = s.rooms[q]
  BY <1>1, <1>5
<1>8. /\ DOMAIN t.connected = DOMAIN s.connected \ {c}
      /\ \A d \in DOMAIN s.connected \ {c} : t.connected[d] = s.connected[d]
  BY <1>5 DEF Without
<1>9. t.told[c] = Gone
  <2>1. s.told[c].closes = 0 /\ t.told[c] = Over(s.told[c])
    BY <1>1, <1>6 DEF Ledger, Known
  <2> QED BY <2>1, OverIsGone
<1>10. \A d \in C \ {c} :
         /\ t.told[d].info = room.users /\ t.told[d].closes = s.told[d].closes
         /\ t.told[d].open = s.told[d].open \ old
  <2> SUFFICES ASSUME NEW d \in C \ {c}
               PROVE  /\ t.told[d].info = room.users /\ t.told[d].closes = s.told[d].closes
                      /\ t.told[d].open = s.told[d].open \ old
    OBVIOUS
  <2> DEFINE open == s.told[d].open \ old
             users == room.users
  <2>1. t.told[d] = Knowing(s.told[d], users, open)
    BY <1>2, <1>6
  <2> HIDE DEF open, users
  <2>2. /\ t.told[d].info = users /\ t.told[d].closes = s.told[d].closes
        /\ t.told[d].open = open
    BY <2>1, KnowingParts
  <2> QED BY <2>2 DEF open, users
<1>11. \A d \in Client \ C : t.told[d] = s.told[d]
  BY <1>1, <1>6
<1>12. \A d \in C : d \in DOMAIN s.connected /\ s.connected[d] = r
  BY <1>1 DEF Safe, Matches
<1>13. TurnKept(t)
  <2>1. TurnKept(s) /\ t.rooms = [s.rooms EXCEPT ![r] = room]
        /\ t.lookup = Disallowed(s.lookup, s.rooms[r].mode, old)
    BY <1>5 DEF Ledger
  <2>2. /\ r \in DOMAIN s.rooms /\ old \subseteq s.rooms[r].sessions
        /\ room.mode = s.rooms[r].mode /\ room.sessions = s.rooms[r].sessions \ old
    BY <1>1, <1>2, <1>3
  <2> QED BY <2>1, <2>2, TurnClosed
<1>14. Known(t)
  <2> SUFFICES ASSUME NEW d \in Client
               PROVE  /\ d \notin DOMAIN t.connected => t.told[d] = Gone
                      /\ d \in DOMAIN t.connected =>
                          /\ t.told[d].closes = 0
                          /\ t.connected[d] = NoRoom => t.told[d].open = {}
                          /\ t.connected[d] # NoRoom =>
                               t.told[d].open = SessionsOf(t.rooms[t.connected[d]].sessions, d)
    BY DEF Known
  <2>1. CASE d = c
    BY <1>8, <1>9, <2>1
  <2>2. CASE d # c /\ d \in C
    <3>1. s.told[d].closes = 0 /\ s.told[d].open = SessionsOf(was.sessions, d)
      BY <1>1, <1>12, <2>2 DEF Ledger, Known
    <3>2. SessionsOf(was.sessions, d) \ old = SessionsOf(was.sessions \ old, d)
      BY DEF SessionsOf
    <3>3. d \in DOMAIN t.connected /\ t.connected[d] = r
      BY <1>8, <1>12, <2>2
    <3>4. t.told[d].closes = 0 /\ t.told[d].open = SessionsOf(was.sessions \ old, d)
      BY <1>10, <2>2, <3>1, <3>2
    <3>5. t.rooms[r].sessions = was.sessions \ old
      BY <1>3, <1>7
    <3> QED BY <1>1, <3>3, <3>4, <3>5
  <2>3. CASE d # c /\ d \notin C
    <3>1. d \in DOMAIN s.connected => s.connected[d] # r
      BY <1>1, <2>3 DEF Safe, Matches
    <3>2. d \in DOMAIN s.connected /\ s.connected[d] # NoRoom
            => s.connected[d] \in DOMAIN s.rooms \ {r}
      BY <3>1 DEF Safe, Matches
    <3> QED BY <1>7, <1>8, <1>11, <2>3, <3>2 DEF Ledger, Known
  <2> QED BY <2>1, <2>2, <2>3
<1>15. Informed(t, {})
  <2>1. \A d \in Client : t.told[d].info # s.told[d].info =>
               d \notin DOMAIN s.connected \/ s.connected[d] \in {r, NoRoom}
    BY <1>11, <1>12
  <2>2. Informed(s, {r})
    BY DEF Ledger
  <2>3. Informed(t, {r} \cup {r})
    <3>1. \A q \in DOMAIN t.rooms \ {r} : t.rooms[q].users = s.rooms[q].users
      BY <1>7
    <3> QED BY <1>1, <1>7, <2>1, <2>2, <3>1, InformedElsewhere
  <2>4. \A d \in DOMAIN t.rooms[r].users : t.told[d].info = t.rooms[r].users
    BY <1>3, <1>7, <1>10
  <2> QED BY <2>3, <2>4 DEF Informed
<1>16. Counted(t)
  <2>1. /\ Cardinality(C) \in Nat /\ Cardinality(was.sessions) \in Nat
        /\ Cardinality(old) \in Nat /\ Cardinality(was.sessions \ old) \in Nat
        /\ Cardinality(old) + Cardinality(was.sessions \ old) = Cardinality(was.sessions)
    BY <1>2, CountInTwo, SessionsCounted, UsersCounted
  <2>2. Cardinality(C \ {c}) = Cardinality(C) - 1
    BY <1>1, <1>2, ClientAssumption, FS_Subset, FS_RemoveElement
  <2>3. /\ Cardinality(DOMAIN room.users) - Cardinality(DOMAIN was.users) = -1
        /\ Cardinality(room.sessions) - Cardinality(was.sessions) = -Cardinality(old)
    BY <1>3, <2>1, <2>2
  <2>4. t.metrics = Shifted(s.metrics,
               Cardinality(DOMAIN room.users) - Cardinality(DOMAIN was.users), 0,
               Cardinality(room.sessions) - Cardinality(was.sessions))
    BY <1>5, <2>3
  <2>5. /\ Counted(s) /\ StateType(s) /\ Matches(s)
        /\ \A q \in DOMAIN s.rooms : DOMAIN s.rooms[q].users # {}
    BY SafeRooms DEF Ledger
  <2>6. t.rooms = [s.rooms EXCEPT ![r] = room] /\ r \in DOMAIN s.rooms /\ IsRoom(room)
    BY <1>1, <1>4, <1>5
  <2> QED BY <2>4, <2>5, <2>6, CountedReplaced
<1> QED BY <1>13, <1>14, <1>15, <1>16 DEF Ledger

\* and of one whose room ends with it.
LEMMA RoomLedger ==
    ASSUME NEW s, Safe(s), NEW c \in DOMAIN s.connected, NEW r \in DOMAIN s.rooms,
           Ledger(s, {r}), NEW t, DropsRoom(s, t, c, r)
    PROVE  Ledger(t, {})
<1> DEFINE was == s.rooms[r]
           C   == DOMAIN was.users
<1>1. r \in DOMAIN s.rooms /\ r # NoRoom
  BY RoomIdAssumption DEF DropsRoom, Member, Safe, StateType, RoomsType
<1>2. IsRoom(was) /\ C \subseteq Client
  BY <1>1, SafeRooms
<1>3. /\ t.rooms = Without(s.rooms, {r}) /\ t.connected = Without(s.connected, C)
      /\ t.lookup = Disallowed(s.lookup, was.mode, was.sessions)
      /\ t.told = [d \in Client |-> IF d \in C THEN Over(s.told[d]) ELSE s.told[d]]
      /\ t.metrics = Shifted(s.metrics, -Cardinality(C), -1, -Cardinality(was.sessions))
  BY DEF DropsRoom
<1>4. /\ DOMAIN t.rooms = DOMAIN s.rooms \ {r}
      /\ \A q \in DOMAIN t.rooms : t.rooms[q] = s.rooms[q]
  BY <1>3 DEF Without
<1>5. /\ DOMAIN t.connected = DOMAIN s.connected \ C
      /\ \A d \in DOMAIN t.connected : t.connected[d] = s.connected[d]
  BY <1>3 DEF Without
<1>6. \A d \in C : d \in DOMAIN s.connected /\ s.connected[d] = r
  BY <1>1 DEF Safe, Matches
<1>7. \A d \in C : t.told[d] = Gone
  <2> SUFFICES ASSUME NEW d \in C PROVE t.told[d] = Gone
    OBVIOUS
  <2>1. s.told[d].closes = 0 /\ t.told[d] = Over(s.told[d])
    BY <1>2, <1>3, <1>6 DEF Ledger, Known
  <2> QED BY <2>1, OverIsGone
<1>8. \A d \in Client \ C : t.told[d] = s.told[d]
  BY <1>3
<1>9. TurnKept(t)
  <2>1. TurnKept(s) /\ t.rooms = Without(s.rooms, {r})
        /\ t.lookup = Disallowed(s.lookup, s.rooms[r].mode, s.rooms[r].sessions)
    BY <1>3 DEF Ledger
  <2> QED BY <1>1, <2>1, TurnWithout
<1>10. Known(t)
  <2> SUFFICES ASSUME NEW d \in Client
               PROVE  /\ d \notin DOMAIN t.connected => t.told[d] = Gone
                      /\ d \in DOMAIN t.connected =>
                          /\ t.told[d].closes = 0
                          /\ t.connected[d] = NoRoom => t.told[d].open = {}
                          /\ t.connected[d] # NoRoom =>
                               t.told[d].open = SessionsOf(t.rooms[t.connected[d]].sessions, d)
    BY DEF Known
  <2>1. CASE d \in C
    BY <1>5, <1>7, <2>1
  <2>2. CASE d \notin C
    <3>1. d \in DOMAIN s.connected => s.connected[d] # r
      BY <1>1, <2>2 DEF Safe, Matches
    <3>2. d \in DOMAIN s.connected /\ s.connected[d] # NoRoom
            => s.connected[d] \in DOMAIN t.rooms
      BY <1>4, <3>1 DEF Safe, Matches
    <3> QED BY <1>4, <1>5, <1>8, <2>2, <3>2 DEF Ledger, Known
  <2> QED BY <2>1, <2>2
<1>11. Informed(t, {})
  <2> SUFFICES ASSUME NEW q \in DOMAIN t.rooms, NEW d \in DOMAIN t.rooms[q].users
               PROVE  t.told[d].info = t.rooms[q].users
    BY DEF Informed
  <2>1. q \in DOMAIN s.rooms /\ q # r /\ t.rooms[q] = s.rooms[q]
    BY <1>4
  <2>2. d \in Client /\ d \notin C
    BY <1>6, <2>1, SafeRooms DEF Safe, Matches
  <2> QED BY <1>8, <2>1, <2>2 DEF Ledger, Informed
<1>12. Counted(t)
  <2>1. /\ Counted(s) /\ StateType(s) /\ Matches(s)
        /\ \A q \in DOMAIN s.rooms : DOMAIN s.rooms[q].users # {}
    BY SafeRooms DEF Ledger
  <2>2. t.rooms = Without(s.rooms, {r})
        /\ t.metrics = Shifted(s.metrics, -Cardinality(DOMAIN s.rooms[r].users), -1,
                               -Cardinality(s.rooms[r].sessions))
    BY <1>3
  <2> QED BY <1>1, <2>1, <2>2, CountedWithout
<1> QED BY <1>9, <1>10, <1>11, <1>12 DEF Ledger

\* Leaving out more rooms asks for less.
LEMMA LedgerBut ==
    ASSUME NEW s, NEW X, Ledger(s, {})
    PROVE  Ledger(s, X)
BY DEF Ledger, Informed

\* However a connection ends, also with a stream its room has not heard of.
LEMMA DroppedLedger ==
    ASSUME NEW s, Safe(s), NEW c \in DOMAIN s.connected,
           \/ Ledger(s, {})
           \/ s.connected[c] # NoRoom /\ Ledger(s, {s.connected[c]}),
           NEW t, t = Dropped(s, c)
    PROVE  Ledger(t, {})
<1>1. \/ DropsOutside(s, t, c)
      \/ DropsMember(s, t, c, s.connected[c])
      \/ DropsRoom(s, t, c, s.connected[c])
  BY DroppedEntries DEF Safe
<1>2. CASE DropsOutside(s, t, c)
  <2>1. Ledger(s, {})
    BY <1>2 DEF DropsOutside
  <2> QED BY <1>2, <2>1, OutsideLedger
<1>3. Ledger(s, {s.connected[c]})
  BY LedgerBut
<1>4. CASE DropsMember(s, t, c, s.connected[c])
  <2>1. s.connected[c] \in DOMAIN s.rooms
    BY <1>4 DEF DropsMember, Member
  <2> QED BY <1>3, <1>4, <2>1, MemberLedger
<1>5. CASE DropsRoom(s, t, c, s.connected[c])
  <2>1. s.connected[c] \in DOMAIN s.rooms
    BY <1>5 DEF DropsRoom, Member
  <2> QED BY <1>3, <1>5, <2>1, RoomLedger
<1> QED BY <1>1, <1>2, <1>4, <1>5

\* t is s with a newcomer in its room.
JoinsSafely(s, t, c, r) ==
    /\ Safe(t) /\ Ledger(t, {})
    /\ r \in DOMAIN t.rooms /\ c \in DOMAIN t.rooms[r].users
    /\ c \in DOMAIN t.connected /\ c \in Client
    /\ t.rooms[r].sessions = s.rooms[r].sessions

\* A newcomer, in its room, leaves the sessions alone.
LEMMA NewcomerJoined ==
    ASSUME NEW s, Safe(s), Reaches(s, {}), Ledger(s, {}), NEW c \in DOMAIN s.connected,
           s.connected[c] = NoRoom, NEW r \in DOMAIN s.rooms,
           NEW v \in Visitor \cup {Blank},
           NEW name \in NextGuestNames(s.rooms[r].users, NormalizeVisitorID(v, c))
    PROVE  JoinsSafely(s, Joined(s, c, r, v, name), c, r)
<1> DEFINE t    == Joined(s, c, r, v, name)
           room == RoomWith(s.rooms[r], c, JoinedUser(s, c, r, v, name))
<1>1. /\ Safe(t) /\ Reaches(t, {c})
      /\ DOMAIN t.rooms = DOMAIN s.rooms
      /\ t.connected = [s.connected EXCEPT ![c] = r]
      /\ c \in DOMAIN t.rooms[r].users
      /\ ~t.rooms[r].users[c].streaming
  BY JoinedIsSafe
<1>2. IsRoom(s.rooms[r])
  BY SafeRooms
<1>3. name \in Nat \ {0}
  BY <1>2, NewNames
<1>4. Ledger(t, {})
  BY <1>3, JoinedLedger
<1>5. /\ t.rooms = [s.rooms EXCEPT ![r] = room]
      /\ t.connected = [s.connected EXCEPT ![c] = r]
  BY JoinedShape DEF Safe, StateType
<1>6. room.sessions = s.rooms[r].sessions
  BY <1>2 DEF IsRoom, RoomWith
<1> HIDE DEF t, room
<1>7. t.rooms[r].sessions = s.rooms[r].sessions
  BY <1>5, <1>6
<1>8. c \in Client
  BY <1>1, SafeRooms
<1> QED BY <1>1, <1>4, <1>7, <1>8 DEF JoinsSafely, t

\* So does one as the outcomes have it.
LEMMA NewcomerSafely ==
    ASSUME NEW s, Safe(s), Reaches(s, {}), Ledger(s, {}),
           NEW c, NEW r, NEW v, NEW name, Newcomer(s, c, r, v, name)
    PROVE  JoinsSafely(s, Joined(s, c, r, v, name), c, r)
<1>1. /\ c \in DOMAIN s.connected /\ s.connected[c] = NoRoom /\ r \in DOMAIN s.rooms
      /\ v \in Visitor \cup {Blank}
      /\ name \in NextGuestNames(s.rooms[r].users, NormalizeVisitorID(v, c))
  BY DEF Newcomer
<1> QED BY <1>1, NewcomerJoined

\* Joining a room, with all it shows.
LEMMA JoinLedger ==
    ASSUME NEW s, Safe(s), Reaches(s, {}), Ledger(s, {}), NEW t, IsJoin(s, t)
    PROVE  Ledger(t, {})
<1>1. PICK c, r, v, name : \E n \in Serial :
        Newcomer(s, c, r, v, name) /\ t = ShownTo(Joined(s, c, r, v, name), c, r, n)
  BY DEF IsJoin
<1>2. PICK n \in Serial :
        Newcomer(s, c, r, v, name) /\ t = ShownTo(Joined(s, c, r, v, name), c, r, n)
  BY <1>1
<1> DEFINE j   == Joined(s, c, r, v, name)
           H   == Streamers(j.rooms[r].users) \ {c}
           new == SessionsBetween(H, {c}, n)
<1>3. /\ Safe(j) /\ Ledger(j, {})
      /\ r \in DOMAIN j.rooms /\ c \in DOMAIN j.rooms[r].users /\ c \in Client
      /\ j.rooms[r].sessions = s.rooms[r].sessions
  <2>1. JoinsSafely(s, j, c, r)
    BY <1>2, NewcomerSafely
  <2> HIDE DEF j
  <2> QED BY <2>1 DEF JoinsSafely
<1>4. t = OpenSessions(j, r, new)
  BY <1>2 DEF ShownTo
<1> HIDE DEF j
<1>5. H \subseteq DOMAIN j.rooms[r].users /\ H \subseteq Client
  BY <1>3, SafeRooms DEF Streamers
<1>6. \A x \in new : x.host \in H /\ x.client = c
  BY BetweenMembers
<1>7. new \subseteq Session
  BY <1>3, <1>5, SessionsBetweenType
<1> HIDE DEF new, H
<1>8. \A x \in s.rooms[r].sessions : x.client # c
  <2>1. /\ r \in DOMAIN s.rooms /\ s.connected[c] = NoRoom /\ r # NoRoom
    BY <1>2, RoomIdAssumption DEF Newcomer, Safe, StateType, RoomsType
  <2> QED BY <2>1, EndsConnected
<1>9. new \cap j.rooms[r].sessions = {}
  BY <1>3, <1>6, <1>8
<1>10. \A x \in new : {x.host, x.client} \subseteq DOMAIN j.rooms[r].users
  BY <1>3, <1>5, <1>6
<1> QED BY <1>3, <1>4, <1>7, <1>9, <1>10, OpenLedger

\* A member in a safe state.
LEMMA MemberSafely ==
    ASSUME NEW s, Safe(s), NEW c, NEW r, Member(s, c, r)
    PROVE  /\ r \in DOMAIN s.rooms /\ c \in DOMAIN s.rooms[r].users
           /\ c \in DOMAIN s.connected /\ s.connected[c] = r
           /\ r # NoRoom /\ c \in Client
BY RoomIdAssumption, SafeRooms DEF Member, Safe, StateType, RoomsType

\* t is s with a member who streams, before anybody is shown.
StreamsSafely(s, t, r) ==
    /\ Safe(t) /\ Ledger(t, {r})
    /\ r \in DOMAIN t.rooms /\ DOMAIN t.rooms[r].users = DOMAIN s.rooms[r].users
    /\ t.rooms[r].sessions = s.rooms[r].sessions
    /\ t.connected = s.connected

\* A member who streams leaves the sessions alone.
LEMMA MemberStreaming ==
    ASSUME NEW s, Safe(s), Reaches(s, {}), Ledger(s, {}), NEW r \in DOMAIN s.rooms,
           NEW c \in DOMAIN s.rooms[r].users
    PROVE  StreamsSafely(s, Streaming(s, c, r, TRUE), r)
<1> DEFINE t    == Streaming(s, c, r, TRUE)
           room == RoomStreaming(s.rooms[r], c, TRUE)
<1>1. Safe(t)
  BY StreamingOnIsSafe
<1>2. Ledger(t, {r})
  BY StreamingLedger
<1>3. RoomBecomes(s, t, r, room)
  BY StreamingShape DEF Safe, StateType
<1>4. IsRoom(s.rooms[r])
  BY SafeRooms
<1>5. room.sessions = s.rooms[r].sessions /\ DOMAIN room.users = DOMAIN s.rooms[r].users
  BY <1>4 DEF IsRoom, RoomStreaming
<1> HIDE DEF room, t
<1>6. t.rooms = [s.rooms EXCEPT ![r] = room] /\ t.connected = s.connected
  BY <1>3 DEF RoomBecomes
<1>7. r \in DOMAIN t.rooms /\ t.rooms[r] = room
  BY <1>6
<1> QED BY <1>1, <1>2, <1>5, <1>6, <1>7 DEF StreamsSafely, t

\* Sharing: the streamer's sessions, and the news of it.
LEMMA ShareLedger ==
    ASSUME NEW s, Safe(s), Reaches(s, {}), Ledger(s, {}), NEW t, IsShare(s, t)
    PROVE  Ledger(t, {})
<1>1. PICK c, r : \E n \in Serial :
        /\ Member(s, c, r)
        /\ s.rooms[r].sessions \cap SessionsBetween({c}, Client, n) = {}
        /\ t = NotifyInfoChanged(Shared(s, c, r, n), r)
  BY DEF IsShare
<1>2. PICK n \in Serial :
        /\ Member(s, c, r)
        /\ s.rooms[r].sessions \cap SessionsBetween({c}, Client, n) = {}
        /\ t = NotifyInfoChanged(Shared(s, c, r, n), r)
  BY <1>1
<1>3. r \in DOMAIN s.rooms /\ c \in DOMAIN s.rooms[r].users /\ c \in Client
  BY <1>2, MemberSafely
<1> DEFINE on    == Streaming(s, c, r, TRUE)
           C     == DOMAIN on.rooms[r].users \ {c}
           new   == SessionsBetween({c}, C, n)
           shown == Shared(s, c, r, n)
<1>4. /\ Safe(on) /\ Ledger(on, {r}) /\ r \in DOMAIN on.rooms
      /\ DOMAIN on.rooms[r].users = DOMAIN s.rooms[r].users
      /\ on.rooms[r].sessions = s.rooms[r].sessions
  <2>1. StreamsSafely(s, on, r)
    BY <1>3, MemberStreaming
  <2> HIDE DEF on
  <2> QED BY <2>1 DEF StreamsSafely
<1>5. shown = OpenSessions(on, r, new)
  BY DEF Shared, Shown
<1>6. SharedSafely(s, shown)
  BY <1>3, ShownIsSafe
<1> HIDE DEF on, shown
<1>7. C \subseteq Client
  BY <1>4, SafeRooms
<1>8. \A x \in new : x.host = c /\ x.client \in C
  BY BetweenMembers
<1>9. new \subseteq Session
  BY <1>3, <1>7, SessionsBetweenType
<1>10. new \subseteq SessionsBetween({c}, Client, n)
  BY <1>7 DEF SessionsBetween
<1> HIDE DEF new
<1>11. new \cap on.rooms[r].sessions = {}
  BY <1>2, <1>4, <1>10
<1>12. \A x \in new : {x.host, x.client} \subseteq DOMAIN on.rooms[r].users
  BY <1>3, <1>4, <1>8
<1>13. Ledger(shown, {r})
  BY <1>4, <1>5, <1>9, <1>11, <1>12, OpenLedger
<1>14. Safe(shown) /\ r \in DOMAIN shown.rooms
  BY <1>3, <1>6 DEF SharedSafely
<1> QED BY <1>2, <1>13, <1>14, NotifyLedger DEF shown

\* A share that finds no address ends with its connection.
LEMMA FailedShareLedger ==
    ASSUME NEW s, Safe(s), Reaches(s, {}), Ledger(s, {}), NEW t, IsFailedShare(s, t)
    PROVE  Ledger(t, {})
<1>1. PICK c, r : Member(s, c, r) /\ t = Dropped(Streaming(s, c, r, TRUE), c)
  BY DEF IsFailedShare
<1> DEFINE on == Streaming(s, c, r, TRUE)
<1>2. /\ r \in DOMAIN s.rooms /\ c \in DOMAIN s.rooms[r].users
      /\ c \in DOMAIN s.connected /\ s.connected[c] = r /\ r # NoRoom
  BY <1>1, MemberSafely
<1>3. Safe(on) /\ Ledger(on, {r}) /\ on.connected = s.connected
  <2>1. StreamsSafely(s, on, r)
    BY <1>2, MemberStreaming
  <2> HIDE DEF on
  <2> QED BY <2>1 DEF StreamsSafely
<1>4. t = Dropped(on, c)
  BY <1>1
<1> HIDE DEF on
<1>5. c \in DOMAIN on.connected /\ on.connected[c] # NoRoom
  BY <1>2, <1>3
<1>6. Ledger(on, {on.connected[c]})
  BY <1>2, <1>3
<1> QED BY <1>3, <1>4, <1>5, <1>6, DroppedLedger

\* So does a join that finds none.
LEMMA FailedJoinLedger ==
    ASSUME NEW s, Safe(s), Reaches(s, {}), Ledger(s, {}), NEW t, IsFailedJoin(s, t)
    PROVE  Ledger(t, {})
<1>1. PICK c, r, v, name :
        Newcomer(s, c, r, v, name) /\ t = Dropped(Joined(s, c, r, v, name), c)
  BY DEF IsFailedJoin
<1> DEFINE j == Joined(s, c, r, v, name)
<1>2. Safe(j) /\ Ledger(j, {}) /\ c \in DOMAIN j.connected
  <2>1. JoinsSafely(s, j, c, r)
    BY <1>1, NewcomerSafely
  <2> HIDE DEF j
  <2> QED BY <2>1 DEF JoinsSafely
<1>3. t = Dropped(j, c)
  BY <1>1
<1> HIDE DEF j
<1> QED BY <1>2, <1>3, DroppedLedger

\* Whatever a handler makes of a state whose ledger is right has a right one.
LEMMA OutcomeLedger ==
    ASSUME NEW s, Safe(s), Reaches(s, {}), Ledger(s, {}), NEW t, Outcome(s, t)
    PROVE  Ledger(t, {})
<1>1. CASE IsDrop(s, t)
  BY <1>1, DroppedLedger DEF IsDrop
<1>2. CASE IsCreate(s, t)
  <2>1. PICK c \in DOMAIN s.connected, r \in RoomId, mode \in Mode, close \in BOOLEAN,
             v \in Visitor \cup {Blank} :
        /\ s.connected[c] = NoRoom /\ r \notin DOMAIN s.rooms
        /\ t = Created(s, c, r, mode, close, v)
    BY <1>2 DEF IsCreate
  <2> QED BY <2>1, CreatedLedger
<1>3. CASE IsStop(s, t)
  <2>1. PICK c, r : Member(s, c, r) /\ t = Stopped(s, c, r)
    BY <1>3 DEF IsStop
  <2>2. r \in DOMAIN s.rooms /\ c \in DOMAIN s.rooms[r].users
    BY <2>1, MemberSafely
  <2> QED BY <2>1, <2>2, StoppedLedger
<1>4. CASE IsNotice(s, t)
  <2>1. PICK r \in DOMAIN s.rooms : t = NotifyInfoChanged(s, r)
    BY <1>4 DEF IsNotice
  <2>2. Ledger(s, {r})
    BY LedgerBut
  <2> QED BY <2>1, <2>2, NotifyLedger
<1> QED
  BY <1>1, <1>2, <1>3, <1>4, JoinLedger, FailedJoinLedger, ShareLedger, FailedShareLedger
  DEF Outcome

-----------------------------------------------------------------------------
\* The ledger of the loop.

\* The ledger is right, and the rooms are as RoomsProofs has them.
LInv == IInv /\ Ledger(Now, {})

\* The ledger is of the loop's fields alone.
LEMMA SameLedger ==
    ASSUME NEW s, NEW X, Ledger(s, X), NEW t, t.rooms = s.rooms, t.connected = s.connected,
           t.lookup = s.lookup, t.told = s.told, t.metrics = s.metrics
    PROVE  Ledger(t, X)
BY DEF Ledger, TurnKept, Known, Informed, Counted, UsersAt, SessionsAt

\* The loop's state after a step.
LEMMA NextNowFields ==
    /\ Now'.rooms = rooms' /\ Now'.connected = connected' /\ Now'.lookup = lookup'
    /\ Now'.told = told' /\ Now'.metrics = metrics'
BY DEF Now

\* A handler that yields a right ledger leaves one.
LEMMA BecomeLedger ==
    ASSUME NEW s, Ledger(s, {}), Become(s)
    PROVE  Ledger(Now, {})'
<1>1. Ledger(Now', {})
  BY NextNowFields, SameLedger DEF Become
<1> QED BY <1>1

\* A connection that is new to the loop has been told nothing.
LEMMA ConnectLedger ==
    ASSUME LInv, NEW c \in Client, Connect(c)
    PROVE  Ledger(Now, {})'
<1> DEFINE s == Now
           t == Now'
<1>1. Safe(s) /\ Ledger(s, {}) /\ c \notin DOMAIN s.connected
  BY IInvOfNow, NowFields DEF LInv, Connect
<1>2. /\ t.rooms = s.rooms /\ t.lookup = s.lookup /\ t.metrics = s.metrics
      /\ t.connected = Put(s.connected, c, NoRoom)
      /\ t.told = [s.told EXCEPT ![c] = Fresh]
  BY NowFields, NextNowFields DEF Connect
<1> HIDE DEF s, t
<1>3. s.told = [d \in Client |-> s.told[d]]
  BY <1>1 DEF Safe, StateType, ToldType
<1>4. /\ t.told[c] = Fresh
      /\ \A d \in Client \ {c} : t.told[d] = s.told[d]
  BY <1>2, <1>3
<1>5. \A r \in DOMAIN s.rooms : c \notin DOMAIN s.rooms[r].users
  BY <1>1, InOneRoom DEF Safe
<1>6. TurnKept(t) /\ Counted(t)
  BY <1>1, <1>2 DEF Ledger, TurnKept, Counted, UsersAt, SessionsAt
<1>7. Informed(t, {})
  <2>1. \A r \in DOMAIN s.rooms : DOMAIN s.rooms[r].users \subseteq Client
    BY <1>1, SafeRooms
  <2> QED BY <1>1, <1>2, <1>4, <1>5, <2>1 DEF Ledger, Informed
<1>8. Known(t)
  <2>1. /\ DOMAIN t.connected = DOMAIN s.connected \cup {c}
        /\ \A d \in DOMAIN t.connected :
                t.connected[d] = IF d = c THEN NoRoom ELSE s.connected[d]
    BY <1>2 DEF Put
  <2>2. t.told[c].closes = 0 /\ t.told[c].open = {}
    BY <1>4 DEF Fresh
  <2>3. Known(s)
    BY <1>1 DEF Ledger
  <2> SUFFICES ASSUME NEW d \in Client
               PROVE  /\ d \notin DOMAIN t.connected => t.told[d] = Gone
                      /\ d \in DOMAIN t.connected =>
                          /\ t.told[d].closes = 0
                          /\ t.connected[d] = NoRoom => t.told[d].open = {}
                          /\ t.connected[d] # NoRoom =>
                                 t.told[d].open
                                    = SessionsOf(t.rooms[t.connected[d]].sessions, d)
    BY DEF Known
  <2>4. CASE d = c
    BY <2>1, <2>2, <2>4
  <2>5. CASE d # c
    BY <1>2, <1>4, <2>1, <2>3, <2>5 DEF Known
  <2> QED BY <2>4, <2>5
<1> QED BY <1>6, <1>7, <1>8 DEF Ledger, t

\* Nothing is on the books when the server starts.
LEMMA InitLedger == Init => Ledger(Now, {})
<1> SUFFICES ASSUME Init PROVE Ledger(Now, {})
  OBVIOUS
<1>1. /\ DOMAIN rooms = {} /\ DOMAIN connected = {} /\ lookup = {}
      /\ told = [c \in Client |-> Gone]
      /\ metrics = [users |-> 0, rooms |-> 0, sessions |-> 0]
  BY DEF Init, Empty
<1>2. TurnKept(Now) /\ Known(Now) /\ Informed(Now, {})
  BY <1>1, NowFields DEF TurnKept, Known, Informed
<1>3. Counted(Now)
  <2>1. Pairs(UsersAt(Now)) = {} /\ Pairs(SessionsAt(Now)) = {}
    BY <1>1, NowFields DEF Pairs, UsersAt, SessionsAt
  <2> QED BY <1>1, <2>1, NowFields, FS_EmptySet DEF Counted
<1> QED BY <1>2, <1>3 DEF Ledger

\* No message and no new connection upsets the ledger.
LEMMA NextLedger == LInv /\ [Next]_vars => LInv'
<1> SUFFICES ASSUME LInv, [Next]_vars PROVE Ledger(Now, {})'
  BY NextSafe DEF LInv
<1>1. CASE UNCHANGED vars
  <2>1. Become(Now)
    BY <1>1, NowFields DEF Become, vars
  <2> QED BY <2>1, BecomeLedger DEF LInv
<1>2. CASE \E c \in Client : Connect(c)
  BY <1>2, ConnectLedger
<1>3. CASE Becomes
  <2>1. PICK t : Become(t) /\ Outcome(Now, t)
    BY <1>3 DEF Becomes
  <2>2. Ledger(t, {})
    BY <2>1, IInvOfNow, OutcomeLedger DEF LInv
  <2> QED BY <2>1, <2>2, BecomeLedger
<1> QED BY <1>1, <1>2, <1>3, NextOutcome DEF LInv

\* The ledger is always right.
THEOREM LedgerInvariant == Spec => []LInv
<1>1. Init => LInv
  BY InitSafe, InitLedger DEF LInv
<1> QED BY <1>1, NextLedger, PTL DEF Spec

-----------------------------------------------------------------------------
\* The entries of the ledger, one by one.

\* The TURN server accepts the credentials of the sessions that are open, in whatever
\* way others have ended, and of no other.
THEOREM CredentialsFollow == Spec => []TurnFollowsSessions
<1>1. ASSUME LInv PROVE TurnFollowsSessions
  <2>1. TurnKept(Now)
    BY <1>1 DEF LInv, Ledger
  <2>2. \A k : k \in lookup <=>
            \E r \in DOMAIN rooms :
                rooms[r].mode = "turn" /\ k \in Credentials(rooms[r].sessions)
    BY <2>1, NowFields DEF TurnKept
  <2>3. \A k : k \in lookup <=>
            k \in UNION {Credentials(rooms[r].sessions) :
                            r \in {q \in DOMAIN rooms : rooms[q].mode = "turn"}}
    BY <2>2
  <2> QED BY <2>3, Zenon DEF TurnFollowsSessions
<1> QED BY <1>1, LedgerInvariant, PTL

\* No page keeps a peer to someone who left, or lacks one it should have.
THEOREM EndsKnow == Spec => []EveryEndKnowsItsSessions
<1>1. ASSUME LInv PROVE EveryEndKnowsItsSessions
  <2> SUFFICES ASSUME NEW r \in DOMAIN rooms, NEW c \in DOMAIN rooms[r].users
               PROVE  told[c].open = SessionsOf(rooms[r].sessions, c)
    BY DEF EveryEndKnowsItsSessions
  <2>1. Known(Now)
    BY <1>1 DEF LInv, Ledger
  <2>2. /\ c \in Client /\ c \in DOMAIN connected /\ connected[c] = r /\ r # NoRoom
    BY <1>1, RoomIdAssumption DEF LInv, IInv, ConnectedMatchesRooms, TypeOK, IsMap
  <2> QED BY <2>1, <2>2, NowFields DEF Known
<1> QED BY <1>1, LedgerInvariant, PTL

\* No connection is told to close while the loop knows it, or twice.
THEOREM OneClose == Spec => []ClosedOnce
<1>1. ASSUME LInv PROVE ClosedOnce
  <2>1. Known(Now)
    BY <1>1 DEF LInv, Ledger
  <2> QED BY <2>1, NowFields DEF Known, ClosedOnce
<1> QED BY <1>1, LedgerInvariant, PTL

\* The counters of prometheus never drift from the rooms, whatever the rooms.
THEOREM CountersBalance == Spec => []MetricsBalance
<1>1. ASSUME LInv PROVE MetricsBalance
  <2> DEFINE U == [r \in DOMAIN rooms |-> DOMAIN rooms[r].users]
             S == [r \in DOMAIN rooms |-> rooms[r].sessions]
  <2>1. Counted(Now)
    BY <1>1 DEF LInv, Ledger
  <2>2. UsersAt(Now) = U /\ SessionsAt(Now) = S
    BY NowFields DEF UsersAt, SessionsAt
  <2>3. /\ Pairs(U) = UNION {{r} \X U[r] : r \in DOMAIN rooms}
        /\ Pairs(S) = UNION {{r} \X S[r] : r \in DOMAIN rooms}
    BY DEF Pairs
  <2> HIDE DEF U, S
  <2>4. /\ metrics.rooms = Cardinality(DOMAIN rooms)
        /\ metrics.users = Cardinality(UNION {{r} \X U[r] : r \in DOMAIN rooms})
        /\ metrics.sessions = Cardinality(UNION {{r} \X S[r] : r \in DOMAIN rooms})
    BY <2>1, <2>2, <2>3, NowFields DEF Counted
  <2> QED BY <2>4, Zenon DEF MetricsBalance, U, S
<1> QED BY <1>1, LedgerInvariant, PTL

-----------------------------------------------------------------------------
\* What a page makes of its room.

VisitorsOf(users) == {users[c].visitor : c \in DOMAIN users}
TabsOf(users, v) == {c \in DOMAIN users : users[c].visitor = v}
NameOf(users, v) == CHOOSE name \in NamesOf(users, v) : TRUE

RowOf(users, me, v) ==
    [name |-> NameOf(users, v),
     you |-> v = users[me].visitor,
     owner |-> \E c \in TabsOf(users, v) : users[c].owner,
     streaming |-> \E c \in TabsOf(users, v) : users[c].streaming,
     connections |-> Cardinality(TabsOf(users, v))]

\* The rows are those of the visitors.
LEMMA RowsOfVisitors ==
    ASSUME NEW users, NEW me
    PROVE  aggregateUsers(users, me) = {RowOf(users, me, v) : v \in VisitorsOf(users)}
BY DEF aggregateUsers, RowOf, NameOf, TabsOf, VisitorsOf

\* A visitor's row bears the name of each of its tabs, and nobody else's.
LEMMA NameOfTabs ==
    ASSUME NEW room, NamesIdentify(room), NEW v \in VisitorsOf(room.users),
           NEW d \in DOMAIN room.users
    PROVE  room.users[d].name = NameOf(room.users, v) <=> room.users[d].visitor = v
<1> DEFINE users == room.users
<1>1. PICK e \in DOMAIN users : users[e].visitor = v
  BY DEF VisitorsOf
<1>2. users[e].name \in NamesOf(users, v)
  BY <1>1 DEF NamesOf
<1>3. NameOf(users, v) \in NamesOf(users, v)
  BY <1>2 DEF NameOf
<1>4. PICK f \in DOMAIN users : users[f].visitor = v /\ users[f].name = NameOf(users, v)
  BY <1>3 DEF NamesOf
<1> QED BY <1>4 DEF NamesIdentify

\* The fields of a row.
LEMMA RowFields ==
    ASSUME NEW users, NEW me, NEW v
    PROVE  /\ RowOf(users, me, v).name = NameOf(users, v)
           /\ RowOf(users, me, v).you <=> v = users[me].visitor
           /\ RowOf(users, me, v).owner <=> \E c \in TabsOf(users, v) : users[c].owner
           /\ RowOf(users, me, v).streaming <=> \E c \in TabsOf(users, v) : users[c].streaming
           /\ RowOf(users, me, v).connections = Cardinality(TabsOf(users, v))
BY DEF RowOf

ShowsThePeople(users, rows) ==
    /\ \A row \in rows : row.connections =
           Cardinality({d \in DOMAIN users : users[d].name = row.name})
    /\ \A one, other \in rows :
           one # other => one.name # other.name /\ ~(one.owner /\ other.owner)
    /\ {row \in rows : row.you} # {}
    /\ \A one, other \in rows : one.you /\ other.you => one = other
    /\ \A d \in DOMAIN users : \E row \in rows :
           row.name = users[d].name /\ (users[d].streaming => row.streaming)

\* A page that has the users of its room shows the people in it.
LEMMA PageShowsThePeople ==
    ASSUME NEW room, NamesIdentify(room), OwnedByOne(room), NEW me \in DOMAIN room.users
    PROVE  ShowsThePeople(room.users, aggregateUsers(room.users, me))
<1> DEFINE users  == room.users
           V      == VisitorsOf(users)
           Row(v) == RowOf(users, me, v)
           rows   == aggregateUsers(users, me)
<1>1. rows = {Row(v) : v \in V}
  BY RowsOfVisitors
<1>2. \A v \in V : \A d \in DOMAIN users :
        users[d].name = Row(v).name <=> users[d].visitor = v
  BY NameOfTabs, RowFields
<1>3. \A v \in V : /\ Row(v).you <=> v = users[me].visitor
                   /\ Row(v).owner <=> \E c \in TabsOf(users, v) : users[c].owner
                   /\ Row(v).streaming <=> \E c \in TabsOf(users, v) : users[c].streaming
                   /\ Row(v).connections = Cardinality(TabsOf(users, v))
  BY RowFields
<1>4. \A d \in DOMAIN users : users[d].visitor \in V
  BY DEF VisitorsOf
<1>5. \A v \in V : \E d \in DOMAIN users : users[d].visitor = v
  BY DEF VisitorsOf
<1> HIDE DEF Row, rows, V
<1>6. ASSUME NEW row \in rows
      PROVE  row.connections = Cardinality({d \in DOMAIN users : users[d].name = row.name})
  <2>1. PICK v \in V : row = Row(v)
    BY <1>1
  <2>2. {d \in DOMAIN users : users[d].name = row.name} = TabsOf(users, v)
    BY <1>2, <2>1 DEF TabsOf
  <2> QED BY <1>3, <2>1, <2>2
<1>7. ASSUME NEW one \in rows, NEW other \in rows, one # other
      PROVE  one.name # other.name /\ ~(one.owner /\ other.owner)
  <2>1. PICK v \in V, w \in V : one = Row(v) /\ other = Row(w) /\ v # w
    BY <1>1, <1>7
  <2>2. one.name # other.name
    BY <1>2, <1>5, <2>1
  <2>3. ~(Row(v).owner /\ Row(w).owner)
    <3> SUFFICES ASSUME Row(v).owner, Row(w).owner PROVE FALSE
      OBVIOUS
    <3>1. PICK c \in TabsOf(users, v) : users[c].owner
      BY <1>3
    <3>2. PICK d \in TabsOf(users, w) : users[d].owner
      BY <1>3
    <3>3. c \in DOMAIN users /\ users[c].visitor = v /\ d \in DOMAIN users /\ users[d].visitor = w
      BY DEF TabsOf
    <3> QED BY <2>1, <3>1, <3>2, <3>3 DEF OwnedByOne
  <2>4. ~(one.owner /\ other.owner)
    BY <2>1, <2>3
  <2> QED BY <2>2, <2>4
<1>8. {row \in rows : row.you} # {}
  <2>1. users[me].visitor \in V
    BY <1>4
  <2>2. Row(users[me].visitor) \in rows /\ Row(users[me].visitor).you
    BY <1>1, <1>3, <2>1
  <2> QED BY <2>2
<1>9. ASSUME NEW one \in rows, NEW other \in rows, one.you, other.you PROVE one = other
  <2>1. PICK v \in V, w \in V : one = Row(v) /\ other = Row(w)
    BY <1>1
  <2>2. v = w
    BY <1>3, <1>9, <2>1
  <2> QED BY <2>1, <2>2
<1>10. ASSUME NEW d \in DOMAIN users
       PROVE  \E row \in rows : row.name = users[d].name /\ (users[d].streaming => row.streaming)
  <2> DEFINE row == Row(users[d].visitor)
  <2>1. row \in rows
    BY <1>1, <1>4
  <2>2. row.name = users[d].name
    BY <1>2, <1>4
  <2>3. users[d].streaming => row.streaming
    BY <1>3, <1>4 DEF TabsOf
  <2> QED BY <2>1, <2>2, <2>3
<1> QED BY <1>6, <1>7, <1>8, <1>9, <1>10 DEF ShowsThePeople, rows

\* Every page shows the people in its room.
THEOREM PagesShowThePeople == Spec => []EveryMemberSeesThePeople
<1>1. ASSUME LInv PROVE EveryMemberSeesThePeople
  <2> SUFFICES ASSUME NEW r \in DOMAIN rooms, NEW c \in DOMAIN rooms[r].users
               PROVE  /\ told[c].info = rooms[r].users
                      /\ ShowsThePeople(rooms[r].users, aggregateUsers(told[c].info, c))
    BY Zenon DEF EveryMemberSeesThePeople, ShowsThePeople
  <2>1. told[c].info = rooms[r].users
    BY <1>1, NowFields DEF LInv, Ledger, Informed
  <2>2. RoomSafe(rooms[r])
    BY <1>1, IInvOfNow, NowFields DEF LInv, Safe, RoomsSafe
  <2>3. ShowsThePeople(rooms[r].users, aggregateUsers(rooms[r].users, c))
    BY <2>2, PageShowsThePeople DEF RoomSafe
  <2> QED BY <2>1, <2>3
<1> QED BY <1>1, LedgerInvariant, PTL

-----------------------------------------------------------------------------
\* What a step may do to the people.

SameIdentity(u, w) == w.visitor = u.visitor /\ w.name = u.name /\ w.owner = u.owner

\* Everybody stays, as who they were.
Keeps(s, t) ==
    \A r \in DOMAIN s.rooms :
        /\ r \in DOMAIN t.rooms
        /\ t.rooms[r].closeOnOwnerLeave = s.rooms[r].closeOnOwnerLeave
        /\ \A c \in DOMAIN s.rooms[r].users :
            /\ c \in DOMAIN t.rooms[r].users
            /\ SameIdentity(s.rooms[r].users[c], t.rooms[r].users[c])

\* Whoever stays is who they were.
Stable(s, t) ==
    \A r \in DOMAIN s.rooms \cap DOMAIN t.rooms :
        \A c \in DOMAIN s.rooms[r].users \cap DOMAIN t.rooms[r].users :
            SameIdentity(s.rooms[r].users[c], t.rooms[r].users[c])

Owners(room) == {c \in DOMAIN room.users : room.users[c].owner}

\* A room that is gone had one member, or one connection of its owner.
Outlives(s, t) ==
    \A r \in DOMAIN s.rooms \ DOMAIN t.rooms :
        \/ Cardinality(DOMAIN s.rooms[r].users) = 1
        \/ s.rooms[r].closeOnOwnerLeave /\ Cardinality(Owners(s.rooms[r])) = 1

WhereOf(s) == [c \in Client |-> IF c \in DOMAIN s.connected THEN s.connected[c] ELSE NoRoom]
SharingOf(s) == UNION {Streamers(s.rooms[r].users) : r \in DOMAIN s.rooms}

Stays(s, t) == WhereOf(t) = WhereOf(s) /\ SharingOf(t) = SharingOf(s)

Enters(s, t, c, r) ==
    /\ WhereOf(s)[c] = NoRoom
    /\ WhereOf(t) = [WhereOf(s) EXCEPT ![c] = r]
    /\ SharingOf(t) = SharingOf(s)

Departs(s, t, P) ==
    /\ \A p \in P : WhereOf(s)[p] # NoRoom
    /\ WhereOf(t) = [p \in Client |-> IF p \in P THEN NoRoom ELSE WhereOf(s)[p]]
    /\ SharingOf(t) = SharingOf(s) \ P

Shares(s, t, c) ==
    /\ WhereOf(s)[c] # NoRoom
    /\ WhereOf(t) = WhereOf(s)
    /\ SharingOf(t) = SharingOf(s) \cup {c}

Unshares(s, t, c) == WhereOf(t) = WhereOf(s) /\ SharingOf(t) = SharingOf(s) \ {c}

Moves(s, t) ==
    \/ Stays(s, t)
    \/ \E c \in Client : \/ \E r \in RoomId : Enters(s, t, c, r)
                         \/ Departs(s, t, {c}) \/ Shares(s, t, c) \/ Unshares(s, t, c)
    \/ \E r \in RoomId : Departs(s, t, {p \in Client : WhereOf(s)[p] = r})

\* All of it.
Steps(s, t) == Stable(s, t) /\ Outlives(s, t) /\ Moves(s, t)

\* Keeping everybody renames nobody and closes nothing.
LEMMA KeepingIsStable ==
    ASSUME NEW s, NEW t, Keeps(s, t)
    PROVE  Stable(s, t) /\ Outlives(s, t)
BY DEF Keeps, Stable, Outlives

\* Nor do two steps that keep everybody, or one and a stable one.
LEMMA KeepsThen ==
    ASSUME NEW s, NEW m, NEW t, Keeps(s, m)
    PROVE  /\ Keeps(m, t) => Keeps(s, t)
           /\ Stable(m, t) => Stable(s, t)
BY DEF Keeps, Stable, SameIdentity

\* Who shares, one by one.
LEMMA SharersOf ==
    ASSUME NEW s, NEW d
    PROVE  d \in SharingOf(s) <=>
               \E r \in DOMAIN s.rooms :
                   d \in DOMAIN s.rooms[r].users /\ s.rooms[r].users[d].streaming
BY DEF SharingOf, Streamers

\* The users of every room are the same.
SameUsers(s, t) ==
    /\ DOMAIN t.rooms = DOMAIN s.rooms
    /\ \A r \in DOMAIN s.rooms :
        /\ t.rooms[r].users = s.rooms[r].users
        /\ t.rooms[r].closeOnOwnerLeave = s.rooms[r].closeOnOwnerLeave

\* Then nothing changes for the people.
LEMMA SameUsersKept ==
    ASSUME NEW s, NEW t, SameUsers(s, t)
    PROVE  Keeps(s, t) /\ SharingOf(t) = SharingOf(s)
<1>1. Keeps(s, t)
  BY DEF SameUsers, Keeps, SameIdentity
<1>2. \A d : d \in SharingOf(t) <=> d \in SharingOf(s)
  BY SharersOf DEF SameUsers
<1> QED BY <1>1, <1>2

\* Opening sessions and telling a room its members are no matter of the people.
LEMMA OpenSameUsers ==
    ASSUME NEW s, Safe(s), NEW r \in DOMAIN s.rooms, NEW new
    PROVE  /\ SameUsers(s, OpenSessions(s, r, new))
           /\ OpenSessions(s, r, new).connected = s.connected
<1> DEFINE t    == OpenSessions(s, r, new)
           room == RoomShowing(s.rooms[r], new)
<1>1. RoomBecomes(s, t, r, room)
  BY ShowingShape DEF Safe, StateType
<1>2. IsRoom(s.rooms[r])
  BY SafeRooms
<1>3. room.users = s.rooms[r].users /\ room.closeOnOwnerLeave = s.rooms[r].closeOnOwnerLeave
  BY <1>2 DEF RoomShowing, IsRoom
<1> HIDE DEF t, room
<1> QED BY <1>1, <1>3 DEF RoomBecomes, SameUsers, t

\* Nor is telling a room its members.
LEMMA NotifySameUsers ==
    ASSUME NEW s, Safe(s), NEW r
    PROVE  /\ SameUsers(s, NotifyInfoChanged(s, r))
           /\ NotifyInfoChanged(s, r).connected = s.connected
<1>1. /\ NotifyInfoChanged(s, r).rooms = s.rooms
      /\ NotifyInfoChanged(s, r).connected = s.connected
  BY NotifyShape DEF Safe, StateType
<1> QED BY <1>1 DEF SameUsers

\* Where people are follows from connected.
LEMMA WhereOfSame ==
    ASSUME NEW s, NEW t, t.connected = s.connected
    PROVE  WhereOf(t) = WhereOf(s)
BY DEF WhereOf

\* Room r has become room, and the others are as they were.
Exchanged(s, t, r, room) ==
    /\ DOMAIN t.rooms = DOMAIN s.rooms
    /\ \A q \in DOMAIN s.rooms : t.rooms[q] = IF q = r THEN room ELSE s.rooms[q]

\* That is what replacing it does.
LEMMA ReplacedIsExchanged ==
    ASSUME NEW s, NEW r \in DOMAIN s.rooms, NEW room, NEW t,
           t.rooms = [s.rooms EXCEPT ![r] = room]
    PROVE  Exchanged(s, t, r, room)
BY DEF Exchanged

\* If everybody in the room stays, everybody does.
LEMMA ExchangedKeeps ==
    ASSUME NEW s, NEW r \in DOMAIN s.rooms, NEW room,
           room.closeOnOwnerLeave = s.rooms[r].closeOnOwnerLeave,
           \A c \in DOMAIN s.rooms[r].users :
               /\ c \in DOMAIN room.users
               /\ SameIdentity(s.rooms[r].users[c], room.users[c]),
           NEW t, Exchanged(s, t, r, room)
    PROVE  Keeps(s, t)
BY DEF Exchanged, Keeps, SameIdentity

\* Who shares follows who shares in room r.
Follows(s, t, r, room, c) ==
    /\ Streamers(room.users) = Streamers(s.rooms[r].users)
           => SharingOf(t) = SharingOf(s)
    /\ Streamers(room.users) = Streamers(s.rooms[r].users) \cup {c}
           => SharingOf(t) = SharingOf(s) \cup {c}
    /\ Streamers(room.users) = Streamers(s.rooms[r].users) \ {c}
           => SharingOf(t) = SharingOf(s) \ {c}

\* Who shares in the room becomes someone more, someone less, or stays.
LEMMA ExchangedSharing ==
    ASSUME NEW s, NEW r \in DOMAIN s.rooms, NEW room, NEW t, Exchanged(s, t, r, room),
           NEW c, \A q \in DOMAIN s.rooms \ {r} : c \notin DOMAIN s.rooms[q].users
    PROVE  Follows(s, t, r, room, c)
<1>1. \A d : d \in SharingOf(t) <=>
            \/ d \in Streamers(room.users)
            \/ \E q \in DOMAIN s.rooms \ {r} : d \in Streamers(s.rooms[q].users)
  BY DEF Exchanged, SharingOf
<1>2. \A d : d \in SharingOf(s) <=>
            \/ d \in Streamers(s.rooms[r].users)
            \/ \E q \in DOMAIN s.rooms \ {r} : d \in Streamers(s.rooms[q].users)
  BY DEF SharingOf
<1>3. \A q \in DOMAIN s.rooms \ {r} : c \notin Streamers(s.rooms[q].users)
  BY DEF Streamers
<1> QED BY <1>1, <1>2, <1>3 DEF Follows

-----------------------------------------------------------------------------
\* What the chains do to the people.

\* A connection in no room is a user of none.
LEMMA OutsiderNowhere ==
    ASSUME NEW s, Safe(s), NEW c \in DOMAIN s.connected, s.connected[c] = NoRoom
    PROVE  /\ c \in Client /\ WhereOf(s)[c] = NoRoom
           /\ \A r \in DOMAIN s.rooms : r # NoRoom /\ c \notin DOMAIN s.rooms[r].users
BY RoomIdAssumption DEF Safe, StateType, RoomsType, ConnectedType, IsMap, Matches, WhereOf

\* A user of a room is in no other.
LEMMA MemberSomewhere ==
    ASSUME NEW s, Safe(s), NEW r \in DOMAIN s.rooms, NEW c \in DOMAIN s.rooms[r].users
    PROVE  /\ c \in Client /\ c \in DOMAIN s.connected /\ s.connected[c] = r
           /\ r \in RoomId /\ r # NoRoom /\ WhereOf(s)[c] = r
           /\ \A q \in DOMAIN s.rooms \ {r} : c \notin DOMAIN s.rooms[q].users
BY RoomIdAssumption, SafeRooms DEF Safe, StateType, RoomsType, Matches, WhereOf

\* Entering is the one change to where people are.
LEMMA EntersWhere ==
    ASSUME NEW s, NEW t, NEW c \in DOMAIN s.connected, c \in Client, NEW r,
           t.connected = [s.connected EXCEPT ![c] = r]
    PROVE  WhereOf(t) = [WhereOf(s) EXCEPT ![c] = r]
<1>1. /\ DOMAIN t.connected = DOMAIN s.connected
      /\ \A d \in DOMAIN s.connected : t.connected[d] = IF d = c THEN r ELSE s.connected[d]
  OBVIOUS
<1> QED BY <1>1 DEF WhereOf

\* A newcomer enters, and nobody is disturbed.
LEMMA JoinedSteps ==
    ASSUME NEW s, Safe(s), NEW c \in DOMAIN s.connected, s.connected[c] = NoRoom,
           NEW r \in DOMAIN s.rooms, NEW v \in Visitor \cup {Blank}, NEW name
    PROVE  /\ Keeps(s, Joined(s, c, r, v, name))
           /\ Enters(s, Joined(s, c, r, v, name), c, r)
<1> DEFINE t    == Joined(s, c, r, v, name)
           user == JoinedUser(s, c, r, v, name)
           room == RoomWith(s.rooms[r], c, user)
<1>1. IsRoom(s.rooms[r])
  BY SafeRooms
<1>2. /\ c \in Client /\ WhereOf(s)[c] = NoRoom /\ c \notin DOMAIN s.rooms[r].users
  BY OutsiderNowhere
<1>3. /\ t.rooms = [s.rooms EXCEPT ![r] = room]
      /\ t.connected = [s.connected EXCEPT ![c] = r]
  BY JoinedShape DEF Safe, StateType
<1>4. ~user.streaming
  BY DEF JoinedUser, NewUser
<1> HIDE DEF user
<1>5. /\ room.closeOnOwnerLeave = s.rooms[r].closeOnOwnerLeave
      /\ DOMAIN room.users = DOMAIN s.rooms[r].users \cup {c}
      /\ room.users[c] = user
      /\ \A d \in DOMAIN s.rooms[r].users : room.users[d] = s.rooms[r].users[d]
  BY <1>1, <1>2 DEF RoomWith, IsRoom, Put
<1> HIDE DEF t, room
<1>10. Exchanged(s, t, r, room)
  BY <1>3, ReplacedIsExchanged
<1>6. Keeps(s, t)
  BY <1>5, <1>10, ExchangedKeeps DEF SameIdentity
<1>7. Streamers(room.users) = Streamers(s.rooms[r].users)
  BY <1>2, <1>4, <1>5 DEF Streamers
<1>8. SharingOf(t) = SharingOf(s)
  <2>1. \A q \in DOMAIN s.rooms \ {r} : c \notin DOMAIN s.rooms[q].users
    BY OutsiderNowhere
  <2>2. Follows(s, t, r, room, c)
    BY <1>10, <2>1, ExchangedSharing
  <2> QED BY <1>7, <2>2 DEF Follows
<1>9. WhereOf(t) = [WhereOf(s) EXCEPT ![c] = r]
  BY <1>2, <1>3, EntersWhere
<1> QED BY <1>2, <1>6, <1>8, <1>9 DEF Enters, t

\* Someone streams, and nobody is disturbed.
LEMMA StreamingSteps ==
    ASSUME NEW s, Safe(s), NEW r \in DOMAIN s.rooms, NEW c \in DOMAIN s.rooms[r].users
    PROVE  /\ Keeps(s, Streaming(s, c, r, TRUE))
           /\ Shares(s, Streaming(s, c, r, TRUE), c)
<1> DEFINE t    == Streaming(s, c, r, TRUE)
           room == RoomStreaming(s.rooms[r], c, TRUE)
<1>1. IsRoom(s.rooms[r])
  BY SafeRooms
<1>2. RoomBecomes(s, t, r, room)
  BY StreamingShape DEF Safe, StateType
<1>3. StreamingSet(s.rooms[r], room, c, TRUE)
  BY <1>1, RoomStreamingFields
<1> HIDE DEF t, room
<1>4. t.rooms = [s.rooms EXCEPT ![r] = room] /\ t.connected = s.connected
  BY <1>2 DEF RoomBecomes
<1>5. /\ room.closeOnOwnerLeave = s.rooms[r].closeOnOwnerLeave
      /\ \A d \in DOMAIN s.rooms[r].users :
            d \in DOMAIN room.users /\ SameIdentity(s.rooms[r].users[d], room.users[d])
  BY <1>3 DEF StreamingSet, SameIdentity
<1>10. Exchanged(s, t, r, room)
  BY <1>4, ReplacedIsExchanged
<1>6. Keeps(s, t)
  BY <1>5, <1>10, ExchangedKeeps
<1>7. Streamers(room.users) = Streamers(s.rooms[r].users) \cup {c}
  BY <1>3 DEF StreamingSet, Streamers
<1>8. SharingOf(t) = SharingOf(s) \cup {c}
  <2>1. \A q \in DOMAIN s.rooms \ {r} : c \notin DOMAIN s.rooms[q].users
    BY MemberSomewhere
  <2>2. Follows(s, t, r, room, c)
    BY <1>10, <2>1, ExchangedSharing
  <2> QED BY <1>7, <2>2 DEF Follows
<1>9. WhereOf(s)[c] # NoRoom
  BY MemberSomewhere
<1> QED BY <1>4, <1>6, <1>8, <1>9, WhereOfSame DEF Shares, t

\* So when someone ceases to.
LEMMA StoppedSteps ==
    ASSUME NEW s, Safe(s), NEW r \in DOMAIN s.rooms, NEW c \in DOMAIN s.rooms[r].users
    PROVE  Steps(s, Stopped(s, c, r)) /\ Unshares(s, Stopped(s, c, r), c)
<1> DEFINE t    == Stopped(s, c, r)
           mid  == RoomStreaming(s.rooms[r], c, FALSE)
           room == RoomStopped(s.rooms[r], c)
<1>1. IsRoom(s.rooms[r])
  BY SafeRooms
<1>2. RoomBecomes(s, t, r, room)
  BY StoppedShape DEF Safe
<1>3. StreamingSet(s.rooms[r], mid, c, FALSE)
  BY <1>1, RoomStreamingFields
<1>4. room.users = mid.users /\ room.closeOnOwnerLeave = s.rooms[r].closeOnOwnerLeave
  BY <1>1 DEF RoomStopped, RoomStreaming, IsRoom
<1> HIDE DEF t, room, mid
<1>5. t.rooms = [s.rooms EXCEPT ![r] = room] /\ t.connected = s.connected
  BY <1>2 DEF RoomBecomes
<1>6. \A d \in DOMAIN s.rooms[r].users :
            d \in DOMAIN room.users /\ SameIdentity(s.rooms[r].users[d], room.users[d])
  BY <1>3, <1>4 DEF StreamingSet, SameIdentity
<1>11. Exchanged(s, t, r, room)
  BY <1>5, ReplacedIsExchanged
<1>7. Keeps(s, t)
  BY <1>4, <1>6, <1>11, ExchangedKeeps
<1>8. Streamers(room.users) = Streamers(s.rooms[r].users) \ {c}
  BY <1>3, <1>4 DEF StreamingSet, Streamers
<1>9. SharingOf(t) = SharingOf(s) \ {c}
  <2>1. \A q \in DOMAIN s.rooms \ {r} : c \notin DOMAIN s.rooms[q].users
    BY MemberSomewhere
  <2>2. Follows(s, t, r, room, c)
    BY <1>11, <2>1, ExchangedSharing
  <2> QED BY <1>8, <2>2 DEF Follows
<1>10. c \in Client /\ Unshares(s, t, c)
  BY <1>5, <1>9, MemberSomewhere, WhereOfSame DEF Unshares
<1> QED BY <1>7, <1>10, KeepingIsStable DEF Steps, Moves, t

\* A room is created, with one person in it.
LEMMA CreatedSteps ==
    ASSUME NEW s, Safe(s), NEW c \in DOMAIN s.connected, s.connected[c] = NoRoom,
           NEW r \in RoomId, r \notin DOMAIN s.rooms, NEW mode, NEW close, NEW v
    PROVE  /\ Steps(s, Created(s, c, r, mode, close, v))
           /\ Enters(s, Created(s, c, r, mode, close, v), c, r)
<1> DEFINE t    == Created(s, c, r, mode, close, v)
           room == CreatedRoom(c, mode, close, v)
<1>1. RoomAppears(s, t, c, r, room)
  BY CreatedShape DEF Safe, StateType
<1>2. Streamers(room.users) = {}
  BY DEF CreatedRoom, NewRoom, NewUser, Put, Empty, Streamers
<1> HIDE DEF t, room
<1>3. t.rooms = Put(s.rooms, r, room) /\ t.connected = [s.connected EXCEPT ![c] = r]
  BY <1>1 DEF RoomAppears
<1>4. /\ DOMAIN t.rooms = DOMAIN s.rooms \cup {r} /\ t.rooms[r] = room
      /\ \A q \in DOMAIN s.rooms : t.rooms[q] = s.rooms[q]
  BY <1>3 DEF Put
<1>5. Keeps(s, t)
  BY <1>4 DEF Keeps, SameIdentity
<1>6. SharingOf(t) = SharingOf(s)
  <2>1. \A d : d \in SharingOf(t) <=> \E q \in DOMAIN s.rooms \cup {r} :
                                        d \in Streamers(t.rooms[q].users)
    BY <1>4 DEF SharingOf
  <2>2. \A d : d \in SharingOf(s) <=> \E q \in DOMAIN s.rooms : d \in Streamers(s.rooms[q].users)
    BY DEF SharingOf
  <2> QED BY <1>2, <1>4, <2>1, <2>2
<1>7. c \in Client /\ Enters(s, t, c, r)
  BY <1>3, <1>6, OutsiderNowhere, EntersWhere DEF Enters
<1> QED BY <1>5, <1>7, KeepingIsStable DEF Steps, Moves, t

\* Everybody in room r.
InsideOf(s, r) == {p \in Client : WhereOf(s)[p] = r}

\* One person goes, or the whole of their room, or one who was in none.
Ends(s, t, c) ==
    /\ Stable(s, t) /\ Outlives(s, t)
    /\ \/ s.connected[c] = NoRoom /\ Stays(s, t)
       \/ Departs(s, t, {c})
       \/ \E r \in RoomId : c \in InsideOf(s, r) /\ Departs(s, t, InsideOf(s, r))

\* The users of a room are those whom connected has in it.
LEMMA UsersAreInside ==
    ASSUME NEW s, Safe(s), NEW r \in DOMAIN s.rooms
    PROVE  DOMAIN s.rooms[r].users = InsideOf(s, r)
BY RoomIdAssumption, SafeRooms DEF Safe, StateType, RoomsType, Matches, WhereOf, InsideOf

\* Those of P are nowhere, the others where they were.
Forgets(s, t, P) ==
    WhereOf(t) = [p \in Client |-> IF p \in P THEN NoRoom ELSE WhereOf(s)[p]]

\* Where people are when some connections are forgotten.
LEMMA WithoutWhere ==
    ASSUME NEW s, NEW P, NEW t, t.connected = Without(s.connected, P)
    PROVE  Forgets(s, t, P)
BY DEF WhereOf, Without, Forgets

\* What closes a room.
LEMMA ClosingRoom ==
    ASSUME NEW room, IsRoom(room), OwnedByOne(room), NEW c \in DOMAIN room.users,
           OwnerGone(RoomWithout(room, c), room.users[c])
    PROVE  room.closeOnOwnerLeave /\ Cardinality(Owners(room)) = 1
<1> DEFINE left == RoomWithout(room, c)
<1>1. /\ DOMAIN left.users = DOMAIN room.users \ {c}
      /\ \A d \in DOMAIN left.users : left.users[d] = room.users[d]
      /\ left.closeOnOwnerLeave = room.closeOnOwnerLeave
  BY DEF RoomWithout, IsRoom, Without
<1> HIDE DEF left
<1>2. /\ room.users[c].owner /\ left.closeOnOwnerLeave
      /\ \A d \in DOMAIN left.users : left.users[d].visitor # room.users[c].visitor
  BY DEF OwnerGone, HasVisitor, left
<1>3. \A d \in DOMAIN room.users \ {c} : room.users[d].visitor # room.users[c].visitor
  BY <1>1, <1>2
<1>4. Owners(room) = {c}
  BY <1>2, <1>3 DEF Owners, OwnedByOne
<1> QED BY <1>1, <1>2, <1>4, FS_Singleton

\* However a connection ends.
LEMMA DroppedEnds ==
    ASSUME NEW s, Safe(s), NEW c \in DOMAIN s.connected
    PROVE  Ends(s, Dropped(s, c), c)
<1> DEFINE t    == Dropped(s, c)
           r    == s.connected[c]
           was  == s.rooms[r]
           room == RoomWithout(was, c)
<1>1. Leaves(s, t, c)
  BY DroppedShape DEF Safe
<1> HIDE DEF t
<1>2. c \in Client
  BY SafeRooms DEF StateType, ConnectedType, IsMap
<1>3. CASE /\ r = NoRoom
           /\ t.rooms = s.rooms
           /\ t.connected = Without(s.connected, {c})
  <2>1. Keeps(s, t) /\ SharingOf(t) = SharingOf(s)
    BY <1>3, SameUsersKept DEF SameUsers
  <2>2. t.connected = Without(s.connected, {c})
    BY <1>3
  <2>3. Forgets(s, t, {c})
    BY <2>2, WithoutWhere
  <2>4. WhereOf(t) = WhereOf(s)
    BY <1>3, <2>3 DEF WhereOf, Forgets
  <2>5. s.connected[c] = NoRoom /\ Stays(s, t)
    BY <1>3, <2>1, <2>4 DEF Stays
  <2>6. Stable(s, t) /\ Outlives(s, t)
    BY <2>1, KeepingIsStable
  <2> HIDE DEF r
  <2> QED BY <2>5, <2>6 DEF Ends, t
<1>4. CASE /\ r # NoRoom
           /\ DOMAIN was.users # {c}
           /\ ~OwnerGone(room, was.users[c])
           /\ t.rooms = [s.rooms EXCEPT ![r] = room]
           /\ t.connected = Without(s.connected, {c})
  <2>1. r \in DOMAIN s.rooms /\ c \in DOMAIN was.users
    BY <1>4 DEF Safe, Matches
  <2>2. IsRoom(was)
    BY <2>1, SafeRooms
  <2>3. /\ DOMAIN room.users = DOMAIN was.users \ {c}
        /\ \A d \in DOMAIN room.users : room.users[d] = was.users[d]
    BY <2>2 DEF RoomWithout, IsRoom, Without
  <2> HIDE DEF room
  <2>4. Exchanged(s, t, r, room)
    BY <1>4, <2>1, ReplacedIsExchanged
  <2>5. Stable(s, t)
    BY <2>3, <2>4 DEF Exchanged, Stable, SameIdentity
  <2>6. Outlives(s, t)
    BY <2>4 DEF Exchanged, Outlives
  <2>7. Streamers(room.users) = Streamers(was.users) \ {c}
    BY <2>3 DEF Streamers
  <2>8. WhereOf(s)[c] # NoRoom /\ \A q \in DOMAIN s.rooms \ {r} : c \notin DOMAIN s.rooms[q].users
    BY <2>1, MemberSomewhere
  <2>9. SharingOf(t) = SharingOf(s) \ {c}
    <3>1. Follows(s, t, r, room, c)
      BY <2>1, <2>4, <2>8, ExchangedSharing
    <3> QED BY <2>7, <3>1 DEF Follows
  <2>10. Forgets(s, t, {c})
    <3>1. t.connected = Without(s.connected, {c})
      BY <1>4
    <3> QED BY <3>1, WithoutWhere
  <2>11. Departs(s, t, {c})
    BY <2>8, <2>9, <2>10 DEF Departs, Forgets
  <2> HIDE DEF r, was
  <2> QED BY <2>5, <2>6, <2>11 DEF Ends, t
<1>5. CASE /\ r # NoRoom
           /\ \/ DOMAIN was.users = {c}
              \/ OwnerGone(room, was.users[c])
           /\ t.rooms = Without(s.rooms, {r})
           /\ t.connected = Without(s.connected, DOMAIN was.users)
  <2>1. r \in DOMAIN s.rooms /\ c \in DOMAIN was.users
    BY <1>5 DEF Safe, Matches
  <2>2. IsRoom(was) /\ OwnedByOne(was)
    BY <2>1, SafeRooms DEF Safe, RoomsSafe, RoomSafe
  <2>3. /\ DOMAIN t.rooms = DOMAIN s.rooms \ {r}
        /\ \A q \in DOMAIN t.rooms : t.rooms[q] = s.rooms[q]
    BY <1>5 DEF Without
  <2>4. Stable(s, t)
    BY <2>3 DEF Stable, SameIdentity
  <2>5. \/ Cardinality(DOMAIN was.users) = 1
        \/ was.closeOnOwnerLeave /\ Cardinality(Owners(was)) = 1
    BY <1>5, <2>1, <2>2, ClosingRoom, FS_Singleton
  <2>6. Outlives(s, t)
    BY <2>3, <2>5 DEF Outlives
  <2>7. DOMAIN was.users = InsideOf(s, r)
    BY <2>1, UsersAreInside
  <2>8. SharingOf(t) = SharingOf(s) \ DOMAIN was.users
    <3>1. \A q \in DOMAIN s.rooms \ {r} : \A d \in DOMAIN s.rooms[q].users :
            d \notin DOMAIN was.users
      BY <2>1 DEF Safe, Matches
    <3>2. \A d : d \in SharingOf(t) <=>
            \E q \in DOMAIN s.rooms \ {r} : d \in Streamers(s.rooms[q].users)
      BY <2>3 DEF SharingOf
    <3>3. \A d : d \in SharingOf(s) <=>
            \E q \in DOMAIN s.rooms : d \in Streamers(s.rooms[q].users)
      BY DEF SharingOf
    <3> QED BY <2>1, <3>1, <3>2, <3>3 DEF Streamers
  <2>9. \A p \in InsideOf(s, r) : WhereOf(s)[p] # NoRoom
    BY <1>5 DEF InsideOf
  <2>10. Forgets(s, t, InsideOf(s, r))
    <3>1. t.connected = Without(s.connected, InsideOf(s, r))
      BY <1>5, <2>7
    <3> QED BY <3>1, WithoutWhere
  <2>11. Departs(s, t, InsideOf(s, r))
    BY <2>7, <2>8, <2>9, <2>10 DEF Departs, Forgets
  <2>12. r \in RoomId /\ c \in InsideOf(s, r)
    BY <2>1, <2>7, MemberSomewhere
  <2> HIDE DEF r, was
  <2> QED BY <2>4, <2>6, <2>11, <2>12 DEF Ends, t
<1> QED BY <1>1, <1>3, <1>4, <1>5, Zenon DEF Leaves, t

-----------------------------------------------------------------------------
\* The outcomes, one by one.

\* A newcomer, its room, and the room it makes of it.
LEMMA NewcomerSteps ==
    ASSUME NEW s, Safe(s), NEW c, NEW r, NEW v, NEW name, Newcomer(s, c, r, v, name)
    PROVE  /\ Keeps(s, Joined(s, c, r, v, name))
           /\ Enters(s, Joined(s, c, r, v, name), c, r)
<1>1. /\ c \in DOMAIN s.connected /\ s.connected[c] = NoRoom /\ r \in DOMAIN s.rooms
      /\ v \in Visitor \cup {Blank}
  BY DEF Newcomer
<1> QED BY <1>1, JoinedSteps

\* Joining, with all it shows, is entering.
LEMMA JoinSteps ==
    ASSUME NEW s, Safe(s), Reaches(s, {}), Ledger(s, {}), NEW t, IsJoin(s, t)
    PROVE  Steps(s, t)
<1>1. PICK c, r, v, name : \E n \in Serial :
        Newcomer(s, c, r, v, name) /\ t = ShownTo(Joined(s, c, r, v, name), c, r, n)
  BY DEF IsJoin
<1>2. PICK n \in Serial :
        Newcomer(s, c, r, v, name) /\ t = ShownTo(Joined(s, c, r, v, name), c, r, n)
  BY <1>1
<1> DEFINE j   == Joined(s, c, r, v, name)
           new == SessionsBetween(Streamers(j.rooms[r].users) \ {c}, {c}, n)
<1>3. JoinsSafely(s, j, c, r)
  BY <1>2, NewcomerSafely
<1>4. Keeps(s, j) /\ Enters(s, j, c, r)
  BY <1>2, NewcomerSteps
<1>5. t = OpenSessions(j, r, new)
  BY <1>2 DEF ShownTo
<1> HIDE DEF j, new
<1>6. Safe(j) /\ r \in DOMAIN j.rooms /\ c \in Client
  BY <1>3 DEF JoinsSafely
<1>7. SameUsers(j, t) /\ t.connected = j.connected
  BY <1>5, <1>6, OpenSameUsers
<1>8. Keeps(s, t)
  BY <1>4, <1>7, SameUsersKept, KeepsThen
<1>9. SharingOf(t) = SharingOf(j) /\ WhereOf(t) = WhereOf(j)
  BY <1>7, SameUsersKept, WhereOfSame
<1>10. Enters(s, t, c, r)
  BY <1>4, <1>9 DEF Enters
<1>11. r \in RoomId
  BY <1>6 DEF Safe, StateType, RoomsType
<1> QED BY <1>6, <1>8, <1>10, <1>11, KeepingIsStable DEF Steps, Moves

\* Telling a room its members is nothing to them.
LEMMA NoticeSteps ==
    ASSUME NEW s, Safe(s), NEW r
    PROVE  Steps(s, NotifyInfoChanged(s, r))
<1> DEFINE t == NotifyInfoChanged(s, r)
<1>1. SameUsers(s, t) /\ t.connected = s.connected
  BY NotifySameUsers
<1> HIDE DEF t
<1>2. Keeps(s, t) /\ Stays(s, t)
  BY <1>1, SameUsersKept, WhereOfSame DEF Stays
<1> QED BY <1>2, KeepingIsStable DEF Steps, Moves, t

\* Sharing, with the sessions and the news, is sharing.
LEMMA ShareSteps ==
    ASSUME NEW s, Safe(s), Reaches(s, {}), NEW t, IsShare(s, t)
    PROVE  Steps(s, t)
<1>1. PICK c, r : \E n \in Serial :
        /\ Member(s, c, r)
        /\ s.rooms[r].sessions \cap SessionsBetween({c}, Client, n) = {}
        /\ t = NotifyInfoChanged(Shared(s, c, r, n), r)
  BY DEF IsShare
<1>2. PICK n \in Serial : Member(s, c, r) /\ t = NotifyInfoChanged(Shared(s, c, r, n), r)
  BY <1>1
<1>3. r \in DOMAIN s.rooms /\ c \in DOMAIN s.rooms[r].users /\ c \in Client
  BY <1>2, MemberSafely
<1> DEFINE on    == Streaming(s, c, r, TRUE)
           new   == SessionsBetween({c}, DOMAIN on.rooms[r].users \ {c}, n)
           shown == Shared(s, c, r, n)
<1>4. Safe(on) /\ Keeps(s, on) /\ Shares(s, on, c)
  BY <1>3, StreamingOnIsSafe, StreamingSteps
<1>5. shown = OpenSessions(on, r, new)
  BY DEF Shared, Shown
<1>6. SharedSafely(s, shown)
  BY <1>3, ShownIsSafe
<1>7. t = NotifyInfoChanged(shown, r)
  BY <1>2
<1> HIDE DEF on, new, shown
<1>8. r \in DOMAIN on.rooms
  BY <1>3, <1>4 DEF Keeps
<1>9. SameUsers(on, shown) /\ shown.connected = on.connected
  BY <1>4, <1>5, <1>8, OpenSameUsers
<1>10. SameUsers(shown, t) /\ t.connected = shown.connected
  BY <1>6, <1>7, NotifySameUsers DEF SharedSafely
<1>11. SameUsers(on, t) /\ t.connected = on.connected
  BY <1>9, <1>10 DEF SameUsers
<1>12. Keeps(s, t)
  BY <1>4, <1>11, SameUsersKept, KeepsThen
<1>13. SharingOf(t) = SharingOf(on) /\ WhereOf(t) = WhereOf(on)
  BY <1>11, SameUsersKept, WhereOfSame
<1>14. Shares(s, t, c)
  BY <1>4, <1>13 DEF Shares
<1> QED BY <1>3, <1>12, <1>14, KeepingIsStable DEF Steps, Moves

\* A connection that ends is somebody leaving, a room that is cleared, or nothing.
LEMMA DropSteps ==
    ASSUME NEW s, Safe(s), NEW c \in DOMAIN s.connected
    PROVE  Steps(s, Dropped(s, c))
<1> DEFINE t == Dropped(s, c)
<1>1. Ends(s, t, c)
  BY DroppedEnds
<1>2. c \in Client
  BY SafeRooms DEF StateType, ConnectedType, IsMap
<1> HIDE DEF t
<1>3. Moves(s, t)
  <2>1. CASE Stays(s, t)
    BY <2>1 DEF Moves
  <2>2. CASE Departs(s, t, {c})
    BY <1>2, <2>2 DEF Moves
  <2>3. CASE \E r \in RoomId : Departs(s, t, InsideOf(s, r))
    BY <2>3 DEF Moves, InsideOf
  <2> QED BY <1>1, <2>1, <2>2, <2>3 DEF Ends
<1> QED BY <1>1, <1>3 DEF Ends, Steps, t

\* A share that finds no address is the end of who tried, as if they had not.
LEMMA FailedShareSteps ==
    ASSUME NEW s, Safe(s), Reaches(s, {}), NEW t, IsFailedShare(s, t)
    PROVE  Steps(s, t)
<1>1. PICK c, r : Member(s, c, r) /\ t = Dropped(Streaming(s, c, r, TRUE), c)
  BY DEF IsFailedShare
<1> DEFINE on == Streaming(s, c, r, TRUE)
<1>2. /\ r \in DOMAIN s.rooms /\ c \in DOMAIN s.rooms[r].users /\ c \in Client
      /\ c \in DOMAIN s.connected /\ s.connected[c] = r /\ r # NoRoom
  BY <1>1, MemberSafely
<1>3. Safe(on) /\ Keeps(s, on) /\ Shares(s, on, c)
  BY <1>2, StreamingOnIsSafe, StreamingSteps
<1>4. on.connected = s.connected /\ DOMAIN on.rooms = DOMAIN s.rooms
      /\ \A q \in DOMAIN s.rooms : DOMAIN on.rooms[q].users = DOMAIN s.rooms[q].users
  <2> DEFINE room == RoomStreaming(s.rooms[r], c, TRUE)
  <2>1. RoomBecomes(s, on, r, room)
    BY StreamingShape DEF Safe, StateType
  <2>2. DOMAIN room.users = DOMAIN s.rooms[r].users
    BY <1>2, SafeRooms DEF RoomStreaming, IsRoom
  <2> HIDE DEF room, on
  <2> QED BY <2>1, <2>2 DEF RoomBecomes
<1>5. t = Dropped(on, c)
  BY <1>1
<1> HIDE DEF on
<1>6. Ends(on, t, c)
  BY <1>2, <1>3, <1>4, <1>5, DroppedEnds
<1>7. Stable(s, t)
  BY <1>3, <1>6, KeepsThen DEF Ends
<1>8. Outlives(s, t)
  <2> SUFFICES ASSUME NEW q \in DOMAIN s.rooms \ DOMAIN t.rooms
               PROVE  \/ Cardinality(DOMAIN s.rooms[q].users) = 1
                      \/ /\ s.rooms[q].closeOnOwnerLeave
                         /\ Cardinality(Owners(s.rooms[q])) = 1
    BY DEF Outlives
  <2>1. \/ Cardinality(DOMAIN on.rooms[q].users) = 1
        \/ on.rooms[q].closeOnOwnerLeave /\ Cardinality(Owners(on.rooms[q])) = 1
    BY <1>4, <1>6 DEF Ends, Outlives
  <2>2. on.rooms[q].closeOnOwnerLeave = s.rooms[q].closeOnOwnerLeave
    BY <1>3 DEF Keeps
  <2>3. Owners(on.rooms[q]) = Owners(s.rooms[q])
    <3>1. \A d \in DOMAIN s.rooms[q].users :
            on.rooms[q].users[d].owner = s.rooms[q].users[d].owner
      BY <1>3 DEF Keeps, SameIdentity
    <3>2. DOMAIN on.rooms[q].users = DOMAIN s.rooms[q].users
      BY <1>4
    <3> QED BY <3>1, <3>2 DEF Owners
  <2> QED BY <1>4, <2>1, <2>2, <2>3
<1>9. /\ WhereOf(on) = WhereOf(s) /\ WhereOf(s)[c] = r
      /\ SharingOf(on) = SharingOf(s) \cup {c}
  BY <1>2, <1>3 DEF Shares, WhereOf
<1>10. ASSUME NEW P, c \in P, Departs(on, t, P)
       PROVE  Departs(s, t, P)
  BY <1>9, <1>10 DEF Departs
<1>11. Moves(s, t)
  <2>1. on.connected[c] # NoRoom
    BY <1>2, <1>4
  <2>2. CASE Departs(on, t, {c})
    <3>1. Departs(s, t, {c})
      BY <1>10, <2>2
    <3> QED BY <1>2, <3>1 DEF Moves
  <2>3. CASE \E q \in RoomId : c \in InsideOf(on, q) /\ Departs(on, t, InsideOf(on, q))
    <3>1. PICK q \in RoomId : c \in InsideOf(on, q) /\ Departs(on, t, InsideOf(on, q))
      BY <2>3
    <3>2. InsideOf(on, q) = InsideOf(s, q)
      BY <1>9 DEF InsideOf
    <3>3. Departs(s, t, InsideOf(s, q))
      BY <1>10, <3>1, <3>2
    <3> QED BY <3>3 DEF Moves, InsideOf
  <2> QED BY <1>6, <2>1, <2>2, <2>3 DEF Ends
<1> QED BY <1>7, <1>8, <1>11 DEF Steps

\* A newcomer who leaves at once closes nothing: the others are there, and, if it was
\* another tab of the owner's, the owner is.
LEMMA NewcomerClosesNothing ==
    ASSUME NEW room, IsRoom(room), DOMAIN room.users # {}, NEW c, c \notin DOMAIN room.users,
           NEW v, NEW name, NEW user, user = NewUser(v, name, VisitorOwner(room.users, v)),
           NEW more, more = RoomWith(room, c, user)
    PROVE  /\ DOMAIN more.users # {c}
           /\ ~OwnerGone(RoomWithout(more, c), more.users[c])
           /\ RoomWithout(more, c).users = room.users
<1>1. /\ more.users = Put(room.users, c, user)
      /\ RoomWithout(more, c).users = Without(more.users, {c})
  BY DEF RoomWith, RoomWithout, IsRoom
<1>2. /\ DOMAIN more.users = DOMAIN room.users \cup {c} /\ more.users[c] = user
  BY <1>1 DEF Put
<1>3. Without(more.users, {c}) = room.users
  <2>1. room.users = [d \in DOMAIN room.users |-> room.users[d]]
    BY DEF IsRoom, IsMap
  <2> QED BY <1>1, <2>1 DEF Put, Without
<1>4. user.visitor = v /\ (user.owner => \E d \in DOMAIN room.users : room.users[d].visitor = v)
  BY DEF NewUser, VisitorOwner
<1>5. ~OwnerGone(RoomWithout(more, c), more.users[c])
  BY <1>1, <1>2, <1>3, <1>4 DEF OwnerGone, HasVisitor
<1> QED BY <1>1, <1>2, <1>3, <1>5

\* A join that finds no address leaves the room as it was.
LEMMA FailedJoinSteps ==
    ASSUME NEW s, Safe(s), Reaches(s, {}), Ledger(s, {}), NEW t, IsFailedJoin(s, t)
    PROVE  Steps(s, t)
<1>1. PICK c, r, v, name :
        Newcomer(s, c, r, v, name) /\ t = Dropped(Joined(s, c, r, v, name), c)
  BY DEF IsFailedJoin
<1>2. /\ c \in DOMAIN s.connected /\ s.connected[c] = NoRoom /\ r \in DOMAIN s.rooms
  BY <1>1 DEF Newcomer
<1>3. /\ c \in Client /\ WhereOf(s)[c] = NoRoom /\ r # NoRoom
      /\ c \notin DOMAIN s.rooms[r].users
  BY <1>2, OutsiderNowhere
<1>4. IsRoom(s.rooms[r]) /\ DOMAIN s.rooms[r].users # {}
  BY <1>2, SafeRooms
<1> DEFINE j    == Joined(s, c, r, v, name)
           user == JoinedUser(s, c, r, v, name)
           more == RoomWith(s.rooms[r], c, user)
           room == RoomWithout(more, c)
<1>5. /\ j.rooms = [s.rooms EXCEPT ![r] = more]
      /\ j.connected = [s.connected EXCEPT ![c] = r]
  BY <1>2, JoinedShape DEF Safe, StateType
<1>6. /\ DOMAIN more.users # {c} /\ ~OwnerGone(room, more.users[c])
      /\ room.users = s.rooms[r].users
  BY <1>3, <1>4, NewcomerClosesNothing DEF JoinedUser
<1>7. room.closeOnOwnerLeave = s.rooms[r].closeOnOwnerLeave
  BY <1>4 DEF RoomWithout, RoomWith, IsRoom
<1>8. JoinsSafely(s, j, c, r)
  BY <1>1, NewcomerSafely
<1>9. t = Dropped(j, c)
  BY <1>1
<1> HIDE DEF j, user, more
<1>10. Safe(j) /\ c \in DOMAIN j.connected
  BY <1>8 DEF JoinsSafely
<1>11. Leaves(j, t, c)
  BY <1>9, <1>10, DroppedShape DEF Safe
<1>12. /\ j.connected[c] = r /\ j.rooms[r] = more
       /\ DOMAIN j.rooms = DOMAIN s.rooms /\ DOMAIN j.connected = DOMAIN s.connected
       /\ \A q \in DOMAIN s.rooms \ {r} : j.rooms[q] = s.rooms[q]
       /\ \A d \in DOMAIN s.connected \ {c} : j.connected[d] = s.connected[d]
  BY <1>2, <1>5
<1>13. /\ t.rooms = [j.rooms EXCEPT ![r] = room]
       /\ t.connected = Without(j.connected, {c})
  BY <1>3, <1>6, <1>11, <1>12 DEF Leaves
<1> HIDE DEF room
<1>14. SameUsers(s, t)
  BY <1>2, <1>6, <1>7, <1>12, <1>13 DEF SameUsers
<1>15. WhereOf(t) = WhereOf(s)
  BY <1>2, <1>12, <1>13 DEF WhereOf, Without
<1>16. Keeps(s, t) /\ Stays(s, t)
  BY <1>14, <1>15, SameUsersKept DEF Stays
<1> QED BY <1>16, KeepingIsStable DEF Steps, Moves

\* Whatever a handler does is such a step.
LEMMA OutcomeSteps ==
    ASSUME NEW s, Safe(s), Reaches(s, {}), Ledger(s, {}), NEW t, Outcome(s, t)
    PROVE  Steps(s, t)
<1>1. CASE IsDrop(s, t)
  BY <1>1, DropSteps DEF IsDrop
<1>2. CASE IsCreate(s, t)
  BY <1>2, CreatedSteps DEF IsCreate
<1>3. CASE IsStop(s, t)
  <2>1. PICK c, r : Member(s, c, r) /\ t = Stopped(s, c, r)
    BY <1>3 DEF IsStop
  <2>2. r \in DOMAIN s.rooms /\ c \in DOMAIN s.rooms[r].users
    BY <2>1, MemberSafely
  <2> QED BY <2>1, <2>2, StoppedSteps
<1>4. CASE IsNotice(s, t)
  BY <1>4, NoticeSteps DEF IsNotice
<1> QED
  BY <1>1, <1>2, <1>3, <1>4, JoinSteps, FailedJoinSteps, ShareSteps, FailedShareSteps
  DEF Outcome

-----------------------------------------------------------------------------
\* The steps of the loop.

\* Steps are of the rooms and of who is connected to them alone.
LEMMA SameSteps ==
    ASSUME NEW s, NEW t, Steps(s, t), NEW u, u.rooms = t.rooms, u.connected = t.connected
    PROVE  Steps(s, u)
<1>1. WhereOf(u) = WhereOf(t) /\ SharingOf(u) = SharingOf(t)
  BY DEF WhereOf, SharingOf
<1>2. Stable(s, u) /\ Outlives(s, u)
  BY DEF Steps, Stable, Outlives
<1>3. Moves(s, u)
  BY <1>1 DEF Steps, Moves, Stays, Enters, Departs, Shares, Unshares
<1> QED BY <1>2, <1>3 DEF Steps

\* A step, a new connection or nothing at all.
LEMMA NextSteps ==
    ASSUME LInv, [Next]_vars
    PROVE  Steps(Now, Now')
<1>1. /\ Safe(Now) /\ Reaches(Now, {}) /\ Ledger(Now, {})
  BY IInvOfNow DEF LInv
<1>2. CASE UNCHANGED vars
  <2>1. Now' = Now
    BY <1>2 DEF vars, Now
  <2>2. Keeps(Now, Now) /\ Stays(Now, Now)
    BY DEF Keeps, SameIdentity, Stays
  <2>3. Steps(Now, Now)
    BY <2>2, KeepingIsStable DEF Steps, Moves
  <2> QED BY <2>1, <2>3
<1>3. CASE \E c \in Client : Connect(c)
  <2>1. PICK c \in Client : Connect(c)
    BY <1>3
  <2>2. /\ Now'.rooms = Now.rooms
        /\ c \notin DOMAIN Now.connected /\ Now'.connected = Put(Now.connected, c, NoRoom)
    BY <2>1, NowFields, NextNowFields DEF Connect
  <2> DEFINE s == Now
             t == Now'
  <2> HIDE DEF s, t
  <2>3. /\ t.rooms = s.rooms
        /\ c \notin DOMAIN s.connected /\ t.connected = Put(s.connected, c, NoRoom)
    BY <2>2 DEF s, t
  <2>4. SameUsers(s, t)
    BY <2>3 DEF SameUsers
  <2>5. WhereOf(t) = WhereOf(s)
    BY <2>3 DEF WhereOf, Put
  <2>6. Keeps(s, t) /\ Stays(s, t)
    BY <2>4, <2>5, SameUsersKept DEF Stays
  <2> QED BY <2>6, KeepingIsStable DEF Steps, Moves, s, t
<1>4. CASE Becomes
  <2>1. PICK t : Become(t) /\ Outcome(Now, t)
    BY <1>4 DEF Becomes
  <2>2. Steps(Now, t)
    BY <1>1, <2>1, OutcomeSteps
  <2>3. /\ Now'.rooms = t.rooms /\ Now'.connected = t.connected
    BY <2>1, NextNowFields DEF Become
  <2> QED BY <2>2, <2>3, SameSteps
<1> QED BY <1>2, <1>3, <1>4, NextOutcome DEF LInv

\* While a connection stays in its room it stays who it was, whatever the others do.
THEOREM NobodyIsRenamed == Spec => IdentityIsStable
<1> DEFINE Step == \A r \in DOMAIN rooms \cap DOMAIN rooms' :
                    \A c \in DOMAIN rooms[r].users \cap DOMAIN rooms'[r].users :
                        /\ rooms'[r].users[c].visitor = rooms[r].users[c].visitor
                        /\ rooms'[r].users[c].name = rooms[r].users[c].name
                        /\ rooms'[r].users[c].owner = rooms[r].users[c].owner
<1>1. LInv /\ [Next]_vars => Step
  <2> SUFFICES ASSUME LInv, [Next]_vars PROVE Step
    OBVIOUS
  <2>1. Stable(Now, Now')
    BY NextSteps DEF Steps
  <2> QED BY <2>1, NowFields, NextNowFields DEF Stable, SameIdentity
<1>2. LInv /\ [Next]_vars => [Step]_vars
  BY <1>1
<1> QED BY <1>2, LedgerInvariant, PTL DEF Spec, IdentityIsStable

\* No room closes on its members, but for the owner's leaving.
THEOREM RoomsOutliveGuests == Spec => RoomOutlivesGuests
<1> DEFINE Step == \A r \in DOMAIN rooms \ DOMAIN rooms' :
                    \/ Cardinality(DOMAIN rooms[r].users) = 1
                    \/ /\ rooms[r].closeOnOwnerLeave
                       /\ Cardinality({c \in DOMAIN rooms[r].users : rooms[r].users[c].owner}) = 1
<1>1. LInv /\ [Next]_vars => Step
  <2> SUFFICES ASSUME LInv, [Next]_vars PROVE Step
    OBVIOUS
  <2>1. Outlives(Now, Now')
    BY NextSteps DEF Steps
  <2> QED BY <2>1, NowFields, NextNowFields DEF Outlives, Owners
<1>2. LInv /\ [Next]_vars => [Step]_vars
  BY <1>1
<1> QED BY <1>2, LedgerInvariant, PTL DEF Spec, RoomOutlivesGuests

-----------------------------------------------------------------------------
\* The refinement.

\* The abstract state is that of the value.
LEMMA AbstractFields ==
    /\ Where = WhereOf(Now) /\ Where' = WhereOf(Now')
    /\ Sharing = SharingOf(Now) /\ Sharing' = SharingOf(Now')
BY NowFields, NextNowFields DEF Where, Sharing, WhereOf, SharingOf

\* The sessions connect exactly the sharers with the rest of their room.
LEMMA FedAsPromised == IInv => Fed = Abstract!Feeds(Where, Sharing)
<1> SUFFICES ASSUME IInv PROVE Fed = Abstract!Feeds(Where, Sharing)
  OBVIOUS
<1>1. \A f : f \in Fed <=>
        \E r \in DOMAIN rooms : \E s \in rooms[r].sessions : f = <<s.host, s.client>>
  BY DEF Fed
<1>2. \A r \in DOMAIN rooms : /\ DOMAIN rooms[r].users \subseteq Client
                              /\ r \in RoomId /\ r # NoRoom
  BY RoomIdAssumption DEF IInv, TypeOK, IsRoom, IsMap
<1>3. \A r \in DOMAIN rooms : \A c \in DOMAIN rooms[r].users : Where[c] = r
  BY <1>2 DEF IInv, ConnectedMatchesRooms, Where
<1>4. \A c \in Client : Where[c] # NoRoom =>
        Where[c] \in DOMAIN rooms /\ c \in DOMAIN rooms[Where[c]].users
  BY DEF IInv, ConnectedMatchesRooms, Where
<1>5. \A h : h \in Sharing <=> \E r \in DOMAIN rooms : h \in Streamers(rooms[r].users)
  BY DEF Sharing
<1>6. ASSUME NEW r \in DOMAIN rooms, NEW s \in rooms[r].sessions
      PROVE  <<s.host, s.client>> \in Abstract!Feeds(Where, Sharing)
  <2>1. /\ s.host # s.client /\ s.host \in DOMAIN rooms[r].users
        /\ s.client \in DOMAIN rooms[r].users /\ rooms[r].users[s.host].streaming
    BY DEF IInv, SessionsJoinMembers
  <2>2. s.host \in Sharing
    BY <1>5, <2>1 DEF Streamers
  <2>3. s.client \in Client /\ Where[s.host] = r /\ Where[s.client] = r /\ r # NoRoom
    BY <1>2, <1>3, <2>1
  <2> QED BY <2>1, <2>2, <2>3 DEF Abstract!Feeds
<1>7. ASSUME NEW f \in Abstract!Feeds(Where, Sharing) PROVE f \in Fed
  <2>1. PICK h \in Sharing, c \in Client :
            f = <<h, c>> /\ h # c /\ Where[h] = Where[c] /\ Where[c] # NoRoom
    BY DEF Abstract!Feeds
  <2>2. PICK r \in DOMAIN rooms : h \in Streamers(rooms[r].users)
    BY <1>5
  <2>3. Where[h] = r
    BY <1>3, <2>2 DEF Streamers
  <2>4. c \in DOMAIN rooms[r].users
    BY <1>4, <2>1, <2>3
  <2>5. \E s \in rooms[r].sessions : s.host = h /\ s.client = c
    BY <2>1, <2>2, <2>4 DEF IInv, StreamReachesEveryone
  <2> QED BY <1>1, <2>1, <2>5
<1> QED BY <1>1, <1>6, <1>7

\* The loop starts as the abstract specification does.
LEMMA InitAbstract == Init => Abstract!Init
BY DEF Init, Empty, Abstract!Init, Where, Sharing, Fed

\* A step of the people is a step of the abstract specification.
LEMMA MoveAbstract ==
    ASSUME IInv, IInv', Moves(Now, Now')
    PROVE  [Abstract!Next]_(Abstract!svars)
<1>1. Fed = Abstract!Feeds(Where, Sharing) /\ Fed' = Abstract!Feeds(Where', Sharing')
  <2>1. (Fed = Abstract!Feeds(Where, Sharing))'
    BY FedAsPromised, PTL
  <2>2. Fed' = Abstract!Feeds(Where', Sharing')
    BY <2>1 DEF Abstract!Feeds
  <2> QED BY <2>2, FedAsPromised
<1>2. CASE Stays(Now, Now')
  <2>1. Where' = Where /\ Sharing' = Sharing
    BY <1>2, AbstractFields DEF Stays
  <2> QED BY <1>1, <2>1 DEF Abstract!svars
<1>3. ASSUME NEW c \in Client, NEW r \in RoomId, Enters(Now, Now', c, r)
      PROVE  Abstract!Next
  <2>1. Abstract!Enter(c, r)
    BY <1>3, AbstractFields DEF Enters, Abstract!Enter
  <2> QED BY <1>1, <2>1 DEF Abstract!Next
<1>4. ASSUME NEW c \in Client, Departs(Now, Now', {c}) PROVE Abstract!Next
  <2>1. Abstract!Leave(c)
    BY <1>4, AbstractFields DEF Departs, Abstract!Leave, Abstract!Depart
  <2> QED BY <1>1, <2>1 DEF Abstract!Next
<1>5. ASSUME NEW c \in Client, Shares(Now, Now', c) PROVE Abstract!Next
  <2>1. Abstract!Share(c)
    BY <1>5, AbstractFields DEF Shares, Abstract!Share
  <2> QED BY <1>1, <2>1 DEF Abstract!Next
<1>6. ASSUME NEW c \in Client, Unshares(Now, Now', c) PROVE Abstract!Next
  <2>1. Abstract!Unshare(c)
    BY <1>6, AbstractFields DEF Unshares, Abstract!Unshare
  <2> QED BY <1>1, <2>1 DEF Abstract!Next
<1>7. ASSUME NEW r \in RoomId, Departs(Now, Now', {p \in Client : WhereOf(Now)[p] = r})
      PROVE  Abstract!Next
  <2>1. Abstract!Clear(r)
    BY <1>7, AbstractFields DEF Departs, Abstract!Clear, Abstract!Depart
  <2> QED BY <1>1, <2>1 DEF Abstract!Next
<1> QED BY <1>2, <1>3, <1>4, <1>5, <1>6, <1>7 DEF Moves

\* The server keeps the promise to its users: whatever the loop does is people entering,
\* leaving, sharing or ceasing to, each screen fed to the others of its room.
THEOREM ServerImplementsScreenShare == Spec => ImplementsScreenShare
<1>1. LInv /\ LInv' /\ [Next]_vars => [Abstract!Next]_(Abstract!svars)
  BY NextSteps, MoveAbstract DEF Steps, LInv
<1>2. Spec => [][Next]_vars
  BY PTL DEF Spec
<1> QED
  BY <1>1, <1>2, InitAbstract, LedgerInvariant, PTL DEF Spec, Abstract!Spec, ImplementsScreenShare

==============================================================================

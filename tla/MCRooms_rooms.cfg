SPECIFICATION Spec
CONSTANTS
    Client = {c1, c2, c3}
    Visitor = {v1}
    Blank = Blank
    Serial = {1, 2}
    Mode = {"stun", "turn"}
    RoomId = {r1, r2}
    ShortId = ShortId
    NoRoom = NoRoom
    AuthMode = "none"
    Authenticated = {}
SYMMETRY Symmetry
INVARIANTS
    RoomsMatchMembers
    SessionsJoinMembers
    StreamReachesEveryone
    GuestNamesIdentifyVisitors
    OwnerIsOneVisitor
    TurnFollowsSessions
    EveryEndKnowsItsSessions
    EveryMemberSeesThePeople
    ClosedOnce
    MetricsBalance
PROPERTIES
    IdentityIsStable
    RoomOutlivesGuests
    ImplementsScreenShare

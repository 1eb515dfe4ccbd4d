SPECIFICATION PagesSpec
CONSTANTS
    Client = {c1, c2}
    Visitor = {}
    Blank = Blank
    Serial = {1, 2}
    Mode = {"stun"}
    RoomId = {r1}
    ShortId = ShortId
    NoRoom = NoRoom
    AuthMode = "none"
    Authenticated = {}
    MaxShares = 2
SYMMETRY PagesSymmetry
INVARIANTS
    RoomComesFirst
    OfferFindsItsPeer
    PeersHaveSessions
    StoppedMeansStopped
    HandshakesGoOn
CHECK_DEADLOCK FALSE

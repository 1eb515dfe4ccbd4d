SPECIFICATION FairPagesSpec
CONSTANTS
    Client = {c1, c2}
    Visitor = {}
    Blank = Blank
    Serial = {1}
    Mode = {"stun"}
    RoomId = {r1}
    ShortId = ShortId
    NoRoom = NoRoom
    AuthMode = "none"
    Authenticated = {}
    MaxShares = 1
PROPERTIES
    SessionsConnect
    ViewersGoDark
CHECK_DEADLOCK FALSE

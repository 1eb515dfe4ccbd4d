SPECIFICATION FairSpec
CONSTANTS
    Client = {c1}
    Prober = {p1}
PROPERTIES
    LostOnesLeave
    CloseWriterCloses
    LoopReturns

SPECIFICATION FairSpec
CONSTANTS
    Client = {c1}
    Prober = {}
CHECK_DEADLOCK FALSE
PROPERTIES
    WriterExitsOnErrors

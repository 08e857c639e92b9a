SPECIFICATION RawSpec
CONSTANTS
    Capacity = 2
    Levels = {0, 1}
    Wrap = 2
    MaxSessions = 3
INVARIANTS BlockSound CaptureFaithful DumpFaithful

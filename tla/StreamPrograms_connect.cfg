SPECIFICATION Spec
CONSTANTS
    BufferSize = 2
    Clients = {c1, c2}
    Threads = {t1, t2}
    Bytes = {1}
    MaxSent = 2
    PipeSize = 2
    Messages <- MCMessages
    None = None
    MaxPacket = 4
    ReadSize = 5
    HandshakeSizes <- MCHandshake
    Responses <- MCResponses
    Header <- MCHeader
    Payloads <- MCPayloads
    MaxMessages = 3
    MaxFile = 3
    BUFSIZE = 2
    Writer <- MCWriters
    Reader <- MCReaders
    WriteSizes = {0, 1, 2}
    ReadSizes = {1, 2}
    MaxWrites = 2
    MaxReads = 2
    MaxElements = 1
    MaxStarts = 1
INVARIANTS ConnectedMeansHandshaken
\* Each of the programs ends.
CHECK_DEADLOCK FALSE

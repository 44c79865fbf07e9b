SPECIFICATION Spec
CONSTANTS
    Clients = {c1, c2}
    Threads = {w1, w2}
    BufferSize = 2
    Bytes = {1, 2}
    MaxSent = 2
INVARIANTS EchoesWhatTheySend
CHECK_DEADLOCK FALSE

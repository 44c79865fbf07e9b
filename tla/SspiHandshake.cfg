SPECIFICATION Spec
\* The server may go down; without it, or once every client has run, all stop.
CHECK_DEADLOCK FALSE
CONSTANTS
    Clients = {c1, c2}
    Server = server
    None = none
    MaxTokens = 3
    MaxTrailer = 2
    SockBuf = 2
    Completes = FALSE
INVARIANT TypeOK
INVARIANT TokensStayWhole
INVARIANT SessionEstablished
INVARIANT MessageArrives
INVARIANT NothingKept
PROPERTY ClientEnds

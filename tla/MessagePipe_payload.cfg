SPECIFICATION Spec
CONSTANTS
    BufferSize = 2
    PipeSize = 2
    Header <- MCHeader
    Payloads <- MCPayloads
    MaxMessages = 1
INVARIANTS DataIsReadByChild
CHECK_DEADLOCK FALSE

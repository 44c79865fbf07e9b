SPECIFICATION Spec
CONSTANTS
    Writer <- Writers
    Reader <- Readers
    WriteSizes = {3}
    ReadSizes = {2}
    MaxWrites = 3
    MaxReads = 3
INVARIANT CopiesTransportData
CHECK_DEADLOCK FALSE

SPECIFICATION Spec
\* Both processes end.
CHECK_DEADLOCK FALSE
CONSTANTS
    MaxFile = 5
    BUFSIZE = 2
    PipeSize = 2
PROPERTY WritingStops

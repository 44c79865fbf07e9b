SPECIFICATION Spec
CONSTANTS
    Ticks = 3
    MaxControls = 3
    Message <- MCMessage
    Visitors = {"v1"}
INVARIANTS TypeOK WorkInOrder EchoInOrder ReportsInOrder ServiceReady
PROPERTIES ProgramsEnd
\* Each of the programs ends.
CHECK_DEADLOCK FALSE

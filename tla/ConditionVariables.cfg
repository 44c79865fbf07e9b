SPECIFICATION FairSpec
CONSTANTS
    Producers = {p1}
    Consumers = {c1, c2}
    Main = main
    NoThread = none
    BUFFER_SIZE = 2
    Wrap = 3
INVARIANTS TypeOK Accounting DrainedAtExit NoLostWakeup NobodySleepsThroughStop
PROPERTIES ImplementsFifo StopTerminates ItemsAreConsumed

---------------------------- MODULE HandlePrograms ----------------------------
EXTENDS CallSequence, SecurityPrograms, ComPrograms, SystemPrograms,
        NetworkPrograms, ProcessPrograms, WindowPrograms, TLC

AllPrograms ==
    SecurityTable @@ ComTable @@ SystemTable @@ NetworkTable @@ ProcessTable
    @@ WindowTable

ASSUME CallsAssumption
===============================================================================

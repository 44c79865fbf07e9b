CONSTANTS
    Table <- AllPrograms
SPECIFICATION Spec
INVARIANTS
    TypeOK
    OnlyHeld
    InnerGoesFirst
    NothingLeftBehind

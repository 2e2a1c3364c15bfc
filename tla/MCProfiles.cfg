SPECIFICATION Spec
CONSTANTS
    Sites <- MCSites
    DataLens = {148}
    FbChecks = 2
    PerTick = 2
    InFlight = 2
INVARIANTS NeverMistaken OneStage
PROPERTIES ComesUp Settles

SPECIFICATION Spec
CONSTANTS
    Sites <- StuckSites
    DataLens = {148}
    FbChecks = 2
    PerTick = 2
    InFlight = 2
PROPERTY FindsTheStage

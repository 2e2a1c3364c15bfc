SPECIFICATION Spec
CONSTANTS
    Spans <- MCSpans
    QuietUnits = 1
    MbUnits = 3
    Word = 5
    TickWord = 6
    PerTick = 2
    MaxTick = 5
    Reconnects = 1
INVARIANTS VolumeExact DueInItsSpan
PROPERTIES RetryKept ForcedOnlyAfterWait MovesInQuiet
\* The clock is bounded.
CHECK_DEADLOCK FALSE

SPECIFICATION FairSpec
CONSTANTS
    NumChannels = 3
    Length <- MCLength
    MaxLength = 3
    LfsrTaps = {1}
    PhaseTaps <- MCPhaseTaps
    Fanout <- MCFanout
    PatternLists <- MCPatternLists
    Setups <- MCSetups
INVARIANTS
    SolutionsKept
    RaisesOnlyWhenImpossible
    LoadedAtCapture
    ReadsMatch
PROPERTIES
    RetargetableIsPlayed
CHECK_DEADLOCK FALSE

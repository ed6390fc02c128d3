SPECIFICATION Spec
CONSTANTS
    NumChannels = 3
    Length <- MCLength
    MaxLength = 3
    LfsrTaps = {1}
    PhaseTaps <- MCPhaseTaps
    Fanout <- MCFanout
    PatternLists <- MCPatternLists
    Setups <- UndeclaredSetups
INVARIANTS
    CaptureIsFunctional
CHECK_DEADLOCK FALSE

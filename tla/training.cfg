SPECIFICATION Spec
CONSTANTS
    Labels = {"x", "y", "z"}
    ClassNames <- MCClassNames
    AttrValues <- MCAttrValues
    Blocks <- MCBlocks
    MaxBlocks = 3
    N = 100
    Lift = 79
    Log <- MCLog
INVARIANTS
    FrequencyOrder
    ZeroToN
    WholeModelOrNone

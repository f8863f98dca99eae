SPECIFICATION FairSpec
CONSTANTS
    NoAnswer = NoAnswer
    RowCounts = {1, 2, 3, 5}
    Unit = 2
    Classes = {0, 1, 2}
    PermVecs <- MCMorePermVecs
    RowScore <- MCRowScore
    TornVectors <- MCTornVectors
INVARIANTS
    
    CallbackHasArgs
    OneGroupIsRight
PROPERTIES
    StableWhilePrinting
    Ends

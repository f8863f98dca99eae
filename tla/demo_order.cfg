SPECIFICATION FairSpec
CONSTANTS
    NoAnswer = NoAnswer
    RowCounts = {2}
    Unit = 1
    Classes = {0, 1, 2}
    PermVecs <- MCPermVecs
    RowScore <- MCRowScore
    TornVectors <- MCTornVectors
INVARIANTS
    PrintedIsRight

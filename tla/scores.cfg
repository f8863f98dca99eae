SPECIFICATION Spec
CONSTANTS
    NumSlots = 20
    ClassNum = 2
    ClassProb <- MCClassProb
    CondProb <- MCCondProb
    AttrChoices <- MCAttrChoices
    DefaultAttrs <- MCGiven
    LineEnds = {"LF"}
INVARIANTS
    SumsTypeOK
    WindowSums
    BlocksSeparate
    LinesInPlace
    ScoresAreNaiveBayes
    LabelsAreBest

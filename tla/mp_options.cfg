SPECIFICATION Spec
CONSTANTS
    NumSlots = 16
    ClassNum = 2
    ClassProb <- MCClassProb
    CondProb <- MCCondProb
    AttrChoices <- MCAttrChoices
    DefaultAttrs <- MCOther
    LineEnds = {"LF"}
INVARIANTS
    ScoresAreNaiveBayes

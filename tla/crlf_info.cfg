SPECIFICATION Spec
CONSTANTS
    NumSlots = 16
    ClassNum = 2
    ClassProb <- MCClassProb
    CondProb <- MCCondProb
    AttrChoices <- MCAttrChoices
    DefaultAttrs <- MCGiven
    LineEnds = {"LF", "CRLF"}
INVARIANTS
    ScoresAreNaiveBayes

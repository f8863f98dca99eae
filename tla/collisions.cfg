SPECIFICATION FairOutageSpec
CONSTANTS
    c1 = c1
    c2 = c2
    q1 = q1
    q2 = q2
    q3 = q3
    NoInput = NoInput
    Clients = {c1, c2}
    Queries = {q1, q2, q3}
    MaxOutages = 0
    MaxQuits = 1
    MaxTime = 3
    CreatesPerSecond = 2
    NumData = 2
    PlainMod = 16
    MaxCoeff = 2
    ClassNum = 3
    Score <- MCScore
    Unit <- MCUnit
    Owner <- MCOwner
    Draws <- MCDraws
    PermVecs <- MCPermVecs
INVARIANTS
    RunningMaximum
    ResultsAreBest
PROPERTIES
    ComputedIsFinal
    EveryQueryEnds
    ImplementsClassificationWithLosses

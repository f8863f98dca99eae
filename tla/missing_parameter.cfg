SPECIFICATION Spec
CONSTANTS
    p1 = p1
    p2 = p2
    Peers = {p1}
    MaxLives = 1
    Values = {2, 3}
    Defaults <- MCDefaults
    ConfigFiles <- MCPartial
    NoConfig = NoConfig
INVARIANTS
    DefaultsApply

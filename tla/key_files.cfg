SPECIFICATION Spec
CONSTANTS
    p1 = p1
    p2 = p2
    Peers = {p1, p2}
    MaxLives = 3
    Values = {2, 3}
    Defaults <- MCDefaults
    ConfigFiles <- MCFiles
    NoConfig = NoConfig
INVARIANTS
    TypeOK
    OldestLast
    WholeGeneration
    PeersHoldAuthorityKeys

SPECIFICATION Spec
CONSTANTS
    N = 2
    Pillar <- MCPillar
    Beyond = {1}
    Dates = {0, 1, 2}
    Rates = {1, 3, 5}
    Invalid = Invalid
    AvgRate = 2
    MaxRate = 4
    MaxIterations = 2
    MaxNode = 12
INVARIANTS
    TypeOK
    SolvedPillarsReprice
PROPERTIES
    OnlyUnsolvableFails
    BootstrapEnds

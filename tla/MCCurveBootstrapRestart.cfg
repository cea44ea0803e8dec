SPECIFICATION Spec
CONSTANTS
    N = 2
    Pillar <- MCPillar
    Beyond = {}
    Dates = {0}
    Rates = {1, 3}
    Invalid = Invalid
    AvgRate = 2
    MaxRate = 4
    MaxIterations = 2
    MaxNode = 12
INVARIANTS
    InstrumentsRepriced

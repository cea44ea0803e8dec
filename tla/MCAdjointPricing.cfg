SPECIFICATION AdjointSpec
CONSTANTS
    Instruments <- MCInstruments
    i1 = i1
    i2 = i2
    Engines = {e1, e2}
    Quotes = {q1}
    Bad = Bad
    Dates = {0, 1}
    Expiry <- MCExpiry
    DateObservers <- MCInstruments
    None = None
    Expired = Expired
SYMMETRY Symmetry
INVARIANTS
    TypeOK
    ServesCurrentValue
    DerivativesCurrent
PROPERTIES
    FrozenKeepsResult

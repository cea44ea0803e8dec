CONSTANTS
    Currency = {1, 2, 3, 4, 5}
    NoCurrency = 0
    Triangulation <- MCTriangulation
    RateDates = {1, 2, 3}
    KnownRates <- MCKnownRates
    NewEntries <- MCNewEntries
    MaxAdded = 3
SPECIFICATION RatesSpec
INVARIANTS FoundIfConnected LatestRatesConvert

CONSTANTS
    MarketHolidays <- MCMarketHolidays
    MonthEnds <- MCMonthEnds
    MonthMiddles <- MCMonthMiddles
    Dates <- MCDates
    LastDay = 4
    FlagValues <- MCFlagValues
    MaxScopes = 1
    FixingDates <- MCFixingDates
    Values = {"low", "high"}
    NullValue = "null"
    FixingDate = 2
    PaymentDate = 5
    IndexFixingDays = 1
    SettlementDays = 1
    HolidayDates <- MCHolidayDates
    Batches <- MCBatches
    MaxOperations = 5
SPECIFICATION Spec
INVARIANTS CurveOnDate ResultCurrent FixingsStored CalendarLaws
PROPERTY ScopeRestores

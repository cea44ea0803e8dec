CONSTANTS
    Steps = 4
    Weight <- MCWeight
    Coupons <- MCCoupons
    LastPayment = 4
    Exercises <- MCExercises
SPECIFICATION Spec
INVARIANTS PaymentsOnce OptionExact StatePricesAgree

SPECIFICATION ExpectationSpec
CONSTANTS
    N = 3
    Jobs <- MCJobs
CHECK_DEADLOCK FALSE
INVARIANTS
    ValueKept
    StaysHermitian
    PriceIsABound
    InFlightCeiling
    KeepsMeaning
    NothingLeft
    DeferralKeepsMean
PROPERTIES
    PassesEnd

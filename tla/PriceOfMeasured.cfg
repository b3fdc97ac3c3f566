SPECIFICATION ExpectationSpec
CONSTANTS
    N = 3
    Jobs <- MeasuredJobs
CHECK_DEADLOCK FALSE
INVARIANT
    PriceCovers

SPECIFICATION ExpectationSpec
CONSTANTS
    N = 3
    Jobs <- WideJobs
CHECK_DEADLOCK FALSE
INVARIANT
    KeepsMeaning

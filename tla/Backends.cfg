SPECIFICATION Spec
CONSTANTS
    N = 3
    max_branches = 4
    Scripts <- MCScripts
    Gates <- MCGates
    FreeSteps = 2
    Observables <- MCObservables
CHECK_DEADLOCK FALSE
INVARIANTS
    SameAmplitudes
    BranchesAreStates
    RowsIndependent
    SameProbabilities
    SameExpectations
    SameOutcomes
    AnalyticResetSound

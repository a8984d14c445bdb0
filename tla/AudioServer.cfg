SPECIFICATION LiveSpec
CONSTANTS
    MaxRounds = 5
    FirstCounts = {0, 41}
INVARIANTS
    EncodesSteadyBuffer
    OneRoundLate
PROPERTIES
    DeleteReturns
